SPECIFICATION FairSpec
CONSTANTS
    a = a
    b = b
    Ops = {a, b}
    NoOp = NoOp
    MaxTicks = 1
    MaxTeardowns = 1
INVARIANTS
    TypeOK
    NobodyWalksForNobody
    CancelledForAReason
PROPERTIES
    OutcomeIsFinal
    PauseIsNotSilence
    WaitsEnd
ACTION_CONSTRAINT FewHands
CHECK_DEADLOCK FALSE
