SPECIFICATION FairSpec
CONSTANTS
    both = both
    left = left
    right = right
    rename = rename
    L = L
    R = R
    NoOp = NoOp
    Managed = {both, left, right}
    Instant = {rename}
    Lanes = {L, R}
    LanesOf <- MCLanesOf
    Previewed = {left}
    Panics = {both, left}
    FailureCapacity = 1
ACTION_CONSTRAINT ThreeAtATime
INVARIANTS
    TypeOK
    LaneExclusive
    LaneTableExact
    WorkIsGuarded
    NothingOutlivesIt
    OrderListsLive
    NoStrandedOp
    NoOvertaking
PROPERTIES
    ImplementsLaneLock
    SingleLaneServed
