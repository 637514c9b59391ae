SPECIFICATION Spec
CONSTANTS
    Callers = {ui}
    N = 2
    Shape <- MCFiles
    Waiters <- MCTwo
    Width = 2
    MaxPrompts = 2
    MaxClicks = 1
    NoMail = NoMail
INVARIANTS
    LedgerIsDisk
CHECK_DEADLOCK FALSE
