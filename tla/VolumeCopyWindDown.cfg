SPECIFICATION FairSpec
CONSTANTS
    Callers = {ui, agent}
    N = 2
    Shape <- MCFiles
    Waiters <- MCTwo
    Width = 2
    MaxPrompts = 0
    MaxClicks = 0
    NoMail = NoMail
INVARIANTS
    NoLostWakeup
PROPERTIES
    WindsDown
CHECK_DEADLOCK FALSE
