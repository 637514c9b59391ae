SPECIFICATION Spec
CONSTANTS
    Callers = {ui, agent}
    N = 2
    Shape <- MCFiles
    Waiters <- MCTwo
    Width = 2
    MaxPrompts = 2
    MaxClicks = 1
    NoMail = NoMail
PROPERTIES
    StoppedIsTerminal
CHECK_DEADLOCK FALSE
