SPECIFICATION Spec
CONSTANTS
    Callers = {ui}
    N = 2
    Shape <- MCFolders
    Waiters <- MCTwo
    Width = 2
    MaxPrompts = 2
    MaxClicks = 1
    NoMail = NoMail
PROPERTIES
    AllCollapsesQueued
CHECK_DEADLOCK FALSE
