SPECIFICATION BestCaseSpec
CONSTANTS
    Callers = {ui}
    N = 3
    Shape <- MCMixed
    Waiters <- MCThree
    Width = 2
    MaxPrompts = 2
    MaxClicks = 1
    NoMail = NoMail
PROPERTIES
    AnswersAreHeard
CHECK_DEADLOCK FALSE
