SPECIFICATION FairSpec
CONSTANTS
    Callers = {ui}
    N = 3
    Shape <- MCMixed
    Waiters <- MCThree
    Width = 2
    MaxPrompts = 2
    MaxClicks = 2
    NoMail = NoMail
INVARIANTS
    TypeOK
    OneQuestion
    AnswerFitsPrompt
CHECK_DEADLOCK FALSE
