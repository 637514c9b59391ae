SPECIFICATION Spec
CONSTANTS
    Files <- MCFiles
    Dirs <- MCDirs
    Inside <- MCInside
    Inverses <- MCInverses
    RecordBatch = 2
    RollbackPage = 2
    MaxTrouble = 1
CHECK_DEADLOCK FALSE
INVARIANT RolledBackIsReversed
