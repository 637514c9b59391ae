SPECIFICATION FairSpec
CONSTANTS
    Files <- MCFiles
    Dirs <- MCDirs
    Inside <- MCInside
    Inverses <- MCInverses
    RecordBatch = 2
    RollbackPage = 2
    MaxTrouble = 2
CHECK_DEADLOCK FALSE
INVARIANTS TypeOK OfferedIsWhole ReversedIsTrue VerdictIsTrue
PROPERTY ChangedIsSpared RollingBackEnds
