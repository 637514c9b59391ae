SPECIFICATION FairSpec
CONSTANTS
    r1 = r1
    r2 = r2
    Volumes = {v1}
    Starts = {s1}
    Disables = {d1}
    Releases = {r1, r2}
    Batches = {b1}
    None = None
    SpawnFails = TRUE
ACTION_CONSTRAINT FewCalls
INVARIANTS
    TypeOK
    NoLostWakeup
    DisableHasLastWord
    OneHolder
    LetGoMeansLetGo
PROPERTY
    LateAnswer
CHECK_DEADLOCK FALSE
