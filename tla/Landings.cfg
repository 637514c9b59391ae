SPECIFICATION FairSpec
CONSTANTS
    Original = Original
    Foreign = Foreign
    Placeholder = Placeholder
    None = None
    Jobs <- MCJobs
    SizeOf <- MCSizes
    MaxCrashes = 2
    MaxPulls = 1
    MaxRefusals = 1
    Compacts = TRUE
ACTION_CONSTRAINT FewFaults
CHECK_DEADLOCK FALSE
INVARIANTS TypeOK OriginalSurvives FinalNameWhole SweepSparesLive AsideIsRecorded
PROPERTY CommittedUnswept AsideComesHome
