SPECIFICATION FairSpec
CONSTANTS
    Targets = {known, fresh}
    Others = {}
    Protected = {guarded}
    Isolation = TRUE
    MaxAttempts = 3
    MaxCalls = 2
    MaxRuns = 2
INVARIANTS
    TypeOK
    SummariesAgree
    AnchorStaysInRun
PROPERTIES
    CommitsStayInScope
    RunsEnd
CHECK_DEADLOCK FALSE
