SPECIFICATION FairSpec
CONSTANTS
    Threads = {t1, t2}
    EnvironmentHasKeys = FALSE
    MaxRequests = 3
INVARIANTS
    TypeOK
    ResultsDescribeTheRun
    HealthyTerminalsPassed
    SoundSourcesAreTested
PROPERTIES
    RequestsEnd
CHECK_DEADLOCK FALSE
