SPECIFICATION Spec
CONSTANTS
    MaxRunning = 2
    s1 = s1
    s2 = s2
    Sessions = {s1, s2}
    Old = s1
    NoSession = none
    BootEvents = 1
    MaxSymbols = 1
    MaxStarts = 2
    MaxFaults = 1
INVARIANTS
    TypeOK
    ShownIsSaved
    ButtonsAreHeld
    TrainingIsPrepared
PROPERTIES
    HandlersEnd
CHECK_DEADLOCK FALSE
