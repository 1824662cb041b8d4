SPECIFICATION Spec
CONSTANTS
    MaxRunning = 1
    s1 = s1
    s2 = s2
    Sessions = {s1, s2}
    Old = s1
    NoSession = none
    BootEvents = 3
    MaxSymbols = 1
    MaxStarts = 1
    MaxFaults = 0
PROPERTIES
    CreationPrepares
CHECK_DEADLOCK FALSE
