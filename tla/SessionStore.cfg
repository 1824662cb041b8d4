SPECIFICATION FairSpec
CONSTANTS
    Threads = {t1}
    t1 = t1
    MaxChanges = 4
    StoreMayFail = TRUE
    StartsAlone = FALSE
INVARIANTS
    TypeOK
    SavedSurvives
    FileIsWhole
    ServesSaved
PROPERTIES
    RequestsAnswered
CHECK_DEADLOCK FALSE
