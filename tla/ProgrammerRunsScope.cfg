SPECIFICATION Spec
CONSTANTS
    Targets = {known, fresh}
    Others = {}
    Protected = {guarded}
    Isolation = TRUE
    MaxAttempts = 3
    MaxCalls = 1
    MaxRuns = 1
INVARIANT ScopeErrorsAreTrue
CHECK_DEADLOCK FALSE
