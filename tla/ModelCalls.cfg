SPECIFICATION Spec
CONSTANTS
    t1 = t1
    t2 = t2
    Threads = {t1, t2}
    Requests = {1}
    MaxKeys = 2
    Models = 2
    CacheSize = 1
    MaxJobs = 2
SYMMETRY Symmetric
INVARIANTS
    TypeOK
    ProvenanceIsKept
    
    AloneTriesEveryKey
CHECK_DEADLOCK FALSE
