SPECIFICATION Spec
SYMMETRY Symmetric
CONSTANTS
    t1 = t1
    p1 = p1
    p2 = p2
    NoProvider = NoProvider
    Threads = {t1}
    Providers = {p1, p2}
    MaxWrites = 2
INVARIANTS
    TypeOK
    OldVersionsAreBackedUp
    AnswersDescribeTheSaved
