SPECIFICATION FairSpec
CONSTANTS
    Clients = {page}
    page = page
    MaxEvents = 2
    MaxBars = 2
    MaxVersion = 3
    MaxRounds = 2
    DriftLimit = 2
    MaxCompatible = 2
INVARIANTS
    TypeOK
    ChecksDescribePackage
    PhaseAgreesWithChecks
    ArchiveIsVersionHistory
    ActiveIsArchived
    DriftIsFlagged
PROPERTIES
    RequestsEnd
    SelectionIsKept
    ImplementsReviewGate
