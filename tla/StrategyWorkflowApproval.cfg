SPECIFICATION Spec
CONSTANTS
    Clients = {page, script}
    page = page
    script = script
    MaxEvents = 1
    MaxBars = 2
    MaxVersion = 2
    MaxRounds = 1
    DriftLimit = 2
    MaxCompatible = 2
PROPERTY ApprovesCheckedCandidate
