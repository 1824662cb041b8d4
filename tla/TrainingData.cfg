SPECIFICATION Spec
CONSTANTS
    Symbols = {"a", "b"}
    Results = {"full"}
    Sections = {"intelligence"}
    Types = {"trend"}
    Windows <- MCWindows
    NoWindow = NoWindow
    Providers <- AlphavantageFirst
    Listed <- MCListed
    LastBar <- MCToday
    NoHistory = NoHistory
    LocalAtStart <- HalfFiles
    Today <- MCToday
    MaxRounds = 2
    MaxProfile = 0
    RecallSize = 1
    ContextSize = 1
INVARIANTS
    TypeOK
    PackagesRestOnRealHistory
    SplitsAreSound
PROPERTIES
    TrainingEnds
CHECK_DEADLOCK FALSE
