SPECIFICATION Spec
CONSTANTS
    Symbols = {"a", "b"}
    Results = {"full", "error"}
    Sections = {"intelligence", "fundamentals"}
    Types = {"trend"}
    Windows <- MCWindows
    NoWindow = NoWindow
    Providers <- AlphavantageFirst
    Listed <- MCListed
    LastBar <- MCToday
    NoHistory = NoHistory
    LocalAtStart <- FullFiles
    Today <- MCToday
    MaxRounds = 2
    MaxProfile = 1
    RecallSize = 1
    ContextSize = 1
PROPERTY SuppliedDataUnblocks
CHECK_DEADLOCK FALSE
