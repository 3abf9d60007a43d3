SPECIFICATION Spec
CONSTANTS
    Assets <- MCAssets
    Quote = "cash"
    Market <- MCMarket
    SymbolOrder <- MCSymbolOrder
    Day = 2
    Scale = 1000
    Image = "guest"
    Interval = 2
    Grace = 1
    Readers = {"performance", "trades", "prove"}
    Opening <- MCOpening
    Listings <- MCListings
    Prices <- MCPrices
    Moves <- MCMoves
    Queries <- MCQueries
    Window = 2
    StepWidth = 1
    Keys <- MCKeys
    TrustLists <- MCTrustLists
    Anchors <- MCAnchors
    Account = "account"
    MaxNow <- MCMaxNow
    MaxEvents <- MCMaxEvents
    MaxEdits = 1
INVARIANTS HoldingsRebuilt FlowsAreNotGains  PagesCoverLog  
CHECK_DEADLOCK FALSE
