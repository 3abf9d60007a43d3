SPECIFICATION Spec
CONSTANTS
    Brokers <- MCBrokers
    Credentials = {k1}
    Workers <- MCWorkers
    Moves <- MCAllMoves
    MaxClock <- MCMaxClock
    MaxFacts <- MCMaxFacts
    MaxFaults <- MCMaxFaults
    MaxStarts <- MCMaxStarts
    MaxEvents = 2
    SyncInterval = 0
    Chosen = {}
    TradePage = 1
    EarnOverlap = 1
    MinSyncGap = 1
    ReverifyAfter = 1
    Settle = 1
    Networks <- MCNetworks
    TokenNetworks <- MCTokenNetworks
    Confirmations = 1
    WalletGap = 1
    ReportWindow = 2
INVARIANTS SyncedIsCurrent NoGap  WalletTelescopes IbkrTold 
PROPERTY HoldsEachOnce
CHECK_DEADLOCK FALSE
