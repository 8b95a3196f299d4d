SPECIFICATION FairProductionSpec
CONSTANTS
    Nodes = {n1, n2}
    Txs = {t1}
    GenesisOf <- SharedGenesis
    InitialDifficulty = 1
    RetargetInterval = 2
    BlockTime = 3
    Moments = {1, 2}
    MaxBlocks = 3
    MaxAlterations = 0
    MaxReplacements = 1
    Home = n1
    Builders = {n2}
    Runs = {r1, r2}
    MaxOverlap = 2
    MaxStarts = 1
    MaxTransactionsPerBlock = 1
INVARIANTS SelectedNotLost
PROPERTIES ChainedIsExecuted
CHECK_DEADLOCK FALSE
