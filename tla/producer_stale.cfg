SPECIFICATION ProductionSpec
CONSTANTS
    Nodes = {n1}
    Txs = {t1}
    GenesisOf <- SharedGenesis
    InitialDifficulty = 1
    RetargetInterval = 2
    BlockTime = 3
    Moments = {1, 2}
    MaxBlocks = 3
    MaxAlterations = 0
    MaxReplacements = 0
    Home = n1
    Builders = {}
    Runs = {r1, r2}
    MaxOverlap = 2
    MaxStarts = 1
    MaxTransactionsPerBlock = 1
INVARIANTS SuccessMeansChained
CHECK_DEADLOCK FALSE
