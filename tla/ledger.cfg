SPECIFICATION Spec
CONSTANTS
    Nodes = {n1, n2}
    Txs = {t1}
    GenesisOf <- SharedGenesis
    InitialDifficulty = 1
    RetargetInterval = 2
    BlockTime = 3
    Moments = {1, 2, 15}
    MaxBlocks = 3
    MaxAlterations = 1
    MaxReplacements = 2
INVARIANTS TypeOK ChainLinked SharedBlockSharedPast SameChainSameDifficulty
PROPERTIES HeightNeverDrops AcceptedNotLost
CHECK_DEADLOCK FALSE
