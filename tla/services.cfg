SPECIFICATION ServicesSpec
CONSTANTS
    Users = {x1, x2}
    Whitelist = {x2}
    Blacklist = {}
    Costs = {1, 2}
    tokens_per_second = 1
    token_max_balance = 2
    cost_per_request = 1
    block_duration = 2
    MaxTime = 3
    Borrowers = {u1, u2}
    Assets = {a, b}
    Amounts = {2, 3}
    MaxSupply = 2
    MaxCollateral = 3
    Stakers = {u1, u2}
    Delegators = {d1, d2}
    StakeAmounts = {1, 2}
    minimum_stake = 1
    validator_requirement = 2
    MaxStaked = 4
    MaxRequests = 2
    Holders = {s, h}
    Sender = s
    TokenIds = {t1, t2}
    Values = {1, 2}
    MaxGiven = 2
    DaoAddresses = {u1, u2}
    VoteTypes = {"for"}
    TokenAmounts = {2}
    proposal_threshold = 1
    MaxTokens = 2
    MaxGone = 2
    MaxProposals = 1
    Voters = {u1, u2}
    Methods = {"for", "against", "abstain"}
    Powers = {1}
    MaxCasts = 3
    Keys = {k1, k2, k3}
    FirstKeys = {k1, k2}
    MaxWalletTxs = 2
    Accounts = {u1, u2}
    Transfers = {1}
    Balances = {1}
    MaxBlockIndex = 2
    MaxRecorded = 2
    MaxSnapshots = 1
    CacheKeys = {k1, k2, k3}
    Sizes = {1, 2}
    Ttls = {1, 2}
    MaxCacheTime = 3
    GasTransactions = {u1, u2}
    GasLimits = {2, 3}
    GasAmounts = {1, 2}
    blockGasLimit = 4
    MaxOver = 1
    EventTypes = {"block.added"}
    Dispatches <- MCDispatches
    Registrations <- MCRegistrations
    maxHistorySize = 2
    Subscribers = {u1, u2}
    MaxEvents = 3
    PluginIds = {"a", "b", "core"}
    SystemPlugins = {"core"}
    DependencyChoices <- MCDependencyChoices
    Callers = {u1, u2}
    MaxObjects = 2
    total_shards = 2
    ShardTxs = {"t", "u"}
    shardOf <- MCShardOf
    ShardValidators = {u1, u2, u3}
    MaxShardTime = 1
    ContractNames = {n}
    Addresses = {w}
    Executions = {u1, u2}
    MaxContexts = 1
    MaxDraws = 3
    ExecutionJobs = {u1, u2}
    BlocksOfTxs <- MCBlocksOfTxs
    PipelinePlugins = {p, q}
    DefaultGas = 3
    DefaultFee = 1
    MaxPluginChanges = 1
    FeeAmounts = {1, 2, 5}
    Rewarded = {u1, u2}
    Settings <- MCSettings
    minimum_distribution_amount = 2
    distribution_interval = 1
    MaxFees = 5
    MaxFeeTime = 2
    InitialSupply = 3
    TokenSums = {1, 2}
    LockupBlocks = {0, 1, 3}
    MaxSupplyBlock = 3
    RecordKeys = {1, 2}
    MaxRecords = 2
    ApiRequests = {u1, u2}
    ApiPaths <- MCApiPaths
    Mintable = 1
    MaxServers = 2
    PoolAmounts = {1, 2}
    InitialReserves <- MCInitialReserves
    fee_rate <- MCHalf
    tolerance <- MCHalf
    MaxTrades = 3
    MaxDbCalls = 3
    KeptBlocks = {1, 2}
    MaxAges = {0, 1}
    MaxPruneBlock = 3
    MaxPruneTime = 2
SYMMETRY Alike
INVARIANTS WithinLimits BooksBalance PoolKeepsWorth PowerAndVotes KeptAsRecorded PluginsInOrder OverlapsKeepOrder
PROPERTIES ExecutedBySigners
CHECK_DEADLOCK FALSE
