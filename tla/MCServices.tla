---------------------------- MODULE MCServices -----------------------------
(***************************************************************************)
(* Governance, finance, wallets, runtime, storage, sharding, tokens,       *)
(* contracts and the API server side by side: none of these classes calls  *)
(* another, and a behaviour is one of `part`, the others staying as they   *)
(* start.                                                                  *)
(***************************************************************************)
EXTENDS AccountState, Api, BlockCache, Contracts, Events, Execution, FeeDistribution, Gas,
        Governance, Lending, Liquidity, Multisig, Plugins, RateLimiter, Sharding, Staking,
        StatePruning, Storage, Tokenomics

VARIABLE part

allVars == <<part, accountVars, apiVars, databaseVars, liquidityVars, cacheVars, contractsVars, machineVars, daoVars, eventVars, executionVars,
             feeVars, gasVars, lendingVars, multisigVars, pluginVars, rateLimiterVars,
             shardingVars, stakingVars, pruningVars, storageVars, supplyVars, tokenVars,
             systemVars, managerVars>>

\* In a circle, and in line down to a system plugin.
MCDependencyChoices ==
    {("a" :> <<"b">> @@ "b" :> deps @@ "core" :> <<>>) : deps \in {<<"a">>, <<"core">>}}

MCShardOf == "t" :> [id |-> 0, receiver |-> 0] @@ "u" :> [id |-> 0, receiver |-> 1]

\* A block event that has all its fields, a block and a transaction event that lack
\* some, and one that is accepted until its type is registered.
MCDispatches ==
    {dispatchBlockEvent("block.added"), dispatchBlockEvent("block.finalized"),
     dispatchTransactionEvent("transaction.created", {"gasLimit"}), [type |-> "*", data |-> {}]}
MCRegistrations == {[type |-> "*", schema |-> {"blockNumber"}]}

MCSettings ==
    {"validators" :> 100, "validators" :> 100 @@ "treasury" :> 1,
     "validators" :> 39 @@ "treasury" :> 0 @@ "development" :> 30 @@ "community" :> 30}

Request(method, path) == [method |-> method, path |-> path]

\* One for each kind of answer: with a parameter nothing is found, with its slash
\* alone the handler is, and has no parameter.
MCApiPaths ==
    {Request("GET", <<"api", "blocks">>), Request("GET", <<"api", "blocks", "1">>),
     Request("GET", <<"api", "blocks", "">>), Request("GET", <<"api", "wallets", "">>),
     Request("GET", <<"api", "health", "x">>), Request("POST", <<"api", "wallets">>),
     Request("POST", <<"api", "blocks">>), Request("POST", <<"api", "tokenomics", "mint">>),
     Request("POST", <<"api", "consensus", "mine">>)}

\* A limit that was given, one no receipt takes, an invalid transaction and one
\* with the default limit.
MCBlocksOfTxs ==
    {<<Transaction(1, 0, 2), Transaction(1, 1, -1)>>, <<Transaction(0, 1, 0), Transaction(1, 1, 0)>>}

MCInitialReserves == {<<1, 4>>, <<2, 2>>}
MCHalf == <<1, 2>>

\* Borrowers, callers, stakers and others are taken from the same two.
Alike == Permutations(Borrowers)

Parts == {"accounts", "api", "database", "liquidity", "cache", "contracts", "machine", "dao", "events", "execution", "fees", "gas",
          "lending", "multisig", "plugins", "limiter", "sharding", "staking", "pruning",
          "storage", "supply", "tokens", "voting", "manager"}

\* Everything but p stays as it is.
OnlyMoves(p) ==
    /\ UNCHANGED part
    /\ IF p = "accounts" THEN TRUE ELSE UNCHANGED accountVars
    /\ IF p = "api" THEN TRUE ELSE UNCHANGED apiVars
    /\ IF p = "database" THEN TRUE ELSE UNCHANGED databaseVars
    /\ IF p = "liquidity" THEN TRUE ELSE UNCHANGED liquidityVars
    /\ IF p = "cache" THEN TRUE ELSE UNCHANGED cacheVars
    /\ IF p = "contracts" THEN TRUE ELSE UNCHANGED contractsVars
    /\ IF p = "machine" THEN TRUE ELSE UNCHANGED machineVars
    /\ IF p = "dao" THEN TRUE ELSE UNCHANGED daoVars
    /\ IF p = "events" THEN TRUE ELSE UNCHANGED eventVars
    /\ IF p = "execution" THEN TRUE ELSE UNCHANGED executionVars
    /\ IF p = "fees" THEN TRUE ELSE UNCHANGED feeVars
    /\ IF p = "gas" THEN TRUE ELSE UNCHANGED gasVars
    /\ IF p = "lending" THEN TRUE ELSE UNCHANGED lendingVars
    /\ IF p = "multisig" THEN TRUE ELSE UNCHANGED multisigVars
    /\ IF p = "plugins" THEN TRUE ELSE UNCHANGED pluginVars
    /\ IF p = "limiter" THEN TRUE ELSE UNCHANGED rateLimiterVars
    /\ IF p = "sharding" THEN TRUE ELSE UNCHANGED shardingVars
    /\ IF p = "staking" THEN TRUE ELSE UNCHANGED stakingVars
    /\ IF p = "pruning" THEN TRUE ELSE UNCHANGED pruningVars
    /\ IF p = "storage" THEN TRUE ELSE UNCHANGED storageVars
    /\ IF p = "supply" THEN TRUE ELSE UNCHANGED supplyVars
    /\ IF p = "tokens" THEN TRUE ELSE UNCHANGED tokenVars
    /\ IF p = "voting" THEN TRUE ELSE UNCHANGED systemVars
    /\ IF p = "manager" THEN TRUE ELSE UNCHANGED managerVars

\* A choice at the start matters in its own part only.
ServicesInit ==
    /\ part \in Parts
    /\ ApiInit /\ DatabaseInit /\ LiquidityInit
    /\ AccountStateInit /\ CacheInit /\ ContractsInit /\ MachineInit /\ DaoInit /\ EventsInit /\ ExecutionInit
    /\ FeeInit /\ GasInit /\ LendingInit /\ MultisigInit /\ PluginsInit /\ RateLimiterInit
    /\ ShardingInit /\ StakingInit /\ PruningInit /\ StorageInit /\ SupplyInit /\ TokensInit
    /\ VotingInit /\ ManagerInit
    /\ part # "cache" => max_size = 1 /\ ttl = 1
    /\ part # "multisig" => required = 1
    /\ part # "plugins" => dependencies["b"] = <<"core">>
    /\ part # "pruning" => max_blocks_to_keep = 1
    /\ part # "storage" => model = BlockStorage

ServicesNext ==
    \/ part = "accounts" /\ OnlyMoves("accounts") /\ AccountStateNext
    \/ part = "api" /\ OnlyMoves("api") /\ ApiNext
    \/ part = "database" /\ OnlyMoves("database") /\ DatabaseNext
    \/ part = "liquidity" /\ OnlyMoves("liquidity") /\ LiquidityNext
    \/ part = "cache" /\ OnlyMoves("cache") /\ CacheNext
    \/ part = "contracts" /\ OnlyMoves("contracts") /\ ContractsNext
    \/ part = "machine" /\ OnlyMoves("machine") /\ MachineNext
    \/ part = "dao" /\ OnlyMoves("dao") /\ DaoNext
    \/ part = "events" /\ OnlyMoves("events") /\ EventsNext
    \/ part = "execution" /\ OnlyMoves("execution") /\ ExecutionNext
    \/ part = "fees" /\ OnlyMoves("fees") /\ FeeNext
    \/ part = "gas" /\ OnlyMoves("gas") /\ GasNext
    \/ part = "lending" /\ OnlyMoves("lending") /\ LendingNext
    \/ part = "multisig" /\ OnlyMoves("multisig") /\ MultisigNext
    \/ part = "plugins" /\ OnlyMoves("plugins") /\ PluginsNext
    \/ part = "limiter" /\ OnlyMoves("limiter") /\ RateLimiterNext
    \/ part = "sharding" /\ OnlyMoves("sharding") /\ ShardingNext
    \/ part = "staking" /\ OnlyMoves("staking") /\ StakingNext
    \/ part = "pruning" /\ OnlyMoves("pruning") /\ PruningNext
    \/ part = "storage" /\ OnlyMoves("storage") /\ StorageNext
    \/ part = "supply" /\ OnlyMoves("supply") /\ SupplyNext
    \/ part = "tokens" /\ OnlyMoves("tokens") /\ TokensNext
    \/ part = "voting" /\ OnlyMoves("voting") /\ VotingNext
    \/ part = "manager" /\ OnlyMoves("manager") /\ ManagerNext

ServicesSpec == ServicesInit /\ [][ServicesNext]_allVars

-----------------------------------------------------------------------------
(* Properties *)

\* What is limited stays limited: what a user spends against the rate limiter, what
\* a block and a transaction use of gas, the age and number of cached blocks
\* (rate_limiter.js, gas.js, caching.js).
WithinLimits == SpendingIsLimited /\ GasAccounted /\ CacheIsFresh

\* Every total kept beside the entries it sums is their sum, nothing is made or lost on
\* the way, and no debt is made that its collateral does not cover: lending markets,
\* stakes, tokens, supply, fees and the gas of a block's receipts (lending.js,
\* staking.js, standards.js, supply.js, fee_distribution.js and execution_pipeline.js).
\* The pool's books, in fractions, are PoolKeepsWorth (liquidity.js).
BooksBalance ==
    /\ LendingBooks /\ DebtIsCovered /\ StakingBooks /\ TokensConserved
    /\ SupplyCovered /\ FeesAccounted /\ ReceiptsAddUp

\* Voting power follows the tokens, and votes are counted once, in the organization,
\* the proposal manager and the voting system (dao.js, proposal.js, voting.js).
PowerAndVotes == PowerAddsUp /\ VotesStand

\* What was recorded can be found again, as it was: balances follow their
\* transactions through snapshots and reverts, stored records their data, pruned
\* states leave no gap, and shards lose no transaction (state.js, models.js and
\* database.js, state_pruning.js, sharding.js).
KeptAsRecorded ==
    BalancesFollowTransactions /\ StoredIsFound /\ PruningLeavesNoGap /\ ShardsKeepTransactions

\* Calls that overlap keep their order and do not mix: deliveries of events, deployments
\* of contracts, executions of the machine, hooks of the execution pipeline, requests to
\* the API server, connections to the database (events.js, compiler.js, vm.js,
\* execution_pipeline.js, server.js and database.js).  The loads of plugins are a
\* property of their own, PluginsInOrder.
OverlapsKeepOrder ==
    /\ EventsDelivered /\ DeploymentsKeepApart /\ ExecutionsPayAlone
    /\ HooksReachPlugins /\ AnswersAreTrue /\ LastConnectStands
=============================================================================
