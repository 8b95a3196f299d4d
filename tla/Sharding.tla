------------------------------ MODULE Sharding ------------------------------
(***************************************************************************)
(* runtime/sharding.js: ShardingManager and its Shards.  A transaction goes*)
(* to the pool of its shard, or waits in the list of cross-shard           *)
(* transactions until it is processed at a block whose number is past its  *)
(* timestamp.  Blocks take transactions out of the pools, and validators   *)
(* are shuffled over the shards.                                           *)
(*                                                                         *)
(* The hash that picks a shard is the constant shardOf, for ids and for    *)
(* receivers.  Left out: blocks themselves, whose hashes are all alike,    *)
(* snapshots and statistics.                                               *)
(***************************************************************************)
EXTENDS Integers, FiniteSets

CONSTANTS
    total_shards,
    ShardTxs,           \* transactions
    shardOf,            \* shard of a transaction's id and of its receiver
    ShardValidators,
    MaxShardTime        \* bound on the clock

Shards == 0 .. total_shards - 1

ASSUME ShardingAssumption ==
    /\ total_shards \in Nat \ {0} /\ MaxShardTime \in Nat
    /\ shardOf \in [ShardTxs -> [id : Shards, receiver : Shards]]

VARIABLES
    transaction_pool,          \* per shard
    cross_shard_transactions,  \* transaction and timestamp of those that wait
    confirmed,                 \* per shard, the transactions of its blocks
    shard_validators,          \* per shard
    cross_shard_shuffle_count,
    shardTime,                 \* the clock
    routed                     \* transactions routed so far

shardingVars == <<transaction_pool, cross_shard_transactions, confirmed, shard_validators,
                  cross_shard_shuffle_count, shardTime, routed>>

ShardingInit ==
    /\ transaction_pool = [s \in Shards |-> {}]
    /\ cross_shard_transactions = {}
    /\ confirmed = [s \in Shards |-> {}]
    /\ shard_validators = [s \in Shards |-> {}]
    /\ cross_shard_shuffle_count = 0 /\ shardTime = 0 /\ routed = {}

ShardTimePasses ==
    /\ shardTime < MaxShardTime /\ shardTime' = shardTime + 1
    /\ UNCHANGED <<transaction_pool, cross_shard_transactions, confirmed, shard_validators,
                   cross_shard_shuffle_count, routed>>

\* A transaction may be routed again; the pools know the ids they hold.
route_transaction(tx) ==
    LET source == shardOf[tx].id  destination == shardOf[tx].receiver IN
    /\ IF source = destination
       THEN /\ transaction_pool' = [transaction_pool EXCEPT ![source] = @ \cup {tx}]
            /\ UNCHANGED cross_shard_transactions
       ELSE /\ cross_shard_transactions' =
                   cross_shard_transactions \cup {[tx |-> tx, timestamp |-> shardTime]}
            /\ UNCHANGED transaction_pool
    /\ routed' = routed \cup {tx}
    /\ UNCHANGED <<confirmed, shard_validators, cross_shard_shuffle_count, shardTime>>

Due(block_number) == {c \in cross_shard_transactions : block_number > c.timestamp}

\* Mutant: the list is emptied once it has been gone through.
StillWaiting_None(block_number) == {}

StillWaiting(block_number) == cross_shard_transactions \ Due(block_number)

\* The block number is compared with seconds.
process_cross_shard_transactions(block_number) ==
    /\ transaction_pool' = [s \in Shards |-> transaction_pool[s] \cup
           {c.tx : c \in {d \in Due(block_number) : shardOf[d.tx].receiver = s}}]
    /\ cross_shard_transactions' = StillWaiting(block_number)
    /\ UNCHANGED <<confirmed, shard_validators, cross_shard_shuffle_count, shardTime, routed>>

\* Shard.add_block does not check the block, whose transactions may be any.
add_block(s, txs) ==
    /\ confirmed' = [confirmed EXCEPT ![s] = @ \cup txs]
    /\ transaction_pool' = [transaction_pool EXCEPT ![s] = @ \ txs]
    /\ UNCHANGED <<cross_shard_transactions, shard_validators, cross_shard_shuffle_count,
                   shardTime, routed>>

\* Whoever sets up a shard gives it validators of its own.
AssignValidator(s, v) ==
    /\ v \notin UNION {shard_validators[x] : x \in Shards}
    /\ shard_validators' = [shard_validators EXCEPT ![s] = @ \cup {v}]
    /\ UNCHANGED <<transaction_pool, cross_shard_transactions, confirmed,
                   cross_shard_shuffle_count, shardTime, routed>>

\* Every total_shards + 1 calls.  Each shard gets the floor of the average,
\* in any order; the validators left over get no shard.
Shuffled(assignment) ==
    LET all == UNION {shard_validators[x] : x \in Shards} IN
    /\ \A s \in Shards : Cardinality(assignment[s]) = Cardinality(all) \div total_shards
    /\ \A s, x \in Shards : s # x => assignment[s] \cap assignment[x] = {}

shuffle_validators ==
    /\ IF cross_shard_shuffle_count >= total_shards
       THEN /\ cross_shard_shuffle_count' = 0
            /\ shard_validators' \in
                   {a \in [Shards -> SUBSET UNION {shard_validators[x] : x \in Shards}] : Shuffled(a)}
       ELSE /\ cross_shard_shuffle_count' = cross_shard_shuffle_count + 1
            /\ UNCHANGED shard_validators
    /\ UNCHANGED <<transaction_pool, cross_shard_transactions, confirmed, shardTime, routed>>

ShardingNext ==
    \/ ShardTimePasses \/ shuffle_validators
    \/ \E tx \in ShardTxs : route_transaction(tx)
    \/ \E n \in 0 .. MaxShardTime : process_cross_shard_transactions(n)
    \/ \E s \in Shards :
           \/ \E txs \in SUBSET ShardTxs : add_block(s, txs)
           \/ \E v \in ShardValidators : AssignValidator(s, v)

ShardingSpec == ShardingInit /\ [][ShardingNext]_shardingVars

-----------------------------------------------------------------------------

\* No transaction gets lost on its way, whatever the blocks hold: once routed it
\* waits, is in the pool of the receiver's shard or in a block of it, and in no
\* other pool.  No validator serves two shards (route_transaction,
\* process_cross_shard_transactions, add_block, shuffle_validators).
ShardsKeepTransactions ==
    /\ \A tx \in routed :
           \/ \E c \in cross_shard_transactions : c.tx = tx
           \/ tx \in transaction_pool[shardOf[tx].receiver] \cup confirmed[shardOf[tx].receiver]
    /\ \A s \in Shards : \A tx \in transaction_pool[s] : tx \in routed /\ shardOf[tx].receiver = s
    /\ \A s, x \in Shards : s # x => shard_validators[s] \cap shard_validators[x] = {}
=============================================================================
