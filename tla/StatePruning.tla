---------------------------- MODULE StatePruning ----------------------------
(***************************************************************************)
(* runtime/state_pruning.js: which block states are kept.                  *)
(* They are pruned by block number, by age or by a range of timestamps.    *)
(*                                                                         *)
(* States are recorded block by block, and may be recorded again when they *)
(* were pruned.  `cut` and `again` are kept for the property.              *)
(* Left out: transactions, pruned by age alone, block metadata and deltas, *)
(* which nothing records, and the pruning interval, which nothing applies. *)
(***************************************************************************)
EXTENDS Integers, FiniteSets

CONSTANTS
    KeptBlocks,    \* values of max_blocks_to_keep
    MaxAges,       \* ages at which states are too old
    MaxPruneBlock, MaxPruneTime   \* bounds on the block number and the clock

ASSUME PruningAssumption ==
    KeptBlocks \cup MaxAges \cup {MaxPruneBlock, MaxPruneTime} \subseteq Nat

VARIABLES
    pruningEnabled, max_blocks_to_keep,
    state_history,        \* timestamp of each state kept, or Gone
    recorded,             \* number of blocks recorded
    pruneTime,            \* the clock
    cut,                  \* a range of timestamps was pruned
    again                 \* blocks recorded again after they were pruned

pruningVars == <<pruningEnabled, max_blocks_to_keep, state_history, recorded,
                 pruneTime, cut, again>>

Gone == -1
PrunableBlocks == 0 .. MaxPruneBlock
KeptStates == {b \in PrunableBlocks : state_history[b] # Gone}

PruningInit ==
    /\ pruningEnabled = TRUE /\ max_blocks_to_keep \in KeptBlocks
    /\ state_history = [b \in PrunableBlocks |-> Gone]
    /\ recorded = 0 /\ pruneTime = 0 /\ cut = FALSE /\ again = {}

PruneTimePasses ==
    /\ pruneTime < MaxPruneTime /\ pruneTime' = pruneTime + 1
    /\ UNCHANGED <<pruningEnabled, max_blocks_to_keep, state_history, recorded, cut, again>>

\* The first state of a block stays, should it be recorded again before it is pruned.
record_block_state(b) ==
    /\ b <= recorded
    /\ recorded' = IF b = recorded THEN recorded + 1 ELSE recorded
    /\ state_history' = [state_history EXCEPT ![b] = IF @ = Gone THEN pruneTime ELSE @]
    /\ again' = IF b < recorded /\ state_history[b] = Gone THEN again \cup {b} ELSE again
    /\ UNCHANGED <<pruningEnabled, max_blocks_to_keep, pruneTime, cut>>

Prune(blocks) == state_history' = [b \in PrunableBlocks |-> IF b \in blocks THEN Gone ELSE state_history[b]]

\* Mutant: the genesis block is spared.
PruneRange_FromOne(n) == 1 .. n - max_blocks_to_keep

PruneRange(n) == 0 .. n - max_blocks_to_keep

calculate_prune_range(n) ==
    /\ pruningEnabled /\ n > max_blocks_to_keep
    /\ Prune(PruneRange(n))
    /\ UNCHANGED <<pruningEnabled, max_blocks_to_keep, recorded, pruneTime, cut, again>>

prune_old_states(age) ==
    /\ Prune({b \in KeptStates : pruneTime - state_history[b] > age})
    /\ UNCHANGED <<pruningEnabled, max_blocks_to_keep, recorded, pruneTime, cut, again>>

prune_states_by_range(start, end) ==
    /\ Prune({b \in KeptStates : state_history[b] \in start .. end})
    /\ cut' = TRUE
    /\ UNCHANGED <<pruningEnabled, max_blocks_to_keep, recorded, pruneTime, again>>

\* Only set_enabled disables it: the constructor's option cannot.
set_enabled(e) ==
    /\ pruningEnabled' = e
    /\ UNCHANGED <<max_blocks_to_keep, state_history, recorded, pruneTime, cut, again>>

set_max_blocks_to_keep(n) ==
    /\ max_blocks_to_keep' = n
    /\ UNCHANGED <<pruningEnabled, state_history, recorded, pruneTime, cut, again>>

StatePruning_clear ==
    /\ Prune(PrunableBlocks)
    /\ UNCHANGED <<pruningEnabled, max_blocks_to_keep, recorded, pruneTime, cut, again>>

PruningNext ==
    \/ PruneTimePasses \/ StatePruning_clear
    \/ \E b \in PrunableBlocks : record_block_state(b)
    \/ \E n \in 0 .. recorded - 1 : calculate_prune_range(n)
    \/ \E age \in MaxAges : prune_old_states(age)
    \/ \E start, end \in 0 .. pruneTime : prune_states_by_range(start, end)
    \/ \E e \in BOOLEAN : set_enabled(e)
    \/ \E n \in KeptBlocks : set_max_blocks_to_keep(n)

PruningSpec == PruningInit /\ [][PruningNext]_pruningVars

-----------------------------------------------------------------------------

\* Pruning by number and by age, mixed and with changing limits, takes the
\* oldest states and leaves no gap: with the state of a block that was recorded in
\* its turn those of all later blocks are kept, recorded again or not, and
\* timestamps follow the blocks, unless a range of timestamps was cut out
\* (calculate_prune_range, prune_old_states, record_block_state).
PruningLeavesNoGap ==
    ~cut => \A b \in KeptStates \ again : \A c \in b .. recorded - 1 :
                c \in KeptStates /\ state_history[b] <= state_history[c]
=============================================================================
