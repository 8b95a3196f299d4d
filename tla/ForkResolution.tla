--------------------------- MODULE ForkResolution ---------------------------
(***************************************************************************)
(* core/fork.js (ForkHandler): chains of peers are compared with the local *)
(* one, and taken over by the strategy.                                    *)
(*                                                                         *)
(* The handler is given its blockchain, and chains from peers, with the    *)
(* fields and methods it reads: hash, previous_hash, index, difficulty,    *)
(* timestamp, validate_block(), get_last_block().  (core/block.js spells   *)
(* them otherwise; with its blocks every chain is refused.)  A block is    *)
(* told by its hash, `blocks` holds those that exist.  A strategy reads    *)
(* either difficulty or timestamp of a block, its `weight`.                *)
(*                                                                         *)
(* Left out: the list of the forks seen, which only statistics read.       *)
(***************************************************************************)
EXTENDS Integers, Sequences, FiniteSets, SequencesExt

CONSTANTS
    ForkThresholds,  \* values of fork_threshold
    Weights,         \* difficulties, or timestamps, of blocks
    MaxForkBlocks    \* bound on the blocks, the first one included

ASSUME ForkResolutionAssumption ==
    /\ ForkThresholds \subseteq Nat \ {0} /\ Weights \subseteq Nat
    /\ MaxForkBlocks \in Nat

RESOLUTION_STRATEGIES == {"longest_chain", "cumulative_difficulty", "latest_timestamp"}

VARIABLES
    blocks,              \* the blocks there are, by hash
    local_chain,         \* blockchain.chain, as hashes
    fork_threshold,
    resolution_strategy

forkResolutionVars == <<blocks, local_chain, fork_threshold, resolution_strategy>>

FirstBlock == 1
FirstWeight == 1

ForkResolutionInit ==
    /\ blocks = <<[previous |-> 0, index |-> 0, weight |-> FirstWeight, valid |-> TRUE]>>
    /\ local_chain = <<FirstBlock>>
    /\ fork_threshold \in ForkThresholds
    /\ resolution_strategy \in RESOLUTION_STRATEGIES

\* The chain that ends in a block.
ChainTo(b) ==
    LET chain[c \in 1 .. b] ==
            IF c = FirstBlock THEN <<c>> ELSE Append(chain[blocks[c].previous], c)
    IN chain[b]

\* What a peer may send: a chain, or one that lacks a block.
PeerChains ==
    LET chains == {ChainTo(b) : b \in DOMAIN blocks}
    IN chains \cup UNION {{RemoveAt(c, i) : i \in DOMAIN c} : c \in chains}

CommonPrefix(c, d) ==
    {i \in DOMAIN c \cap DOMAIN d : \A j \in 1 .. i : c[j] = d[j]}

\* How many blocks the chains share, when the fork is long enough, or 0.  A peer
\* that is merely ahead is no fork.
detect_fork(peer) ==
    LET common == Cardinality(CommonPrefix(local_chain, peer))
    IN IF /\ Len(peer) >= 2 /\ Len(local_chain) >= 2
          /\ common < Len(peer) /\ common < Len(local_chain)
          /\ \/ Len(local_chain) - common >= fork_threshold
             \/ Len(peer) - common >= fork_threshold
       THEN common ELSE 0

\* Mutant: the last block of a chain is not looked at.
_is_chain_valid_ButLast(chain) ==
    \A i \in 2 .. Len(chain) - 1 :
        /\ blocks[chain[i]].index = blocks[chain[i - 1]].index + 1
        /\ blocks[chain[i]].previous = chain[i - 1]
        /\ blocks[chain[i]].valid

_is_chain_valid(chain) ==
    \A i \in 2 .. Len(chain) :
        /\ blocks[chain[i]].index = blocks[chain[i - 1]].index + 1
        /\ blocks[chain[i]].previous = chain[i - 1]
        /\ blocks[chain[i]].valid

Heaviness(chain) ==
    CASE resolution_strategy = "longest_chain" -> Len(chain)
      [] resolution_strategy = "cumulative_difficulty" ->
             FoldLeft(LAMBDA sum, b : sum + blocks[b].weight, 0, chain)
      [] OTHER -> blocks[Last(chain)].weight

resolve_fork(peer) ==
    /\ detect_fork(peer) > 0
    /\ Heaviness(peer) > Heaviness(local_chain)
    /\ _is_chain_valid(peer)
    /\ local_chain' = peer
    /\ UNCHANGED <<blocks, fork_threshold, resolution_strategy>>

\* Somebody makes a block, well or not.
MakeBlock(previous, w, ok) ==
    /\ Len(blocks) < MaxForkBlocks
    /\ blocks' = Append(blocks, [previous |-> previous, index |-> blocks[previous].index + 1,
                                 weight |-> w, valid |-> ok])
    /\ UNCHANGED <<local_chain, fork_threshold, resolution_strategy>>

\* The blockchain itself takes a valid block that follows its last one.
Extend(b) ==
    /\ blocks[b].previous = Last(local_chain) /\ blocks[b].valid
    /\ local_chain' = Append(local_chain, b)
    /\ UNCHANGED <<blocks, fork_threshold, resolution_strategy>>

set_resolution_strategy(strategy) ==
    /\ resolution_strategy' = strategy
    /\ UNCHANGED <<blocks, local_chain, fork_threshold>>

set_fork_threshold(threshold) ==
    /\ fork_threshold' = threshold
    /\ UNCHANGED <<blocks, local_chain, resolution_strategy>>

ForkResolutionNext ==
    \/ \E b \in DOMAIN blocks, w \in Weights, ok \in BOOLEAN : MakeBlock(b, w, ok)
    \/ \E b \in DOMAIN blocks : Extend(b)
    \/ \E peer \in PeerChains : resolve_fork(peer)
    \/ \E s \in RESOLUTION_STRATEGIES : set_resolution_strategy(s)
    \/ \E t \in ForkThresholds : set_fork_threshold(t)

ForkResolutionSpec == ForkResolutionInit /\ [][ForkResolutionNext]_forkResolutionVars

-----------------------------------------------------------------------------
(* Properties *)

\* Whatever the peers send and however strategy and threshold change, the local
\* chain is the whole chain of its last block, all of it valid (resolve_fork,
\* which never compares a first block with anything but the local one).
LocalChainWhole ==
    /\ local_chain = ChainTo(Last(local_chain))
    /\ \A i \in DOMAIN local_chain : blocks[local_chain[i]].valid
=============================================================================
