------------------------------- MODULE Ledger -------------------------------
(***************************************************************************)
(* core/blockchain.js and core/block.js: the chain of blocks, the pending  *)
(* transactions and the difficulty that each node keeps.                   *)
(*                                                                         *)
(* Blocks travel between nodes as copies, late, more than once or never,   *)
(* and so do chains: each takeover has an array of its own.  The code      *)
(* keeps the array it is handed (blockchain.js:246); what becomes of two   *)
(* instances of one process that are given the same one is left out.       *)
(* A hash is taken to be collision free: the k-th sealed block has hash k, *)
(* a genesis block a negative one, and 0 is '0'.repeat(64).                *)
(***************************************************************************)
EXTENDS Integers, Sequences

CONSTANTS
    Nodes,             \* each with its Blockchain instance
    Txs,               \* transaction ids
    GenesisOf,         \* the hash of the genesis block of each node
    InitialDifficulty, \* options.difficulty
    RetargetInterval,  \* blocks between difficulty changes, 10 in the code
    BlockTime,         \* options.blockTime
    Moments,           \* the values Date.now() takes
    MaxBlocks,         \* bound on the blocks sealed
    MaxAlterations,    \* bound on the changes made to a sealed block
    MaxReplacements    \* bound on the chains replaced

ASSUME LedgerAssumption ==
    /\ GenesisOf \in [Nodes -> {h \in Int : h < 0}]
    /\ InitialDifficulty \in Nat \ {0} /\ RetargetInterval \in Nat \ {0}
    /\ BlockTime \in Nat /\ Moments \subseteq Nat \ {0}
    /\ MaxBlocks \in Nat /\ MaxAlterations \in Nat /\ MaxReplacements \in Nat

VARIABLES
    chain,        \* this.chain
    mempool,      \* this.mempool, as the set of its ids
    difficulty,   \* this.difficulty
    sealed,       \* how many blocks were hashed so far
    sent,         \* the blocks that were built, as their builders send them
    clock,        \* Date.now()
    altered,      \* how many alterations, and ...
    replaced      \* ... replacements happened

vars == <<chain, mempool, difficulty, sealed, sent, clock, altered, replaced>>

\* txRoot covers the transactions, and hash what txRoot was when it was taken.
Block(i, t, s, p, h) ==
    [index |-> i, timestamp |-> t, transactions |-> s, previousHash |-> p,
     txRoot |-> s, hashed |-> s, hash |-> h]

\* All nodes were handed one chain to start from.
SharedGenesis == [n \in Nodes |-> -1]

createGenesisBlock(n) == Block(0, 0, {}, 0, GenesisOf[n])

getLatestBlock(n) == chain[n][Len(chain[n])]

\* Mutant: neither the hash nor txRoot is recomputed.
SelfValid_Unchecked(b) == TRUE

\* Block.validate, without and with a previous block.
SelfValid(b) == b.hashed = b.txRoot /\ b.txRoot = b.transactions

\* Mutant: the previous hash is not compared.
isValid_Unlinked(b, previous) ==
    /\ SelfValid(b)
    /\ b.index = previous.index + 1 /\ b.timestamp > previous.timestamp

isValid(b, previous) ==
    /\ SelfValid(b)
    /\ b.index = previous.index + 1
    /\ b.previousHash = previous.hash
    /\ b.timestamp > previous.timestamp

isChainValid(c) ==
    SelfValid(c[1]) /\ \A i \in 2 .. Len(c) : isValid(c[i], c[i - 1])

\* Mutant: Math.max is missing.
Retarget_NoFloor(d, elapsed) ==
    LET expected == BlockTime * RetargetInterval
    IN  IF 2 * elapsed < expected THEN d + 1
        ELSE IF elapsed > 2 * expected THEN d - 1 ELSE d

\* Faster than half the time a block should take, slower than twice.
Retarget(d, elapsed) ==
    LET expected == BlockTime * RetargetInterval
    IN  IF 2 * elapsed < expected THEN d + 1
        ELSE IF elapsed > 2 * expected THEN IF d > 1 THEN d - 1 ELSE 1
        ELSE d

adjustDifficulty(d, c) ==
    LET latest == c[Len(c)]
    IN  IF latest.index % RetargetInterval = 0 /\ latest.index > 0
           THEN Retarget(d, latest.timestamp
                               - c[latest.index - RetargetInterval + 1].timestamp)
           ELSE d

Init ==
    /\ chain = [n \in Nodes |-> <<createGenesisBlock(n)>>]
    /\ mempool = [n \in Nodes |-> {}]
    /\ difficulty = [n \in Nodes |-> InitialDifficulty]
    /\ sealed = 0 /\ sent = {} /\ clock = 0 /\ altered = 0 /\ replaced = 0

-----------------------------------------------------------------------------

\* A transaction is refused only when it is pending already.
addTransaction(n, t) ==
    /\ t \notin mempool[n]
    /\ mempool' = [mempool EXCEPT ![n] = @ \cup {t}]
    /\ UNCHANGED <<chain, difficulty, sealed, sent, clock, altered, replaced>>

\* A caller builds a block on a node's latest one and hashes it.
SealBlock(n, s) ==
    /\ sealed < MaxBlocks /\ s \subseteq mempool[n]
    /\ sealed' = sealed + 1
    /\ sent' = sent \cup {Block(getLatestBlock(n).index + 1, clock, s,
                                getLatestBlock(n).hash, sealed + 1)}
    /\ UNCHANGED <<chain, mempool, difficulty, clock, altered, replaced>>

\* Block.addTransaction refreshes txRoot and Block.removeTransaction does not;
\* neither refreshes the hash.
AlterBlock(b, t) ==
    /\ altered < MaxAlterations
    /\ \/ /\ t \notin b.transactions
          /\ sent' = (sent \ {b}) \cup
                {[b EXCEPT !.transactions = @ \cup {t}, !.txRoot = b.transactions \cup {t}]}
       \/ /\ t \in b.transactions
          /\ sent' = (sent \ {b}) \cup {[b EXCEPT !.transactions = @ \ {t}]}
    /\ altered' = altered + 1
    /\ UNCHANGED <<chain, mempool, difficulty, sealed, clock, replaced>>

\* Mutant: the block is checked only before it is pushed.
addBlock_ChecksLate(n, b) ==
    /\ chain' = [chain EXCEPT ![n] =
                    IF isValid(b, getLatestBlock(n)) THEN Append(@, b) ELSE @]
    /\ mempool' = [mempool EXCEPT ![n] = @ \ b.transactions]
    /\ difficulty' = [difficulty EXCEPT ![n] = adjustDifficulty(@, chain'[n])]
    /\ UNCHANGED <<sealed, sent, clock, altered, replaced>>

\* addBlock returns false, and changes nothing, when the block does not fit.
addBlock(n, b) ==
    /\ isValid(b, getLatestBlock(n))
    /\ chain' = [chain EXCEPT ![n] = Append(@, b)]
    /\ mempool' = [mempool EXCEPT ![n] = @ \ b.transactions]
    /\ difficulty' = [difficulty EXCEPT ![n] = adjustDifficulty(@, chain'[n])]
    /\ UNCHANGED <<sealed, sent, clock, altered, replaced>>

\* Mutant: a chain of the same length is taken as well.
replaceChain_NoShorter(n, newChain) ==
    /\ replaced < MaxReplacements
    /\ Len(newChain) >= Len(chain[n]) /\ isChainValid(newChain)
    /\ chain' = [chain EXCEPT ![n] = newChain]
    /\ replaced' = replaced + 1
    /\ UNCHANGED <<mempool, difficulty, sealed, sent, clock, altered>>

\* A longer chain is taken if all of its blocks are valid.
replaceChain(n, newChain) ==
    /\ replaced < MaxReplacements
    /\ Len(newChain) > Len(chain[n]) /\ isChainValid(newChain)
    /\ chain' = [chain EXCEPT ![n] = newChain]
    /\ replaced' = replaced + 1
    /\ UNCHANGED <<mempool, difficulty, sealed, sent, clock, altered>>

Tick ==
    /\ \E t \in Moments : clock < t /\ clock' = t
    /\ UNCHANGED <<chain, mempool, difficulty, sealed, sent, altered, replaced>>

\* The chains that are handed around are the start of some node's chain, as it is or
\* with any block in circulation after it, one that was altered or does not fit too.
Next ==
    \/ \E n \in Nodes, t \in Txs : addTransaction(n, t)
    \/ \E n \in Nodes : \E s \in SUBSET mempool[n] : SealBlock(n, s)
    \/ \E b \in sent : \E t \in Txs : AlterBlock(b, t)
    \/ \E n \in Nodes : \E b \in sent : addBlock(n, b)
    \/ \E n, m \in Nodes : \E k \in 1 .. Len(chain[m]) :
          replaceChain(n, SubSeq(chain[m], 1, k))
    \/ \E n, m \in Nodes : \E k \in 1 .. Len(chain[m]) : \E b \in sent :
          replaceChain(n, Append(SubSeq(chain[m], 1, k), b))
    \/ Tick

Spec == Init /\ [][Next]_vars

-----------------------------------------------------------------------------
(* Properties *)

TheBlocks ==
    [index : Nat, timestamp : Nat, transactions : SUBSET Txs,
     previousHash : Int, txRoot : SUBSET Txs, hashed : SUBSET Txs, hash : Int]

\* Chains are non-empty sequences of blocks, and the difficulty a positive
\* number (constructor, adjustDifficulty).
TypeOK ==
    /\ chain \in [Nodes -> Seq(TheBlocks)]
    /\ \A n \in Nodes : chain[n] # <<>>
    /\ mempool \in [Nodes -> SUBSET Txs]
    /\ difficulty \in [Nodes -> Nat \ {0}]
    /\ sealed \in Nat /\ sent \subseteq TheBlocks /\ clock \in Nat
    /\ altered \in Nat /\ replaced \in Nat

\* The position of every block is its index, it names the block before it and
\* is younger, on every node, after any order of blocks received, refused,
\* altered or taken over with another's chain (addBlock, replaceChain).
ChainLinked ==
    \A n \in Nodes : \A i \in 1 .. Len(chain[n]) :
        /\ chain[n][i].index = i - 1
        /\ i > 1 => /\ chain[n][i].previousHash = chain[n][i - 1].hash
                    /\ chain[n][i].timestamp > chain[n][i - 1].timestamp

\* Two chains that share a block share everything before it: histories only
\* ever fork forward (previousHash in Block.validate).
SharedBlockSharedPast ==
    \A n, m \in Nodes :
        \A i \in 1 .. Len(chain[n]), j \in 1 .. Len(chain[m]) :
            chain[n][i].hash = chain[m][j].hash
                => i = j /\ SubSeq(chain[n], 1, i) = SubSeq(chain[m], 1, j)

\* A node never gives up height: its chain is extended or makes way for a
\* longer one (addBlock, replaceChain).
HeightNeverDrops ==
    [][\A n \in Nodes : chain'[n] # chain[n] => Len(chain'[n]) > Len(chain[n])]_vars

\* Until a chain is taken over, nodes with the same chain mine at the same
\* difficulty, whatever blocks each was sent besides, in whatever order
\* (adjustDifficulty).
SameChainSameDifficulty ==
    replaced = 0 =>
        \A n, m \in Nodes : chain[n] = chain[m] => difficulty[n] = difficulty[m]

Confirmed(n) == UNION {chain[n][i].transactions : i \in 1 .. Len(chain[n])}

\* A transaction a node accepted stays pending there until a block of its chain
\* carries it (addTransaction, addBlock).
AcceptedNotLost ==
    [][\A n \in Nodes : mempool[n] \subseteq mempool'[n] \cup Confirmed(n)']_vars
=============================================================================
