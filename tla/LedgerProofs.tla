---------------------------- MODULE LedgerProofs ----------------------------
(***************************************************************************)
(* What Ledger guarantees for every set of nodes, genesis assignment and   *)
(* bound: types, linked chains, forks that only go forward, heights that   *)
(* never drop, accepted transactions that are not lost and one difficulty  *)
(* per chain; and what is left of that beside a BlockProduction whose runs *)
(* overlap.                                                                *)
(***************************************************************************)
EXTENDS BlockProduction, Induction, TLAPS

-----------------------------------------------------------------------------
(* Blocks and difficulty *)

LEMMA BlockType ==
    ASSUME NEW i \in Nat, NEW t \in Nat, NEW s \in SUBSET Txs, NEW p \in Int,
           NEW h \in Int
    PROVE  Block(i, t, s, p, h) \in TheBlocks
BY DEF Block, TheBlocks

LEMMA GenesisType ==
    ASSUME NEW n \in Nodes
    PROVE  createGenesisBlock(n) \in TheBlocks
<1>1. GenesisOf[n] \in Int BY LedgerAssumption
<1> QED BY <1>1, BlockType DEF createGenesisBlock

\* The hash of a genesis block tells the block.
LEMMA GenesisTells ==
    ASSUME NEW n \in Nodes, NEW m \in Nodes,
           createGenesisBlock(n).hash = createGenesisBlock(m).hash
    PROVE  createGenesisBlock(n) = createGenesisBlock(m)
<1>1. createGenesisBlock(n).hash = GenesisOf[n]
      /\ createGenesisBlock(m).hash = GenesisOf[m]
  BY DEF createGenesisBlock, Block
<1>2. GenesisOf[n] = GenesisOf[m] BY <1>1
<1> QED BY <1>2 DEF createGenesisBlock

\* However the times fall, the difficulty stays positive (Math.max).
LEMMA DifficultyType ==
    ASSUME NEW d \in Nat \ {0}, NEW c
    PROVE  adjustDifficulty(d, c) \in Nat \ {0}
BY DEF adjustDifficulty, Retarget

\* The latest block of a node is one of its blocks.
LEMMA LatestType ==
    ASSUME TypeOK, NEW n \in Nodes
    PROVE  /\ Len(chain[n]) \in Nat /\ Len(chain[n]) >= 1
           /\ chain[n] \in Seq(TheBlocks)
           /\ getLatestBlock(n) = chain[n][Len(chain[n])]
           /\ getLatestBlock(n) \in TheBlocks
<1>1. chain[n] \in Seq(TheBlocks) /\ chain[n] # <<>>
  BY DEF TypeOK
<1>2. Len(chain[n]) \in Nat /\ Len(chain[n]) >= 1
  BY <1>1
<1> QED BY <1>1, <1>2 DEF getLatestBlock

\* Appending keeps what was there and puts the new block last.
LEMMA Appended ==
    ASSUME NEW c \in Seq(TheBlocks), NEW b \in TheBlocks
    PROVE  /\ Append(c, b) \in Seq(TheBlocks) /\ Append(c, b) # <<>>
           /\ Len(Append(c, b)) = Len(c) + 1
           /\ \A i \in 1 .. Len(c) : Append(c, b)[i] = c[i]
           /\ Append(c, b)[Len(c) + 1] = b
OBVIOUS

\* The start of a chain, as replaceChain is handed one.
LEMMA Prefix ==
    ASSUME NEW c \in Seq(TheBlocks), NEW k \in 1 .. Len(c)
    PROVE  /\ SubSeq(c, 1, k) \in Seq(TheBlocks) /\ SubSeq(c, 1, k) # <<>>
           /\ Len(SubSeq(c, 1, k)) = k
           /\ \A i \in 1 .. k : SubSeq(c, 1, k)[i] = c[i]
<1>1. Len(SubSeq(c, 1, k)) = k OBVIOUS
<1>2. \A i \in 1 .. k : SubSeq(c, 1, k)[i] = c[i] OBVIOUS
<1>3. SubSeq(c, 1, k) \in Seq(TheBlocks) OBVIOUS
<1> QED BY <1>1, <1>2, <1>3

\* The same with a block after it.
LEMMA PutAfter ==
    ASSUME NEW c \in Seq(TheBlocks), NEW k \in 1 .. Len(c), NEW b \in TheBlocks
    PROVE  /\ Append(SubSeq(c, 1, k), b) \in Seq(TheBlocks)
           /\ Append(SubSeq(c, 1, k), b) # <<>>
           /\ k \in Nat /\ k >= 1 /\ Len(Append(SubSeq(c, 1, k), b)) = k + 1
           /\ \A i \in 1 .. k : i \in 1 .. Len(c) /\ Append(SubSeq(c, 1, k), b)[i] = c[i]
           /\ Append(SubSeq(c, 1, k), b)[k + 1] = b
<1> DEFINE d == SubSeq(c, 1, k)
<1>1. d \in Seq(TheBlocks) /\ Len(d) = k /\ \A i \in 1 .. k : d[i] = c[i] BY Prefix
<1>2. k \in Nat /\ k >= 1 /\ k <= Len(c) /\ Len(c) \in Nat OBVIOUS
<1> HIDE DEF d
<1>3. /\ Append(d, b) \in Seq(TheBlocks) /\ Append(d, b) # <<>>
      /\ Len(Append(d, b)) = k + 1 /\ Append(d, b)[k + 1] = b
      /\ \A i \in 1 .. k : Append(d, b)[i] = d[i]
  BY <1>1, Appended
<1>4. \A i \in 1 .. k : i \in 1 .. Len(c) BY <1>2
<1> QED BY <1>1, <1>2, <1>3, <1>4 DEF d

LEMMA WholeChain ==
    ASSUME NEW c \in Seq(TheBlocks) PROVE SubSeq(c, 1, Len(c)) = c
<1>1. SubSeq(c, 1, Len(c)) = [k \in 1 .. Len(c) |-> c[k]] OBVIOUS
<1>2. c = [k \in 1 .. Len(c) |-> c[k]] OBVIOUS
<1> QED BY <1>1, <1>2

\* A block appended to the chain of a node is put after the whole of it.
LEMMA AppendGrows ==
    ASSUME TypeOK, NEW n \in Nodes, NEW b
    PROVE  /\ Len(chain[n]) \in 1 .. Len(chain[n])
           /\ getLatestBlock(n) = chain[n][Len(chain[n])]
           /\ Append(chain[n], b) = Append(SubSeq(chain[n], 1, Len(chain[n])), b)
<1>1. /\ chain[n] \in Seq(TheBlocks) /\ Len(chain[n]) \in Nat /\ Len(chain[n]) >= 1
      /\ getLatestBlock(n) = chain[n][Len(chain[n])]
  BY LatestType
<1>2. SubSeq(chain[n], 1, Len(chain[n])) = chain[n] BY <1>1, WholeChain
<1> QED BY <1>1, <1>2

\* A chain whose last block was put after the start of another is valid only if
\* that block is, of its own and after the one before.
LEMMA GrownValid ==
    ASSUME TypeOK, NEW m \in Nodes, NEW k \in 1 .. Len(chain[m]), NEW b \in TheBlocks,
           isChainValid(Append(SubSeq(chain[m], 1, k), b))
    PROVE  isValid(b, chain[m][k])
<1> DEFINE d == Append(SubSeq(chain[m], 1, k), b)
<1>1. chain[m] \in Seq(TheBlocks) BY DEF TypeOK
<1>2. /\ k \in Nat /\ k >= 1 /\ Len(d) = k + 1 /\ d[k + 1] = b
      /\ \A i \in 1 .. k : d[i] = chain[m][i]
  BY <1>1, PutAfter
<1>3. \A i \in 2 .. Len(d) : isValid(d[i], d[i - 1]) BY DEF isChainValid
<1> HIDE DEF d
<1>4. k + 1 \in 2 .. Len(d) /\ (k + 1) - 1 = k /\ k \in 1 .. k BY <1>2
<1>5. isValid(d[k + 1], d[k]) BY <1>3, <1>4
<1> QED BY <1>2, <1>4, <1>5

-----------------------------------------------------------------------------
(* Types *)

LEMMA TypeInit ==
    ASSUME Init PROVE TypeOK
<1>1. ASSUME NEW b \in TheBlocks
      PROVE  <<b>> \in Seq(TheBlocks) /\ <<b>> # <<>>
  OBVIOUS
<1>2. chain \in [Nodes -> Seq(TheBlocks)] /\ \A n \in Nodes : chain[n] # <<>>
  BY <1>1, GenesisType DEF Init
<1>3. difficulty \in [Nodes -> Nat \ {0}]
  BY LedgerAssumption DEF Init
<1> QED BY <1>2, <1>3 DEF Init, TypeOK

\* A block that is added, wherever it comes from, keeps the types.
LEMMA TypeAppend ==
    ASSUME TypeOK, NEW n \in Nodes, NEW b \in TheBlocks, addBlock(n, b)
    PROVE  TypeOK'
<1> USE DEF TypeOK
<1>1. chain[n] \in Seq(TheBlocks) OBVIOUS
<1>2. chain' = [chain EXCEPT ![n] = Append(chain[n], b)] BY DEF addBlock
<1>3. Append(chain[n], b) \in Seq(TheBlocks) /\ Append(chain[n], b) # <<>>
  BY <1>1, Appended
<1>4. chain' \in [Nodes -> Seq(TheBlocks)] /\ \A m \in Nodes : chain'[m] # <<>>
  BY <1>2, <1>3
<1>5. adjustDifficulty(difficulty[n], chain'[n]) \in Nat \ {0}
  BY DifficultyType
<1>6. difficulty' \in [Nodes -> Nat \ {0}]
  BY <1>5 DEF addBlock
<1> QED BY <1>4, <1>6 DEF addBlock

LEMMA TypeStep ==
    ASSUME TypeOK, [Next]_vars PROVE TypeOK'
<1>0. \A n \in Nodes : getLatestBlock(n) \in TheBlocks
  BY LatestType
<1>g. ASSUME NEW m \in Nodes, NEW k \in 1 .. Len(chain[m]), NEW b \in sent
      PROVE  /\ Append(SubSeq(chain[m], 1, k), b) \in Seq(TheBlocks)
             /\ Append(SubSeq(chain[m], 1, k), b) # <<>>
  <2>1. chain[m] \in Seq(TheBlocks) /\ b \in TheBlocks BY DEF TypeOK
  <2>2. Append(SubSeq(chain[m], 1, k), b) \in Seq(TheBlocks) BY <2>1, PutAfter
  <2>3. Append(SubSeq(chain[m], 1, k), b) # <<>> BY <2>1, PutAfter
  <2> QED BY <2>2, <2>3
<1> USE DEF TypeOK
<1>1. ASSUME NEW n \in Nodes, NEW t \in Txs, addTransaction(n, t)
      PROVE  TypeOK'
  BY <1>1 DEF addTransaction
<1>2. ASSUME NEW n \in Nodes, NEW s \in SUBSET mempool[n], SealBlock(n, s)
      PROVE  TypeOK'
  <2> DEFINE b == Block(getLatestBlock(n).index + 1, clock, s,
                        getLatestBlock(n).hash, sealed + 1)
  <2>1. getLatestBlock(n).index + 1 \in Nat /\ getLatestBlock(n).hash \in Int
    BY <1>0 DEF TheBlocks
  <2>2. s \in SUBSET Txs OBVIOUS
  <2>3. b \in TheBlocks BY <2>1, <2>2, BlockType
  <2>4. sent' = sent \cup {b} /\ sealed' = sealed + 1
        /\ UNCHANGED <<chain, mempool, difficulty, clock, altered, replaced>>
    BY <1>2 DEF SealBlock
  <2> HIDE DEF b
  <2> QED BY <2>3, <2>4
<1>3. ASSUME NEW b \in sent, NEW t \in Txs, AlterBlock(b, t)
      PROVE  TypeOK'
  <2>1. b \in TheBlocks OBVIOUS
  <2>2. [b EXCEPT !.transactions = @ \cup {t}, !.txRoot = b.transactions \cup {t}]
            \in TheBlocks
    BY <2>1 DEF TheBlocks
  <2>3. [b EXCEPT !.transactions = @ \ {t}] \in TheBlocks
    BY <2>1 DEF TheBlocks
  <2>4. sent' \subseteq TheBlocks
    BY <1>3, <2>2, <2>3, Zenon DEF AlterBlock
  <2> QED BY <1>3, <2>4 DEF AlterBlock
<1>4. ASSUME NEW n \in Nodes, NEW b \in sent, addBlock(n, b)
      PROVE  TypeOK'
  <2>1. b \in TheBlocks OBVIOUS
  <2> QED BY <1>4, <2>1, TypeAppend
<1>5. ASSUME NEW n \in Nodes, NEW m \in Nodes, NEW k \in 1 .. Len(chain[m]),
             replaceChain(n, SubSeq(chain[m], 1, k))
      PROVE  TypeOK'
  <2>1. SubSeq(chain[m], 1, k) \in Seq(TheBlocks) /\ SubSeq(chain[m], 1, k) # <<>>
    BY Prefix
  <2>2. chain' = [chain EXCEPT ![n] = SubSeq(chain[m], 1, k)]
    BY <1>5 DEF replaceChain
  <2>3. chain' \in [Nodes -> Seq(TheBlocks)] /\ \A q \in Nodes : chain'[q] # <<>>
    BY <2>1, <2>2
  <2>4. replaced' = replaced + 1
        /\ UNCHANGED <<mempool, difficulty, sealed, sent, clock, altered>>
    BY <1>5 DEF replaceChain
  <2>5. replaced' \in Nat BY <2>4
  <2> QED BY <2>3, <2>4, <2>5
<1>6. ASSUME NEW n \in Nodes, NEW m \in Nodes, NEW k \in 1 .. Len(chain[m]), NEW b \in sent,
             replaceChain(n, Append(SubSeq(chain[m], 1, k), b))
      PROVE  TypeOK'
  <2> DEFINE d == Append(SubSeq(chain[m], 1, k), b)
  <2>1. d \in Seq(TheBlocks) /\ d # <<>> BY <1>g
  <2>2. /\ chain' = [chain EXCEPT ![n] = d] /\ replaced' = replaced + 1
        /\ UNCHANGED <<mempool, difficulty, sealed, sent, clock, altered>>
    BY <1>6 DEF replaceChain
  <2> HIDE DEF d
  <2>3. chain' \in [Nodes -> Seq(TheBlocks)] /\ \A q \in Nodes : chain'[q] # <<>>
    BY <2>1, <2>2
  <2>4. replaced' \in Nat BY <2>2
  <2> QED BY <2>2, <2>3, <2>4
<1>7. CASE Tick
  BY <1>7, LedgerAssumption DEF Tick
<1>8. CASE UNCHANGED vars
  BY <1>8 DEF vars
<1> QED BY <1>1, <1>2, <1>3, <1>4, <1>5, <1>6, <1>7, <1>8, Zenon DEF Next

\* Every variable keeps its type, and the difficulty never reaches zero,
\* whatever moments blocks carry (adjustDifficulty).
THEOREM TypeCorrect == Spec => []TypeOK
<1>1. Init => TypeOK BY TypeInit
<1>2. TypeOK /\ [Next]_vars => TypeOK' BY TypeStep
<1> QED BY <1>1, <1>2, PTL DEF Spec

-----------------------------------------------------------------------------
(* Linked chains *)

\* A chain a node comes to hold: the start of one that some node held, and a block in
\* circulation that fits after it.
GrownFrom(n, m, k, b) ==
    /\ k >= Len(chain[n]) /\ isValid(b, chain[m][k])
    /\ chain' = [chain EXCEPT ![n] = Append(SubSeq(chain[m], 1, k), b)]

\* A step leaves the chains alone, puts a block that fits after a chain or the start
\* of one, or puts the start of a longer chain in the place of another.
LEMMA ChainStep ==
    ASSUME TypeOK, [Next]_vars
    PROVE  \/ chain' = chain
           \/ \E n, m \in Nodes : \E k \in 1 .. Len(chain[m]) : \E b \in sent :
                 GrownFrom(n, m, k, b)
           \/ \E n, m \in Nodes : \E k \in 1 .. Len(chain[m]) :
                 /\ k > Len(chain[n])
                 /\ chain' = [chain EXCEPT ![n] = SubSeq(chain[m], 1, k)]
<1>1. ASSUME NEW n \in Nodes, NEW t \in Txs, addTransaction(n, t)
      PROVE  chain' = chain
  BY <1>1 DEF addTransaction
<1>2. ASSUME NEW n \in Nodes, NEW s \in SUBSET mempool[n], SealBlock(n, s)
      PROVE  chain' = chain
  BY <1>2 DEF SealBlock
<1>3. ASSUME NEW b \in sent, NEW t \in Txs, AlterBlock(b, t)
      PROVE  chain' = chain
  BY <1>3 DEF AlterBlock
<1>4. ASSUME NEW n \in Nodes, NEW b \in sent, addBlock(n, b)
      PROVE  \E m \in Nodes : \E k \in 1 .. Len(chain[m]) : \E c \in sent :
                GrownFrom(n, m, k, c)
  <2>1. isValid(b, getLatestBlock(n)) /\ chain' = [chain EXCEPT ![n] = Append(chain[n], b)]
    BY <1>4 DEF addBlock
  <2>2. /\ Len(chain[n]) \in 1 .. Len(chain[n]) /\ Len(chain[n]) >= Len(chain[n])
        /\ getLatestBlock(n) = chain[n][Len(chain[n])]
        /\ Append(chain[n], b) = Append(SubSeq(chain[n], 1, Len(chain[n])), b)
    BY AppendGrows, LatestType
  <2>3. GrownFrom(n, n, Len(chain[n]), b) BY <2>1, <2>2, Zenon DEF GrownFrom
  <2> QED BY <2>2, <2>3
<1>5. ASSUME NEW n \in Nodes, NEW m \in Nodes, NEW k \in 1 .. Len(chain[m]),
             replaceChain(n, SubSeq(chain[m], 1, k))
      PROVE  /\ k > Len(chain[n])
             /\ chain' = [chain EXCEPT ![n] = SubSeq(chain[m], 1, k)]
  <2>1. chain[m] \in Seq(TheBlocks) BY DEF TypeOK
  <2>2. Len(SubSeq(chain[m], 1, k)) = k BY <2>1, Prefix
  <2>3. Len(SubSeq(chain[m], 1, k)) > Len(chain[n])
        /\ chain' = [chain EXCEPT ![n] = SubSeq(chain[m], 1, k)]
    BY <1>5 DEF replaceChain
  <2> QED BY <2>2, <2>3
<1>6. ASSUME NEW n \in Nodes, NEW m \in Nodes, NEW k \in 1 .. Len(chain[m]), NEW b \in sent,
             replaceChain(n, Append(SubSeq(chain[m], 1, k), b))
      PROVE  GrownFrom(n, m, k, b)
  <2> DEFINE d == Append(SubSeq(chain[m], 1, k), b)
  <2>1. /\ chain[m] \in Seq(TheBlocks) /\ b \in TheBlocks
        /\ chain[n] \in Seq(TheBlocks) /\ Len(chain[n]) \in Nat
    BY DEF TypeOK
  <2>2. Len(d) = k + 1 /\ k \in Nat BY <2>1, PutAfter
  <2>3. Len(d) > Len(chain[n]) /\ isChainValid(d) /\ chain' = [chain EXCEPT ![n] = d]
    BY <1>6 DEF replaceChain
  <2>4. isValid(b, chain[m][k]) BY <2>1, <2>3, GrownValid
  <2> HIDE DEF d
  <2>5. k >= Len(chain[n]) BY <2>1, <2>2, <2>3
  <2> QED BY <2>3, <2>4, <2>5 DEF GrownFrom, d
<1>7. ASSUME Tick PROVE chain' = chain BY <1>7 DEF Tick
<1>8. ASSUME UNCHANGED vars PROVE chain' = chain BY <1>8 DEF vars
<1> QED
  <2>1. CASE \E n \in Nodes, t \in Txs : addTransaction(n, t) BY <2>1, <1>1
  <2>2. CASE \E n \in Nodes : \E s \in SUBSET mempool[n] : SealBlock(n, s)
    BY <2>2, <1>2
  <2>3. CASE \E b \in sent : \E t \in Txs : AlterBlock(b, t) BY <2>3, <1>3
  <2>4. CASE \E n \in Nodes : \E b \in sent : addBlock(n, b) BY <2>4, <1>4, Zenon
  <2>5. CASE \E n, m \in Nodes : \E k \in 1 .. Len(chain[m]) :
                replaceChain(n, SubSeq(chain[m], 1, k))
    <3>1. PICK n \in Nodes, m \in Nodes : \E k \in 1 .. Len(chain[m]) :
                 replaceChain(n, SubSeq(chain[m], 1, k))
      BY <2>5
    <3>2. PICK k \in 1 .. Len(chain[m]) : replaceChain(n, SubSeq(chain[m], 1, k))
      BY <3>1
    <3>3. k > Len(chain[n]) /\ chain' = [chain EXCEPT ![n] = SubSeq(chain[m], 1, k)]
      BY <3>2, <1>5
    <3> QED BY <3>3
  <2>6. CASE \E n, m \in Nodes : \E k \in 1 .. Len(chain[m]) : \E b \in sent :
                replaceChain(n, Append(SubSeq(chain[m], 1, k), b))
    BY <2>6, <1>6, Zenon
  <2> QED BY <2>1, <2>2, <2>3, <2>4, <2>5, <2>6, <1>7, <1>8, Zenon DEF Next

LEMMA LinkedInit ==
    ASSUME Init PROVE ChainLinked
<1> SUFFICES ASSUME NEW n \in Nodes, NEW i \in 1 .. Len(chain[n])
             PROVE  /\ chain[n][i].index = i - 1
                    /\ i > 1 => /\ chain[n][i].previousHash = chain[n][i - 1].hash
                                /\ chain[n][i].timestamp > chain[n][i - 1].timestamp
  BY DEF ChainLinked
<1>1. chain[n] = <<createGenesisBlock(n)>> BY DEF Init
<1>2. i = 1 BY <1>1
<1>3. chain[n][i].index = 0
  BY <1>1, <1>2 DEF createGenesisBlock, Block
<1> QED BY <1>2, <1>3

\* A valid block after a chain, or after the start of one, keeps the chains linked.
LEMMA LinkedAppend ==
    ASSUME TypeOK, ChainLinked, NEW n \in Nodes, NEW m \in Nodes,
           NEW k \in 1 .. Len(chain[m]), NEW b \in TheBlocks, GrownFrom(n, m, k, b)
    PROVE  ChainLinked'
<1> DEFINE Link(c, i) == /\ c[i].index = i - 1
                         /\ i > 1 => /\ c[i].previousHash = c[i - 1].hash
                                     /\ c[i].timestamp > c[i - 1].timestamp
<1>0. \A q \in Nodes : \A i \in 1 .. Len(chain[q]) : Link(chain[q], i)
  BY DEF ChainLinked
<1> SUFFICES ASSUME NEW q \in Nodes, NEW i \in 1 .. Len(chain'[q])
             PROVE  Link(chain'[q], i)
  BY DEF ChainLinked
<1> DEFINE c == chain[m]
           d == Append(SubSeq(chain[m], 1, k), b)
<1>1. /\ chain' = [chain EXCEPT ![n] = d] /\ isValid(b, c[k]) BY DEF GrownFrom
<1>2. CASE q # n
  <2>1. chain'[q] = chain[q] BY <1>1, <1>2 DEF TypeOK
  <2> QED BY <2>1, <1>0
<1>3. CASE q = n
  <2>1. chain'[q] = d BY <1>1, <1>3 DEF TypeOK
  <2>2. c \in Seq(TheBlocks) BY DEF TypeOK
  <2>3. /\ k \in Nat /\ k >= 1 /\ Len(d) = k + 1 /\ d[k + 1] = b
        /\ \A j \in 1 .. k : j \in 1 .. Len(c) /\ d[j] = c[j]
    BY <2>2, PutAfter
  <2> HIDE DEF d, c
  <2>4. CASE i <= k
    <3>1. i \in 1 .. k /\ (i > 1 => i - 1 \in 1 .. k) BY <2>1, <2>3, <2>4
    <3>2. d[i] = c[i] /\ (i > 1 => d[i - 1] = c[i - 1]) /\ i \in 1 .. Len(c)
      BY <2>3, <3>1
    <3>3. Link(c, i) BY <1>0, <3>2 DEF c
    <3> QED BY <2>1, <3>2, <3>3
  <2>5. CASE i > k
    <3>1. i = k + 1 /\ i - 1 = k /\ k \in 1 .. k BY <2>1, <2>3, <2>5
    <3>2. d[i] = b /\ d[i - 1] = c[k] /\ k \in 1 .. Len(c) BY <2>3, <3>1
    <3>3. c[k].index = k - 1 BY <1>0, <3>2 DEF c
    <3>4. b.index = c[k].index + 1 /\ b.previousHash = c[k].hash
          /\ b.timestamp > c[k].timestamp
      BY <1>1 DEF isValid
    <3>5. b.index = i - 1 BY <2>3, <3>1, <3>3, <3>4
    <3> QED BY <2>1, <3>2, <3>4, <3>5
  <2> QED BY <2>1, <2>3, <2>4, <2>5
<1> QED BY <1>2, <1>3

LEMMA LinkedStep ==
    ASSUME TypeOK, ChainLinked, [Next]_vars PROVE ChainLinked'
<1> DEFINE Link(c, i) == /\ c[i].index = i - 1
                         /\ i > 1 => /\ c[i].previousHash = c[i - 1].hash
                                     /\ c[i].timestamp > c[i - 1].timestamp
<1>1. \A n \in Nodes : \A i \in 1 .. Len(chain[n]) : Link(chain[n], i)
  BY DEF ChainLinked
<1>2. CASE chain' = chain
  BY <1>2 DEF ChainLinked
<1>3. ASSUME NEW n \in Nodes, NEW m \in Nodes, NEW k \in 1 .. Len(chain[m]), NEW b \in sent,
             GrownFrom(n, m, k, b)
      PROVE  ChainLinked'
  <2>1. b \in TheBlocks BY DEF TypeOK
  <2> QED BY <1>3, <2>1, LinkedAppend
<1>4. ASSUME NEW n \in Nodes, NEW m \in Nodes, NEW k \in 1 .. Len(chain[m]),
             chain' = [chain EXCEPT ![n] = SubSeq(chain[m], 1, k)],
             NEW q \in Nodes, NEW i \in 1 .. Len(chain'[q])
      PROVE  Link(chain'[q], i)
  <2>1. CASE q # n
    <3>1. chain'[q] = chain[q] BY <1>4, <2>1 DEF TypeOK
    <3> QED BY <3>1, <1>1
  <2>2. CASE q = n
    <3> DEFINE c == SubSeq(chain[m], 1, k)
    <3>1. chain'[q] = c BY <1>4, <2>2 DEF TypeOK
    <3>2. chain[m] \in Seq(TheBlocks) BY DEF TypeOK
    <3>3. Len(c) = k /\ \A j \in 1 .. k : c[j] = chain[m][j]
      BY <3>2, Prefix
    <3> HIDE DEF c
    <3>4. i \in 1 .. k /\ (i > 1 => i - 1 \in 1 .. k) BY <3>1, <3>3
    <3>5. c[i] = chain[m][i] /\ (i > 1 => c[i - 1] = chain[m][i - 1])
      BY <3>3, <3>4
    <3>6. Len(chain[m]) \in Nat BY <3>2
    <3>7. i \in 1 .. Len(chain[m]) BY <3>4, <3>6
    <3>8. Link(chain[m], i) BY <1>1, <3>7
    <3> QED BY <3>1, <3>5, <3>8
  <2> QED BY <2>1, <2>2
<1>5. ASSUME NEW n \in Nodes, NEW m \in Nodes, NEW k \in 1 .. Len(chain[m]),
             chain' = [chain EXCEPT ![n] = SubSeq(chain[m], 1, k)]
      PROVE  ChainLinked'
  <2>1. \A q \in Nodes : \A i \in 1 .. Len(chain'[q]) : Link(chain'[q], i)
    BY <1>4, <1>5
  <2> QED BY <2>1 DEF ChainLinked
<1> QED BY <1>2, <1>3, <1>5, ChainStep, Zenon

\* Every chain stays linked from its genesis on, whatever is received, refused,
\* altered or taken over (addBlock, replaceChain).
THEOREM Linked == Spec => []ChainLinked
<1>1. Init => TypeOK /\ ChainLinked BY TypeInit, LinkedInit
<1>2. TypeOK /\ ChainLinked /\ [Next]_vars => (TypeOK /\ ChainLinked)'
  BY TypeStep, LinkedStep
<1> QED BY <1>1, <1>2, PTL DEF Spec

-----------------------------------------------------------------------------
(* Action properties *)

LEMMA HeightStep ==
    ASSUME TypeOK, [Next]_vars
    PROVE  \A n \in Nodes : chain'[n] # chain[n] => Len(chain'[n]) > Len(chain[n])
<1> SUFFICES ASSUME NEW q \in Nodes, chain'[q] # chain[q]
             PROVE  Len(chain'[q]) > Len(chain[q])
  OBVIOUS
<1>1. ASSUME NEW n \in Nodes, NEW m \in Nodes, NEW k \in 1 .. Len(chain[m]), NEW b \in sent,
             GrownFrom(n, m, k, b)
      PROVE  Len(chain'[q]) > Len(chain[q])
  <2> DEFINE d == Append(SubSeq(chain[m], 1, k), b)
  <2>1. k >= Len(chain[n]) /\ chain' = [chain EXCEPT ![n] = d] BY <1>1 DEF GrownFrom
  <2>2. q = n /\ chain'[q] = d BY <2>1 DEF TypeOK
  <2>3. /\ chain[m] \in Seq(TheBlocks) /\ b \in TheBlocks
        /\ chain[n] \in Seq(TheBlocks) /\ Len(chain[n]) \in Nat
    BY DEF TypeOK
  <2>4. Len(d) = k + 1 /\ k \in Nat BY <2>3, PutAfter
  <2> HIDE DEF d
  <2> QED BY <2>1, <2>2, <2>3, <2>4
<1>2. ASSUME NEW n \in Nodes, NEW m \in Nodes, NEW k \in 1 .. Len(chain[m]),
             k > Len(chain[n]), chain' = [chain EXCEPT ![n] = SubSeq(chain[m], 1, k)]
      PROVE  Len(chain'[q]) > Len(chain[q])
  <2>1. q = n /\ chain'[q] = SubSeq(chain[m], 1, k) BY <1>2 DEF TypeOK
  <2>2. chain[m] \in Seq(TheBlocks) BY DEF TypeOK
  <2>3. Len(SubSeq(chain[m], 1, k)) = k BY <2>2, Prefix
  <2> QED BY <1>2, <2>1, <2>3
<1> QED BY <1>1, <1>2, ChainStep, Zenon

\* No step makes a node give up height (addBlock, replaceChain).
THEOREM HeightKept == Spec => HeightNeverDrops
<1>1. TypeOK /\ [Next]_vars
          => [\A n \in Nodes : chain'[n] # chain[n] => Len(chain'[n]) > Len(chain[n])]_vars
  BY HeightStep
<1> QED BY <1>1, TypeCorrect, PTL DEF Spec, HeightNeverDrops

\* A block that is added takes out of the mempool what it confirms, and what
\* was confirmed stays so.
LEMMA KeptByAppend ==
    ASSUME TypeOK, NEW n \in Nodes, NEW b \in TheBlocks, addBlock(n, b)
    PROVE  \A q \in Nodes : /\ mempool[q] \subseteq mempool'[q] \cup Confirmed(q)'
                            /\ Confirmed(q) \subseteq Confirmed(q)'
<1> SUFFICES ASSUME NEW q \in Nodes
             PROVE  /\ mempool[q] \subseteq mempool'[q] \cup Confirmed(q)'
                    /\ Confirmed(q) \subseteq Confirmed(q)'
  OBVIOUS
<1>1. mempool' = [mempool EXCEPT ![n] = mempool[n] \ b.transactions]
      /\ chain' = [chain EXCEPT ![n] = Append(chain[n], b)]
  BY DEF addBlock
<1>2. CASE q # n BY <1>1, <1>2 DEF TypeOK, Confirmed
<1>3. CASE q = n
  <2> DEFINE d == Append(chain[n], b)
             i == Len(chain[n]) + 1
  <2>1. chain'[q] = d /\ mempool'[q] = mempool[q] \ b.transactions
    BY <1>1, <1>3 DEF TypeOK
  <2>2. chain[n] \in Seq(TheBlocks) /\ Len(chain[n]) \in Nat BY DEF TypeOK
  <2>3. /\ i \in 1 .. Len(d) /\ d[i] = b
        /\ \A k \in 1 .. Len(chain[n]) : k \in 1 .. Len(d) /\ d[k] = chain[n][k]
    BY <2>2, Appended
  <2> HIDE DEF d, i
  <2>4. b.transactions \subseteq Confirmed(q)'
    BY <2>1, <2>3 DEF Confirmed
  <2>5. Confirmed(q) \subseteq Confirmed(q)'
    BY <1>3, <2>1, <2>3 DEF Confirmed
  <2> QED BY <2>1, <2>4, <2>5
<1> QED BY <1>2, <1>3

LEMMA NotLostStep ==
    ASSUME TypeOK, [Next]_vars
    PROVE  \A n \in Nodes : mempool[n] \subseteq mempool'[n] \cup Confirmed(n)'
<1>1. ASSUME NEW n \in Nodes, NEW t \in Txs, addTransaction(n, t)
      PROVE  \A q \in Nodes : mempool[q] \subseteq mempool'[q]
  BY <1>1 DEF addTransaction, TypeOK
<1>2. ASSUME NEW n \in Nodes, NEW b \in sent, addBlock(n, b)
      PROVE  \A q \in Nodes : mempool[q] \subseteq mempool'[q] \cup Confirmed(q)'
  <2>1. b \in TheBlocks BY DEF TypeOK
  <2> QED BY <1>2, <2>1, KeptByAppend
<1>3. ASSUME mempool' = mempool
      PROVE  \A q \in Nodes : mempool[q] \subseteq mempool'[q]
  BY <1>3
<1>4. ASSUME NEW n \in Nodes, NEW s \in SUBSET mempool[n], SealBlock(n, s)
      PROVE  mempool' = mempool
  BY <1>4 DEF SealBlock
<1>5. ASSUME NEW b \in sent, NEW t \in Txs, AlterBlock(b, t)
      PROVE  mempool' = mempool
  BY <1>5 DEF AlterBlock
<1>6. ASSUME NEW n \in Nodes, NEW m \in Nodes, NEW k \in 1 .. Len(chain[m]),
             replaceChain(n, SubSeq(chain[m], 1, k))
      PROVE  mempool' = mempool
  BY <1>6 DEF replaceChain
<1>7. Tick \/ UNCHANGED vars => mempool' = mempool BY DEF Tick, vars
<1>8. ASSUME NEW n \in Nodes, NEW m \in Nodes, NEW k \in 1 .. Len(chain[m]), NEW b \in sent,
             replaceChain(n, Append(SubSeq(chain[m], 1, k), b))
      PROVE  mempool' = mempool
  BY <1>8 DEF replaceChain
<1> QED
  <2>1. CASE \E n \in Nodes, t \in Txs : addTransaction(n, t)
    BY <2>1, <1>1, Zenon
  <2>2. CASE \E n \in Nodes : \E b \in sent : addBlock(n, b) BY <2>2, <1>2
  <2>3. CASE mempool' = mempool BY <2>3, <1>3
  <2>4. CASE \E n, m \in Nodes : \E k \in 1 .. Len(chain[m]) :
                replaceChain(n, SubSeq(chain[m], 1, k))
    <3>1. PICK n \in Nodes, m \in Nodes : \E k \in 1 .. Len(chain[m]) :
                 replaceChain(n, SubSeq(chain[m], 1, k))
      BY <2>4
    <3>2. PICK k \in 1 .. Len(chain[m]) : replaceChain(n, SubSeq(chain[m], 1, k))
      BY <3>1
    <3>3. mempool' = mempool BY <3>2, <1>6
    <3> QED BY <3>3, <2>3
  <2>5. CASE \E n, m \in Nodes : \E k \in 1 .. Len(chain[m]) : \E b \in sent :
                replaceChain(n, Append(SubSeq(chain[m], 1, k), b))
    <3>1. mempool' = mempool BY <2>5, <1>8, Zenon
    <3> QED BY <3>1, <2>3
  <2> QED BY <2>1, <2>2, <2>3, <2>4, <2>5, <1>4, <1>5, <1>7, Zenon DEF Next

\* No step loses a pending transaction but into the node's own chain
\* (addTransaction, addBlock, replaceChain).
THEOREM NothingLost == Spec => AcceptedNotLost
<1>1. TypeOK /\ [Next]_vars
          => [\A n \in Nodes : mempool[n] \subseteq mempool'[n] \cup Confirmed(n)']_vars
  BY NotLostStep
<1> QED BY <1>1, TypeCorrect, PTL DEF Spec, AcceptedNotLost

-----------------------------------------------------------------------------
(* Forks only go forward *)

\* What the hash of a block covers, and the hash itself.
Seal(b) == <<b.index, b.timestamp, b.previousHash, b.hashed, b.hash>>

\* Every hash in circulation was given out, to one content.
HashesUnique ==
    /\ \A b \in sent : b.hash \in 1 .. sealed
    /\ \A b, c \in sent : b.hash = c.hash => Seal(b) = Seal(c)

IsGenesis(b) == \E n \in Nodes : b = createGenesisBlock(n)

\* A block of a chain is self-valid and sealed like one in circulation.
FromSent(b) == SelfValid(b) /\ \E c \in sent : Seal(b) = Seal(c)

\* A chain starts with a genesis block, and goes on with blocks that were sent.
ChainsSealed ==
    \A n \in Nodes : \A i \in 1 .. Len(chain[n]) :
        IF i = 1 THEN IsGenesis(chain[n][i]) ELSE FromSent(chain[n][i])

\* Chains that agree on a hash at some height agree on all below.
PrefixShared ==
    \A n, m \in Nodes : \A i \in (1 .. Len(chain[n])) \cap (1 .. Len(chain[m])) :
        chain[n][i].hash = chain[m][i].hash
            => \A k \in 1 .. i : chain[n][k] = chain[m][k]

ForkInv == TypeOK /\ ChainLinked /\ HashesUnique /\ ChainsSealed /\ PrefixShared

\* A hash tells a block: nothing else was sealed with it.
LEMMA HashTells ==
    ASSUME TypeOK, HashesUnique, ChainsSealed,
           NEW n \in Nodes, NEW m \in Nodes,
           NEW i \in 1 .. Len(chain[n]), NEW j \in 1 .. Len(chain[m]),
           chain[n][i].hash = chain[m][j].hash
    PROVE  chain[n][i] = chain[m][j]
<1> DEFINE b == chain[n][i]
           c == chain[m][j]
<1>1. b \in TheBlocks /\ c \in TheBlocks
  <2>1. chain[n] \in Seq(TheBlocks) /\ chain[m] \in Seq(TheBlocks)
    BY DEF TypeOK
  <2> QED BY <2>1
<1>2. (IsGenesis(b) \/ FromSent(b)) /\ (IsGenesis(c) \/ FromSent(c))
  BY DEF ChainsSealed
<1>3. b.hash = c.hash OBVIOUS
<1> SUFFICES b = c OBVIOUS
<1> HIDE DEF b, c
<1>4. CASE IsGenesis(b) /\ IsGenesis(c)
  BY <1>3, <1>4, GenesisTells DEF IsGenesis
<1>5. \A g : IsGenesis(g) => g.hash < 0
  BY LedgerAssumption DEF IsGenesis, createGenesisBlock, Block
<1>6. \A d \in TheBlocks : FromSent(d) => d.hash > 0
  BY DEF FromSent, HashesUnique, Seal, TypeOK
<1>7. CASE FromSent(b) /\ FromSent(c)
  <2>1. PICK d \in sent : Seal(b) = Seal(d) BY <1>7 DEF FromSent
  <2>2. PICK e \in sent : Seal(c) = Seal(e) BY <1>7 DEF FromSent
  <2>3. d.hash = e.hash BY <1>3, <2>1, <2>2 DEF Seal
  <2>4. Seal(b) = Seal(c) BY <2>1, <2>2, <2>3 DEF HashesUnique
  <2>5. SelfValid(b) /\ SelfValid(c) BY <1>7 DEF FromSent
  <2>6. /\ b.index = c.index /\ b.timestamp = c.timestamp
        /\ b.previousHash = c.previousHash /\ b.hashed = c.hashed
        /\ b.txRoot = c.txRoot /\ b.transactions = c.transactions
    BY <2>4, <2>5 DEF Seal, SelfValid
  <2> QED BY <1>1, <1>3, <2>6 DEF TheBlocks
<1>8. ~(b.hash < 0 /\ b.hash > 0) BY <1>1 DEF TheBlocks
<1> QED BY <1>1, <1>2, <1>3, <1>4, <1>5, <1>6, <1>7, <1>8

\* The same of all blocks of all chains, and after a step.
HashesTell ==
    \A n, m \in Nodes : \A i \in 1 .. Len(chain[n]), j \in 1 .. Len(chain[m]) :
        chain[n][i].hash = chain[m][j].hash => chain[n][i] = chain[m][j]

LEMMA HashesTellNow == TypeOK /\ HashesUnique /\ ChainsSealed => HashesTell
BY HashTells DEF HashesTell

LEMMA HashesTellNext ==
    TypeOK' /\ HashesUnique' /\ ChainsSealed' => HashesTell'
BY HashesTellNow, PTL

\* Sealing gives out a new hash, altering a block keeps its seal.
LEMMA SealsKept ==
    ASSUME TypeOK, HashesUnique, [Next]_vars
    PROVE  /\ HashesUnique'
           /\ \A c \in sent : \E d \in sent' : Seal(c) = Seal(d)
<1>1. ASSUME NEW n \in Nodes, NEW s \in SUBSET mempool[n], SealBlock(n, s)
      PROVE  /\ HashesUnique'
             /\ \A c \in sent : \E d \in sent' : Seal(c) = Seal(d)
  <2> DEFINE b == Block(getLatestBlock(n).index + 1, clock, s,
                        getLatestBlock(n).hash, sealed + 1)
  <2>1. b.hash = sealed + 1 BY DEF Block
  <2>2. sent' = sent \cup {b} /\ sealed' = sealed + 1
    BY <1>1 DEF SealBlock
  <2> HIDE DEF b
  <2>3. sealed \in Nat /\ \A c \in sent : c.hash \in 1 .. sealed /\ c.hash # b.hash
    BY <2>1 DEF TypeOK, HashesUnique
  <2>4. \A c \in sent' : c.hash \in 1 .. sealed'
    BY <2>1, <2>2, <2>3
  <2>5. \A c, d \in sent' : c.hash = d.hash => Seal(c) = Seal(d)
    BY <2>2, <2>3 DEF HashesUnique
  <2> QED BY <2>2, <2>4, <2>5 DEF HashesUnique
<1>2. ASSUME NEW b \in sent, NEW t \in Txs, AlterBlock(b, t)
      PROVE  /\ HashesUnique'
             /\ \A c \in sent : \E d \in sent' : Seal(c) = Seal(d)
  <2>1. b \in TheBlocks BY DEF TypeOK
  <2>2. PICK a : Seal(a) = Seal(b) /\ sent' = (sent \ {b}) \cup {a}
    <3>1. Seal([b EXCEPT !.transactions = @ \cup {t}, !.txRoot = b.transactions \cup {t}])
            = Seal(b)
      BY <2>1 DEF TheBlocks, Seal
    <3>2. Seal([b EXCEPT !.transactions = @ \ {t}]) = Seal(b)
      BY <2>1 DEF TheBlocks, Seal
    <3> QED BY <1>2, <3>1, <3>2, Zenon DEF AlterBlock
  <2>3. sealed' = sealed BY <1>2 DEF AlterBlock
  <2>4. a.hash = b.hash BY <2>2 DEF Seal
  <2>5. \A c \in sent : \E d \in sent' : Seal(c) = Seal(d) BY <2>2
  <2>6. \A d \in sent' : \E c \in sent : c.hash = d.hash /\ Seal(c) = Seal(d)
    BY <2>2, <2>4
  <2>7. \A c \in sent' : c.hash \in 1 .. sealed'
    BY <2>3, <2>6 DEF HashesUnique
  <2>8. \A c, d \in sent' : c.hash = d.hash => Seal(c) = Seal(d)
    BY <2>6 DEF HashesUnique
  <2> QED BY <2>5, <2>7, <2>8 DEF HashesUnique
<1>3. ASSUME sent' = sent, sealed' = sealed
      PROVE  /\ HashesUnique'
             /\ \A c \in sent : \E d \in sent' : Seal(c) = Seal(d)
  BY <1>3 DEF HashesUnique
<1>4. ASSUME NEW n \in Nodes, NEW t \in Txs, addTransaction(n, t)
      PROVE  sent' = sent /\ sealed' = sealed
  BY <1>4 DEF addTransaction
<1>5. ASSUME NEW n \in Nodes, NEW b \in sent, addBlock(n, b)
      PROVE  sent' = sent /\ sealed' = sealed
  BY <1>5 DEF addBlock
<1>6. ASSUME NEW n \in Nodes, NEW c, replaceChain(n, c)
      PROVE  sent' = sent /\ sealed' = sealed
  BY <1>6 DEF replaceChain
<1>7. Tick \/ UNCHANGED vars => sent' = sent /\ sealed' = sealed
  BY DEF Tick, vars
<1> QED BY <1>1, <1>2, <1>3, <1>4, <1>5, <1>6, <1>7, Zenon DEF Next

LEMMA ForkInit ==
    ASSUME Init PROVE ForkInv
<1>1. \A n \in Nodes : Len(chain[n]) = 1 /\ chain[n][1] = createGenesisBlock(n)
  BY DEF Init
<1>2. HashesUnique BY DEF Init, HashesUnique
<1>3. ChainsSealed BY <1>1 DEF ChainsSealed, IsGenesis
<1>4. PrefixShared
  <2> SUFFICES ASSUME NEW n \in Nodes, NEW m \in Nodes,
                      chain[n][1].hash = chain[m][1].hash
               PROVE  chain[n][1] = chain[m][1]
    BY <1>1 DEF PrefixShared
  <2> QED BY <1>1, GenesisTells
<1> QED BY <1>2, <1>3, <1>4, TypeInit, LinkedInit DEF ForkInv

\* After replaceChain every node holds a chain, or the start of one, that some
\* node held before.
LEMMA TakenOver ==
    ASSUME TypeOK, NEW n \in Nodes, NEW m \in Nodes, NEW k \in 1 .. Len(chain[m]),
           chain' = [chain EXCEPT ![n] = SubSeq(chain[m], 1, k)], NEW q \in Nodes
    PROVE  \E r \in Nodes : \A i \in 1 .. Len(chain'[q]) :
                  i \in 1 .. Len(chain[r]) /\ chain'[q][i] = chain[r][i]
<1>1. CASE q # n
  <2>1. chain'[q] = chain[q] BY <1>1 DEF TypeOK
  <2> QED BY <2>1
<1>2. CASE q = n
  <2> DEFINE c == SubSeq(chain[m], 1, k)
  <2>1. chain'[q] = c BY <1>2 DEF TypeOK
  <2>2. chain[m] \in Seq(TheBlocks) /\ Len(chain[m]) \in Nat BY DEF TypeOK
  <2>3. Len(c) = k /\ \A i \in 1 .. k : c[i] = chain[m][i] BY <2>2, Prefix
  <2> HIDE DEF c
  <2>4. \A i \in 1 .. Len(chain'[q]) :
           i \in 1 .. Len(chain[m]) /\ chain'[q][i] = chain[m][i]
    BY <2>1, <2>2, <2>3
  <2> QED BY <2>4
<1> QED BY <1>1, <1>2

\* What a chain holds after a step was there before, or is the block appended.
LEMMA SealedStep ==
    ASSUME ForkInv, [Next]_vars PROVE ChainsSealed'
<1>1. ASSUME NEW b, FromSent(b)
      PROVE  SelfValid(b) /\ \E d \in sent' : Seal(b) = Seal(d)
  BY <1>1, SealsKept DEF FromSent, ForkInv
<1>2. ASSUME NEW n \in Nodes, NEW i \in 1 .. Len(chain[n])
      PROVE  IF i = 1 THEN IsGenesis(chain[n][i])
             ELSE SelfValid(chain[n][i]) /\ \E d \in sent' : Seal(chain[n][i]) = Seal(d)
  BY <1>1 DEF ChainsSealed, ForkInv
<1> SUFFICES ASSUME NEW q \in Nodes, NEW i \in 1 .. Len(chain'[q])
             PROVE  IF i = 1 THEN IsGenesis(chain'[q][i])
                    ELSE SelfValid(chain'[q][i])
                         /\ \E d \in sent' : Seal(chain'[q][i]) = Seal(d)
  BY DEF ChainsSealed, IsGenesis, FromSent, SelfValid, Seal, createGenesisBlock, Block
<1>3. CASE chain' = chain BY <1>2, <1>3
<1>4. ASSUME NEW n \in Nodes, NEW m \in Nodes, NEW k \in 1 .. Len(chain[m]), NEW b \in sent,
             GrownFrom(n, m, k, b)
      PROVE  IF i = 1 THEN IsGenesis(chain'[q][i])
             ELSE SelfValid(chain'[q][i]) /\ \E d \in sent' : Seal(chain'[q][i]) = Seal(d)
  <2> DEFINE c == Append(SubSeq(chain[m], 1, k), b)
  <2>0. chain' = [chain EXCEPT ![n] = c] /\ SelfValid(b)
    BY <1>4 DEF GrownFrom, isValid
  <2>1. CASE q # n
    <3>1. chain'[q] = chain[q] BY <2>0, <2>1 DEF ForkInv, TypeOK
    <3> QED BY <3>1, <1>2
  <2>2. CASE q = n
    <3>1. chain'[q] = c BY <2>0, <2>2 DEF ForkInv, TypeOK
    <3>2. chain[m] \in Seq(TheBlocks) /\ b \in TheBlocks BY DEF ForkInv, TypeOK
    <3>3. /\ k \in Nat /\ k >= 1 /\ Len(c) = k + 1 /\ c[k + 1] = b
          /\ \A j \in 1 .. k : j \in 1 .. Len(chain[m]) /\ c[j] = chain[m][j]
      BY <3>2, PutAfter
    <3> HIDE DEF c
    <3>4. CASE i \in 1 .. k
      <4>1. chain'[q][i] = chain[m][i] /\ i \in 1 .. Len(chain[m]) BY <3>1, <3>3, <3>4
      <4> QED BY <4>1, <1>2
    <3>5. CASE i \notin 1 .. k
      <4>1. i = k + 1 /\ i # 1 BY <3>1, <3>3, <3>5
      <4>2. chain'[q][i] = b BY <4>1, <3>1, <3>3
      <4>3. FromSent(b) BY <2>0 DEF FromSent
      <4> QED BY <4>1, <4>2, <4>3, <1>1
    <3> QED BY <3>4, <3>5
  <2> QED BY <2>1, <2>2
<1>5. ASSUME NEW n \in Nodes, NEW m \in Nodes, NEW k \in 1 .. Len(chain[m]),
             chain' = [chain EXCEPT ![n] = SubSeq(chain[m], 1, k)]
      PROVE  IF i = 1 THEN IsGenesis(chain'[q][i])
             ELSE SelfValid(chain'[q][i]) /\ \E d \in sent' : Seal(chain'[q][i]) = Seal(d)
  <2>1. PICK r \in Nodes : /\ i \in 1 .. Len(chain[r])
                           /\ chain'[q][i] = chain[r][i]
    BY <1>5, TakenOver DEF ForkInv
  <2> QED BY <2>1, <1>2
<1> QED BY <1>3, <1>4, <1>5, ChainStep DEF ForkInv

\* A block put after the start of a chain, which another node holds at the same height,
\* brings their chains together, because both blocks name the one before.
LEMMA AppendShares ==
    ASSUME TypeOK, ChainLinked, HashesUnique, ChainsSealed, PrefixShared,
           TypeOK', ChainLinked', HashesUnique', ChainsSealed',
           NEW n \in Nodes, NEW m \in Nodes, NEW p \in 1 .. Len(chain[m]), NEW b \in sent,
           GrownFrom(n, m, p, b)
    PROVE  \A r \in Nodes \ {n} :
             \A i \in (1 .. Len(chain'[n])) \cap (1 .. Len(chain'[r])) :
               chain'[n][i].hash = chain'[r][i].hash
                 => \A k \in 1 .. i : chain'[n][k] = chain'[r][k]
<1> SUFFICES ASSUME NEW r \in Nodes \ {n},
                    NEW i \in (1 .. Len(chain'[n])) \cap (1 .. Len(chain'[r])),
                    chain'[n][i].hash = chain'[r][i].hash,
                    NEW k \in 1 .. i
             PROVE  chain'[n][k] = chain'[r][k]
  OBVIOUS
<1> DEFINE c == Append(SubSeq(chain[m], 1, p), b)
<1>0. chain' = [chain EXCEPT ![n] = c] BY DEF GrownFrom
<1>1. chain'[n] = c /\ chain'[r] = chain[r] BY <1>0 DEF TypeOK
<1>2. /\ chain[m] \in Seq(TheBlocks) /\ b \in TheBlocks
      /\ chain[r] \in Seq(TheBlocks) /\ Len(chain[r]) \in Nat
  BY LatestType DEF TypeOK
<1>3. /\ p \in Nat /\ p >= 1 /\ Len(c) = p + 1
      /\ \A j \in 1 .. p : j \in 1 .. Len(chain[m]) /\ c[j] = chain[m][j]
  BY <1>2, PutAfter
<1> HIDE DEF c
<1>4. i \in Nat /\ i >= 1 /\ i <= p + 1 /\ i <= Len(chain[r])
  BY <1>1, <1>2, <1>3
<1>5. CASE i <= p
  <2>1. i \in 1 .. p /\ i \in 1 .. Len(chain[r]) /\ k \in 1 .. p
    BY <1>2, <1>3, <1>4, <1>5
  <2>2. /\ chain[m][i].hash = chain[r][i].hash
        /\ i \in (1 .. Len(chain[m])) \cap (1 .. Len(chain[r]))
    BY <1>1, <1>3, <2>1
  <2>3. chain[m][k] = chain[r][k] BY <2>2 DEF PrefixShared
  <2> QED BY <1>1, <1>3, <2>1, <2>3
<1>6. CASE i = p + 1
  <2>1. chain'[n][i] = chain'[r][i]
    <3>1. HashesTell' BY HashesTellNext
    <3>2. i \in 1 .. Len(chain'[n]) /\ i \in 1 .. Len(chain'[r]) OBVIOUS
    <3> QED BY <3>1, <3>2 DEF HashesTell
  <2>2. /\ p \in 1 .. p /\ i - 1 = p /\ i > 1 /\ p \in 1 .. Len(chain[r])
        /\ i \in 1 .. Len(chain'[n]) /\ i \in 1 .. Len(chain'[r])
    BY <1>2, <1>3, <1>4, <1>6
  <2>3. chain'[n][i].previousHash = chain'[n][p].hash
        /\ chain'[r][i].previousHash = chain'[r][p].hash
    BY <2>2 DEF ChainLinked
  <2>4. /\ chain[m][p].hash = chain[r][p].hash
        /\ p \in (1 .. Len(chain[m])) \cap (1 .. Len(chain[r]))
    BY <2>1, <2>2, <2>3, <1>1, <1>3
  <2>5. \A j \in 1 .. p : chain[m][j] = chain[r][j]
    BY <2>4 DEF PrefixShared
  <2>6. CASE k = i BY <2>1, <2>6
  <2>7. CASE k # i
    <3>1. k \in 1 .. p BY <1>3, <1>4, <1>6, <2>7
    <3> QED BY <3>1, <2>5, <1>1, <1>3
  <2> QED BY <2>6, <2>7
<1> QED BY <1>3, <1>4, <1>5, <1>6

LEMMA PrefixStep ==
    ASSUME ForkInv, [Next]_vars,
           TypeOK', ChainLinked', HashesUnique', ChainsSealed'
    PROVE  PrefixShared'
<1>0. TypeOK /\ ChainLinked /\ HashesUnique /\ ChainsSealed /\ PrefixShared
  BY DEF ForkInv
<1> SUFFICES ASSUME NEW q \in Nodes, NEW r \in Nodes,
                    NEW i \in (1 .. Len(chain'[q])) \cap (1 .. Len(chain'[r])),
                    chain'[q][i].hash = chain'[r][i].hash,
                    NEW k \in 1 .. i
             PROVE  chain'[q][k] = chain'[r][k]
  BY DEF PrefixShared
<1>1. CASE chain' = chain BY <1>0, <1>1 DEF PrefixShared
<1>2. ASSUME NEW n \in Nodes, NEW m \in Nodes, NEW p \in 1 .. Len(chain[m]), NEW b \in sent,
             GrownFrom(n, m, p, b)
      PROVE  chain'[q][k] = chain'[r][k]
  <2>1. CASE q = r BY <2>1
  <2>2. \A s \in Nodes \ {n} :
          \A x \in (1 .. Len(chain'[n])) \cap (1 .. Len(chain'[s])) :
            chain'[n][x].hash = chain'[s][x].hash
              => \A y \in 1 .. x : chain'[n][y] = chain'[s][y]
    BY <1>0, <1>2, AppendShares
  <2>3. CASE (q = n /\ r # n) \/ (q # n /\ r = n)
    BY <2>2, <2>3
  <2>4. CASE q # n /\ r # n
    <3>1. chain'[q] = chain[q] /\ chain'[r] = chain[r]
      BY <1>0, <1>2, <2>4 DEF TypeOK, GrownFrom
    <3> QED BY <1>0, <3>1 DEF PrefixShared
  <2> QED BY <2>1, <2>2, <2>3, <2>4
<1>3. ASSUME NEW n \in Nodes, NEW m \in Nodes, NEW p \in 1 .. Len(chain[m]),
             chain' = [chain EXCEPT ![n] = SubSeq(chain[m], 1, p)]
      PROVE  chain'[q][k] = chain'[r][k]
  <2>1. PICK u \in Nodes : \A x \in 1 .. Len(chain'[q]) :
               x \in 1 .. Len(chain[u]) /\ chain'[q][x] = chain[u][x]
    BY <1>0, <1>3, TakenOver
  <2>2. PICK v \in Nodes : \A x \in 1 .. Len(chain'[r]) :
               x \in 1 .. Len(chain[v]) /\ chain'[r][x] = chain[v][x]
    BY <1>0, <1>3, TakenOver
  <2>3. Len(chain'[q]) \in Nat /\ Len(chain'[r]) \in Nat
    <3>1. chain'[q] \in Seq(TheBlocks) /\ chain'[r] \in Seq(TheBlocks) BY DEF TypeOK
    <3> QED BY <3>1
  <2>4. /\ i \in 1 .. Len(chain'[q]) /\ i \in 1 .. Len(chain'[r])
        /\ k \in 1 .. Len(chain'[q]) /\ k \in 1 .. Len(chain'[r])
    BY <2>3
  <2>5. i \in (1 .. Len(chain[u])) \cap (1 .. Len(chain[v]))
        /\ chain[u][i].hash = chain[v][i].hash
    BY <2>1, <2>2, <2>4
  <2>6. chain[u][k] = chain[v][k] BY <1>0, <2>5 DEF PrefixShared
  <2> QED BY <2>1, <2>2, <2>4, <2>6
<1> QED BY <1>0, <1>1, <1>2, <1>3, ChainStep, Zenon

LEMMA ForkStep ==
    ASSUME ForkInv, [Next]_vars PROVE ForkInv'
<1>1. TypeOK' BY TypeStep DEF ForkInv
<1>2. ChainLinked' BY LinkedStep DEF ForkInv
<1>3. HashesUnique' BY SealsKept DEF ForkInv
<1>4. ChainsSealed' BY SealedStep
<1>5. PrefixShared' BY <1>1, <1>2, <1>3, <1>4, PrefixStep
<1> QED BY <1>1, <1>2, <1>3, <1>4, <1>5 DEF ForkInv

LEMMA SamePrefix ==
    ASSUME NEW c \in Seq(TheBlocks), NEW d \in Seq(TheBlocks),
           NEW i \in 1 .. Len(c), i \in 1 .. Len(d),
           \A k \in 1 .. i : c[k] = d[k]
    PROVE  SubSeq(c, 1, i) = SubSeq(d, 1, i)
<1>1. SubSeq(c, 1, i) = [k \in 1 .. i |-> c[k]] OBVIOUS
<1>2. SubSeq(d, 1, i) = [k \in 1 .. i |-> d[k]] OBVIOUS
<1> QED BY <1>1, <1>2

LEMMA ForkInvShares ==
    ASSUME ForkInv PROVE SharedBlockSharedPast
<1> USE DEF ForkInv
<1> SUFFICES ASSUME NEW n \in Nodes, NEW m \in Nodes,
                    NEW i \in 1 .. Len(chain[n]), NEW j \in 1 .. Len(chain[m]),
                    chain[n][i].hash = chain[m][j].hash
             PROVE  i = j /\ SubSeq(chain[n], 1, i) = SubSeq(chain[m], 1, j)
  BY DEF SharedBlockSharedPast
<1>1. chain[n][i] = chain[m][j] BY HashTells
<1>2. chain[n][i].index = i - 1 /\ chain[m][j].index = j - 1 BY DEF ChainLinked
<1>3. i = j
  <2>1. chain[n] \in Seq(TheBlocks) /\ chain[m] \in Seq(TheBlocks) BY DEF TypeOK
  <2>2. i \in Int /\ j \in Int BY <2>1
  <2> QED BY <1>1, <1>2, <2>2
<1>4. \A k \in 1 .. i : chain[n][k] = chain[m][k]
  BY <1>3 DEF PrefixShared
<1> QED BY <1>3, <1>4, SamePrefix DEF TypeOK

\* Chains that share a block share all before it: a node that takes over
\* another's chain, or receives its blocks late, never ends up with a mixed
\* history (previousHash in Block.validate, replaceChain).
THEOREM ForksGoForward == Spec => []SharedBlockSharedPast
<1>1. Init => ForkInv BY ForkInit
<1>2. ForkInv /\ [Next]_vars => ForkInv' BY ForkStep
<1>3. ForkInv => SharedBlockSharedPast BY ForkInvShares
<1> QED BY <1>1, <1>2, <1>3, PTL DEF Spec
-----------------------------------------------------------------------------
(* The difficulty follows from the chain *)

\* The difficulties a node goes through while it builds the chain c.
Traces(c) ==
    {f \in [1 .. Len(c) -> Nat \ {0}] :
        /\ f[1] = InitialDifficulty
        /\ \A i \in 2 .. Len(c) : f[i] = adjustDifficulty(f[i - 1], SubSeq(c, 1, i))}

\* Until a chain is taken over, every node went through those of its own chain.
DifficultyTraced ==
    replaced = 0 =>
        \A n \in Nodes : \E f \in Traces(chain[n]) : f[Len(chain[n])] = difficulty[n]

\* A chain has one trace: the first difficulty in which two differ would follow
\* from equal ones.
LEMMA OneTrace ==
    ASSUME NEW c \in Seq(TheBlocks), NEW f \in Traces(c), NEW g \in Traces(c)
    PROVE  f = g
<1> DEFINE T == {i \in 1 .. Len(c) : f[i] # g[i]}
<1>0. /\ Len(c) \in Nat
      /\ f \in [1 .. Len(c) -> Nat \ {0}] /\ g \in [1 .. Len(c) -> Nat \ {0}]
      /\ f[1] = g[1]
      /\ \A i \in 2 .. Len(c) : /\ f[i] = adjustDifficulty(f[i - 1], SubSeq(c, 1, i))
                                /\ g[i] = adjustDifficulty(g[i - 1], SubSeq(c, 1, i))
  BY DEF Traces
<1>1. SUFFICES ASSUME T # {} PROVE FALSE BY <1>0
<1>2. PICK i \in T : \A j \in T : i <= j
  <2>1. T \subseteq Nat BY <1>0
  <2> HIDE DEF T
  <2> QED BY <1>1, <2>1, Least
<1>3. i \in 2 .. Len(c) /\ i - 1 \in 1 .. Len(c) /\ f[i] # g[i] BY <1>0, <1>2
<1>4. f[i - 1] = g[i - 1] BY <1>2, <1>3
<1> QED BY <1>0, <1>3, <1>4

\* The start of a chain is also that of the chain with one block more.
LEMMA StartKept ==
    ASSUME NEW c \in Seq(TheBlocks), NEW b \in TheBlocks, NEW i \in 1 .. Len(c)
    PROVE  SubSeq(Append(c, b), 1, i) = SubSeq(c, 1, i)
<1> DEFINE d == Append(c, b)
<1>1. /\ d \in Seq(TheBlocks) /\ Len(d) = Len(c) + 1 /\ Len(c) \in Nat
      /\ \A k \in 1 .. Len(c) : d[k] = c[k]
  BY Appended
<1> HIDE DEF d
<1>2. i \in 1 .. Len(d) /\ \A k \in 1 .. i : d[k] = c[k] BY <1>1
<1> QED BY <1>1, <1>2, SamePrefix DEF d

\* With a block appended the trace goes on with the difficulty addBlock computes.
LEMMA TraceExtended ==
    ASSUME NEW c \in Seq(TheBlocks), c # <<>>, NEW b \in TheBlocks, NEW f \in Traces(c)
    PROVE  \E g \in Traces(Append(c, b)) :
              g[Len(c) + 1] = adjustDifficulty(f[Len(c)], Append(c, b))
<1> DEFINE d == Append(c, b)
           last == Len(c)
           next == adjustDifficulty(f[last], d)
           g == [i \in 1 .. last + 1 |-> IF i = last + 1 THEN next ELSE f[i]]
<1>1. /\ d \in Seq(TheBlocks) /\ Len(d) = last + 1 /\ last \in Nat /\ last >= 1
      /\ SubSeq(d, 1, last + 1) = d
      /\ \A i \in 1 .. last : SubSeq(d, 1, i) = SubSeq(c, 1, i)
  BY Appended, StartKept, WholeChain
<1>2. /\ f \in [1 .. last -> Nat \ {0}] /\ f[1] = InitialDifficulty
      /\ \A i \in 2 .. last : f[i] = adjustDifficulty(f[i - 1], SubSeq(c, 1, i))
  BY DEF Traces
<1>3. next \in Nat \ {0} BY <1>1, <1>2, DifficultyType
<1> HIDE DEF d, last, next
<1>4. /\ g \in [1 .. Len(d) -> Nat \ {0}] /\ g[1] = InitialDifficulty
      /\ g[last + 1] = next /\ \A i \in 1 .. last : g[i] = f[i]
  BY <1>1, <1>2, <1>3
<1> HIDE DEF g
<1>5. ASSUME NEW i \in 2 .. Len(d)
      PROVE  g[i] = adjustDifficulty(g[i - 1], SubSeq(d, 1, i))
  <2>1. i - 1 \in 1 .. last /\ g[i - 1] = f[i - 1] BY <1>1, <1>4
  <2>2. CASE i = last + 1
    <3>1. i - 1 = last BY <1>1, <2>2
    <3> QED BY <1>1, <1>4, <2>1, <2>2, <3>1 DEF next
  <2>3. CASE i # last + 1
    <3>1. i \in 2 .. last /\ i \in 1 .. last BY <1>1, <2>3
    <3> QED BY <1>1, <1>2, <1>4, <2>1, <3>1
  <2> QED BY <2>2, <2>3
<1>6. g \in Traces(d) BY <1>4, <1>5 DEF Traces
<1> QED BY <1>4, <1>6 DEF d, last, next

LEMMA TracedInit ==
    ASSUME Init PROVE DifficultyTraced
<1> SUFFICES ASSUME NEW n \in Nodes
             PROVE  \E f \in Traces(chain[n]) : f[Len(chain[n])] = difficulty[n]
  BY DEF DifficultyTraced
<1> DEFINE f == [i \in 1 .. 1 |-> InitialDifficulty]
<1>1. Len(chain[n]) = 1 /\ difficulty[n] = InitialDifficulty BY DEF Init
<1>2. f \in Traces(chain[n]) /\ f[1] = InitialDifficulty
  BY <1>1, LedgerAssumption DEF Traces
<1> QED BY <1>1, <1>2

LEMMA TracedStep ==
    ASSUME TypeOK, DifficultyTraced, [Next]_vars PROVE DifficultyTraced'
<1>1. CASE chain' = chain /\ difficulty' = difficulty /\ replaced' = replaced
  BY <1>1 DEF DifficultyTraced, Traces
<1>2. ASSUME NEW n \in Nodes, NEW b \in sent, addBlock(n, b)
      PROVE  DifficultyTraced'
  <2> SUFFICES ASSUME replaced = 0, NEW q \in Nodes
               PROVE  \E f \in Traces(chain'[q]) : f[Len(chain'[q])] = difficulty'[q]
    BY <1>2 DEF DifficultyTraced, Traces, addBlock
  <2>1. PICK f \in Traces(chain[q]) : f[Len(chain[q])] = difficulty[q]
    BY DEF DifficultyTraced
  <2>2. CASE q # n
    <3>1. chain'[q] = chain[q] /\ difficulty'[q] = difficulty[q]
      BY <1>2, <2>2 DEF addBlock, TypeOK
    <3> QED BY <2>1, <3>1
  <2>3. CASE q = n
    <3> DEFINE c == Append(chain[q], b)
    <3>1. chain'[q] = c /\ difficulty'[q] = adjustDifficulty(difficulty[q], c)
      BY <1>2, <2>3 DEF addBlock, TypeOK
    <3>2. chain[q] \in Seq(TheBlocks) /\ chain[q] # <<>> /\ b \in TheBlocks
      BY DEF TypeOK
    <3>3. Len(c) = Len(chain[q]) + 1 BY <3>2, Appended
    <3>4. \E g \in Traces(c) : g[Len(chain[q]) + 1] = adjustDifficulty(f[Len(chain[q])], c)
      BY <3>2, TraceExtended
    <3> HIDE DEF c
    <3> QED BY <2>1, <3>1, <3>3, <3>4
  <2> QED BY <2>2, <2>3
<1>3. ASSUME NEW n \in Nodes, NEW c, replaceChain(n, c)
      PROVE  DifficultyTraced'
  <2>1. replaced' = replaced + 1 /\ replaced \in Nat BY <1>3 DEF replaceChain, TypeOK
  <2>2. replaced' # 0 BY <2>1
  <2> QED BY <2>2 DEF DifficultyTraced
<1>4. ASSUME NEW n \in Nodes, NEW t \in Txs, addTransaction(n, t)
      PROVE  chain' = chain /\ difficulty' = difficulty /\ replaced' = replaced
  BY <1>4 DEF addTransaction
<1>5. ASSUME NEW n \in Nodes, NEW s \in SUBSET mempool[n], SealBlock(n, s)
      PROVE  chain' = chain /\ difficulty' = difficulty /\ replaced' = replaced
  BY <1>5 DEF SealBlock
<1>6. ASSUME NEW b \in sent, NEW t \in Txs, AlterBlock(b, t)
      PROVE  chain' = chain /\ difficulty' = difficulty /\ replaced' = replaced
  BY <1>6 DEF AlterBlock
<1>7. Tick \/ UNCHANGED vars
          => chain' = chain /\ difficulty' = difficulty /\ replaced' = replaced
  BY DEF Tick, vars
<1> QED BY <1>1, <1>2, <1>3, <1>4, <1>5, <1>6, <1>7, Zenon DEF Next

\* Two nodes with one chain went through one trace.
LEMMA TracedAgrees ==
    ASSUME TypeOK, DifficultyTraced PROVE SameChainSameDifficulty
<1> SUFFICES ASSUME replaced = 0, NEW n \in Nodes, NEW m \in Nodes, chain[n] = chain[m]
             PROVE  difficulty[n] = difficulty[m]
  BY DEF SameChainSameDifficulty
<1>1. PICK f \in Traces(chain[n]) : f[Len(chain[n])] = difficulty[n]
  BY DEF DifficultyTraced
<1>2. PICK g \in Traces(chain[m]) : g[Len(chain[m])] = difficulty[m]
  BY DEF DifficultyTraced
<1>3. chain[n] \in Seq(TheBlocks) BY DEF TypeOK
<1>4. f = g BY <1>1, <1>2, <1>3, OneTrace
<1> QED BY <1>1, <1>2, <1>4

\* The difficulty of a node follows from its chain alone, in whatever order it
\* was sent what, as long as it built that chain itself: nodes that agree on the
\* chain agree on the difficulty of its next block (addBlock, adjustDifficulty).
THEOREM DifficultyAgreed == Spec => []SameChainSameDifficulty
<1>1. Init => TypeOK /\ DifficultyTraced BY TypeInit, TracedInit
<1>2. TypeOK /\ DifficultyTraced /\ [Next]_vars => (TypeOK /\ DifficultyTraced)'
  BY TypeStep, TracedStep
<1>3. TypeOK /\ DifficultyTraced => SameChainSameDifficulty BY TracedAgrees
<1> QED BY <1>1, <1>2, <1>3, PTL DEF Spec

-----------------------------------------------------------------------------
(* The producer *)

Phases == {"idle", "selected", "created", "validated", "added", "done", "failed"}

\* What a run selected are transactions, and what it built is a block.
RunsOK ==
    run \in [Runs -> [phase : Phases, selection : SUBSET Txs, block : TheBlocks]]

ProductionInv == TypeOK /\ RunsOK /\ ChainLinked /\ SelectedNotLost

\* With the producer beside it, the ledger takes steps of its own, a block is
\* sealed, or the block of a run is added to the chain of its node.
LEMMA LedgerUnderProducer ==
    ASSUME TypeOK, RunsOK, [ProductionNext]_allVars
    PROVE  \/ [Next]_vars
           \/ sealed' = sealed + 1 /\ UNCHANGED <<chain, mempool, difficulty, sent, clock, altered, replaced>>
           \/ \E r \in Runs : addBlock(Home, run[r].block)
<1>1. ASSUME NEW r \in Runs, selectTransactions(r) PROVE UNCHANGED vars
  BY <1>1 DEF selectTransactions, ledger, vars
<1>2. ASSUME NEW r \in Runs, createNewBlock(r)
      PROVE  sealed' = sealed + 1
             /\ UNCHANGED <<chain, mempool, difficulty, sent, clock, altered, replaced>>
  BY <1>2 DEF createNewBlock
<1>3. ASSUME NEW r \in Runs, validateBlock(r) PROVE UNCHANGED vars
  BY <1>3 DEF validateBlock, ledger, vars
<1>4. ASSUME NEW r \in Runs, AddProduced(r)
      PROVE  UNCHANGED vars \/ addBlock(Home, run[r].block)
  BY <1>4 DEF AddProduced, ledger, vars
<1>5. ASSUME NEW r \in Runs, processBlock(r) PROVE UNCHANGED vars
  BY <1>5 DEF processBlock, ledger, vars
<1>6. ASSUME start \/ stop \/ UNCHANGED allVars PROVE UNCHANGED vars
  BY <1>6 DEF start, stop, allVars, ledger, vars
<1>7. ASSUME Elsewhere PROVE Next
  <2>1. ASSUME NEW m \in Nodes, replaceChain(Home, chain[m])
        PROVE  \E k \in 1 .. Len(chain[m]) : replaceChain(Home, SubSeq(chain[m], 1, k))
    <3>1. chain[m] \in Seq(TheBlocks) /\ Len(chain[m]) \in 1 .. Len(chain[m])
      BY LatestType
    <3> QED BY <2>1, <3>1, WholeChain
  <2> QED BY <1>7, <2>1, ProductionAssumption DEF Elsewhere, Next
<1> QED BY <1>1, <1>2, <1>3, <1>4, <1>5, <1>6, <1>7 DEF ProductionNext, Produce

LEMMA ProductionInitial ==
    ASSUME ProductionInit PROVE ProductionInv
<1>1. Init BY DEF ProductionInit
<1>2. Fresh \in [phase : Phases, selection : SUBSET Txs, block : TheBlocks]
  BY BlockType DEF Fresh, NoBlock, Phases
<1>3. RunsOK BY <1>2 DEF ProductionInit, RunsOK
<1>4. SelectedNotLost BY DEF ProductionInit, SelectedNotLost, Fresh
<1> QED BY <1>1, <1>3, <1>4, TypeInit, LinkedInit DEF ProductionInv

LEMMA RunsStep ==
    ASSUME TypeOK, RunsOK, [ProductionNext]_allVars PROVE RunsOK'
<1> USE DEF RunsOK, Phases
<1>1. ASSUME NEW r \in Runs, selectTransactions(r) PROVE RunsOK'
  <2>1. PICK s \in SUBSET mempool[Home] :
           run' = [run EXCEPT ![r].phase = "selected", ![r].selection = s]
    BY <1>1 DEF selectTransactions
  <2>2. s \in SUBSET Txs BY ProductionAssumption DEF TypeOK
  <2> QED BY <2>1, <2>2
<1>2. ASSUME NEW r \in Runs, createNewBlock(r) PROVE RunsOK'
  <2> DEFINE b == Block(getLatestBlock(Home).index + 1, clock, run[r].selection,
                        getLatestBlock(Home).hash, sealed + 1)
  <2>1. getLatestBlock(Home).index + 1 \in Nat /\ getLatestBlock(Home).hash \in Int
    BY LatestType, ProductionAssumption DEF TheBlocks
  <2>2. clock \in Nat /\ sealed + 1 \in Int /\ run[r].selection \in SUBSET Txs
    BY DEF TypeOK
  <2>3. b \in TheBlocks BY <2>1, <2>2, BlockType
  <2>4. run' = [run EXCEPT ![r].phase = "created", ![r].block = b]
    BY <1>2 DEF createNewBlock
  <2> HIDE DEF b
  <2> QED BY <2>3, <2>4
<1>3. ASSUME NEW r \in Runs, validateBlock(r) PROVE RunsOK'
  BY <1>3 DEF validateBlock
<1>4. ASSUME NEW r \in Runs, AddProduced(r) PROVE RunsOK'
  BY <1>4 DEF AddProduced
<1>5. ASSUME NEW r \in Runs, processBlock(r) PROVE RunsOK'
  BY <1>5 DEF processBlock
<1>6. ASSUME start \/ stop \/ Elsewhere \/ UNCHANGED allVars PROVE RunsOK'
  BY <1>6 DEF start, stop, Elsewhere, allVars
<1> QED BY <1>1, <1>2, <1>3, <1>4, <1>5, <1>6 DEF ProductionNext, Produce

LEMMA ProductionTypes ==
    ASSUME TypeOK, RunsOK, [ProductionNext]_allVars PROVE TypeOK'
<1>1. ASSUME [Next]_vars PROVE TypeOK' BY <1>1, TypeStep
<1>2. ASSUME sealed' = sealed + 1,
             UNCHANGED <<chain, mempool, difficulty, sent, clock, altered, replaced>>
      PROVE  TypeOK'
  BY <1>2 DEF TypeOK
<1>3. ASSUME NEW r \in Runs, addBlock(Home, run[r].block) PROVE TypeOK'
  <2>1. run[r].block \in TheBlocks BY DEF RunsOK
  <2> QED BY <1>3, <2>1, TypeAppend, ProductionAssumption
<1> QED BY <1>1, <1>2, <1>3, LedgerUnderProducer

LEMMA ProductionLinks ==
    ASSUME TypeOK, RunsOK, ChainLinked, [ProductionNext]_allVars PROVE ChainLinked'
<1>1. ASSUME [Next]_vars PROVE ChainLinked' BY <1>1, LinkedStep
<1>2. ASSUME chain' = chain PROVE ChainLinked' BY <1>2 DEF ChainLinked
<1>3. ASSUME NEW r \in Runs, addBlock(Home, run[r].block) PROVE ChainLinked'
  <2> DEFINE b == run[r].block
  <2>1. b \in TheBlocks BY DEF RunsOK
  <2>2. Home \in Nodes BY ProductionAssumption
  <2>3. isValid(b, getLatestBlock(Home)) /\ chain' = [chain EXCEPT ![Home] = Append(chain[Home], b)]
    BY <1>3 DEF addBlock
  <2> HIDE DEF b
  <2>4. /\ Len(chain[Home]) \in 1 .. Len(chain[Home]) /\ Len(chain[Home]) >= Len(chain[Home])
        /\ getLatestBlock(Home) = chain[Home][Len(chain[Home])]
        /\ Append(chain[Home], b) = Append(SubSeq(chain[Home], 1, Len(chain[Home])), b)
    BY <2>2, AppendGrows, LatestType
  <2>5. GrownFrom(Home, Home, Len(chain[Home]), b) BY <2>3, <2>4, Zenon DEF GrownFrom
  <2> QED BY <2>1, <2>2, <2>4, <2>5, LinkedAppend
<1> QED BY <1>1, <1>2, <1>3, LedgerUnderProducer

\* Unless a chain is taken over, what is pending or confirmed on a node stays one
\* of the two.
LEMMA PendingOrConfirmed ==
    ASSUME TypeOK, RunsOK, [ProductionNext]_allVars, replaced' = 0
    PROVE  /\ replaced = 0
           /\ \A n \in Nodes : mempool[n] \cup Confirmed(n)
                                  \subseteq (mempool[n] \cup Confirmed(n))'
<1>1. ASSUME NEW n \in Nodes, NEW b \in TheBlocks, addBlock(n, b)
      PROVE  /\ replaced = 0
             /\ \A q \in Nodes : mempool[q] \cup Confirmed(q)
                                    \subseteq (mempool[q] \cup Confirmed(q))'
  <2>1. replaced = 0 BY <1>1 DEF addBlock
  <2> QED BY <1>1, <2>1, KeptByAppend
<1>2. ASSUME [Next]_vars, ~ \E n \in Nodes : \E b \in sent : addBlock(n, b)
      PROVE  replaced = 0 /\ chain' = chain
  <2>1. ASSUME NEW n \in Nodes, NEW c, replaceChain(n, c) PROVE FALSE
    <3>1. replaced' = replaced + 1 /\ replaced \in Nat BY <2>1 DEF replaceChain, TypeOK
    <3> QED BY <3>1
  <2>2. ASSUME NEW n \in Nodes, NEW t \in Txs, addTransaction(n, t)
        PROVE  replaced = 0 /\ chain' = chain
    BY <2>2 DEF addTransaction
  <2>3. ASSUME NEW n \in Nodes, NEW s \in SUBSET mempool[n], SealBlock(n, s)
        PROVE  replaced = 0 /\ chain' = chain
    BY <2>3 DEF SealBlock
  <2>4. ASSUME NEW b \in sent, NEW t \in Txs, AlterBlock(b, t)
        PROVE  replaced = 0 /\ chain' = chain
    BY <2>4 DEF AlterBlock
  <2>5. Tick \/ UNCHANGED vars => replaced = 0 /\ chain' = chain BY DEF Tick, vars
  <2> QED BY <1>2, <2>1, <2>2, <2>3, <2>4, <2>5, Zenon DEF Next
<1>3. CASE [Next]_vars
  <2>1. \A n \in Nodes : mempool[n] \subseteq mempool'[n] \cup Confirmed(n)'
    BY <1>3, NotLostStep
  <2>2. CASE \E n \in Nodes : \E b \in sent : addBlock(n, b)
    BY <2>2, <1>1 DEF TypeOK
  <2>3. CASE ~ \E n \in Nodes : \E b \in sent : addBlock(n, b)
    <3>1. replaced = 0 /\ chain' = chain BY <1>2, <1>3, <2>3
    <3>2. \A n \in Nodes : Confirmed(n)' = Confirmed(n) BY <3>1 DEF Confirmed
    <3> QED BY <2>1, <3>1, <3>2
  <2> QED BY <2>2, <2>3
<1>4. CASE UNCHANGED <<chain, mempool, replaced>>
  BY <1>4 DEF Confirmed
<1>5. ASSUME NEW r \in Runs, addBlock(Home, run[r].block)
      PROVE  /\ replaced = 0
             /\ \A q \in Nodes : mempool[q] \cup Confirmed(q)
                                    \subseteq (mempool[q] \cup Confirmed(q))'
  <2>1. run[r].block \in TheBlocks BY DEF RunsOK
  <2> QED BY <1>1, <1>5, <2>1, ProductionAssumption
<1> QED BY <1>3, <1>4, <1>5, LedgerUnderProducer

\* A run selects what is pending, and its selection is not touched after that.
LEMMA SelectionStep ==
    ASSUME TypeOK, RunsOK, SelectedNotLost, [ProductionNext]_allVars
    PROVE  SelectedNotLost'
<1> SUFFICES ASSUME replaced' = 0, NEW q \in Runs
             PROVE  run'[q].selection \subseteq (mempool[Home] \cup Confirmed(Home))'
  BY DEF SelectedNotLost
<1>1. /\ replaced = 0
      /\ mempool[Home] \cup Confirmed(Home) \subseteq (mempool[Home] \cup Confirmed(Home))'
  BY PendingOrConfirmed, ProductionAssumption
<1>2. run[q].selection \subseteq mempool[Home] \cup Confirmed(Home)
  BY <1>1 DEF SelectedNotLost
<1>3. CASE run'[q].selection = run[q].selection BY <1>1, <1>2, <1>3
<1>4. ASSUME NEW r \in Runs, selectTransactions(r)
      PROVE  \/ run'[q].selection = run[q].selection
             \/ run'[q].selection \subseteq mempool[Home]
  <2>1. PICK s \in SUBSET mempool[Home] :
           run' = [run EXCEPT ![r].phase = "selected", ![r].selection = s]
    BY <1>4 DEF selectTransactions
  <2> QED BY <2>1 DEF RunsOK
<1>5. ASSUME NEW r \in Runs, Produce(r)
      PROVE  run'[q].selection = run[q].selection
  BY <1>5 DEF RunsOK, Produce, createNewBlock, validateBlock, AddProduced, processBlock
<1>6. ASSUME start \/ stop \/ Elsewhere \/ UNCHANGED allVars
      PROVE  run'[q].selection = run[q].selection
  BY <1>6 DEF start, stop, Elsewhere, allVars
<1>7. CASE run'[q].selection \subseteq mempool[Home] BY <1>1, <1>7
<1> QED BY <1>3, <1>4, <1>5, <1>6, <1>7 DEF ProductionNext

LEMMA ProductionStep ==
    ASSUME ProductionInv, [ProductionNext]_allVars PROVE ProductionInv'
BY ProductionTypes, RunsStep, ProductionLinks, SelectionStep DEF ProductionInv

\* However many runs of the producer overlap, each with a block built on what was
\* the latest one then, and whatever reaches its node in between, the chain stays
\* linked (produceBlock, addBlock).
THEOREM ProducedLinked == ProductionSpec => []ChainLinked
<1>1. ProductionInit => ProductionInv BY ProductionInitial
<1>2. ProductionInv /\ [ProductionNext]_allVars => ProductionInv' BY ProductionStep
<1>3. ProductionInv => ChainLinked BY DEF ProductionInv
<1> QED BY <1>1, <1>2, <1>3, PTL DEF ProductionSpec

\* What a run selected is pending or confirmed on its node from then on, whether
\* its block was added, refused or never built, until a chain is taken over
\* (selectTransactions, produceBlock, addBlock).
THEOREM SelectionKept == ProductionSpec => []SelectedNotLost
<1>1. ProductionInit => ProductionInv BY ProductionInitial
<1>2. ProductionInv /\ [ProductionNext]_allVars => ProductionInv' BY ProductionStep
<1>3. ProductionInv => SelectedNotLost BY DEF ProductionInv
<1> QED BY <1>1, <1>2, <1>3, PTL DEF ProductionSpec
=============================================================================
