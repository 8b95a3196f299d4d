---------------------------- MODULE LightClient ----------------------------
(***************************************************************************)
(* core/light_client.js and core/merkle.js: headers, taken in any order    *)
(* and kept by height, and the tree over a list of data with its proofs.   *)
(*                                                                         *)
(* A header is told by its hash, a number given out once: that SHA-256     *)
(* does not collide is assumed.  `sealed` says whether the hash it carries *)
(* is that of its content; the checks of the types of its fields count as  *)
(* part of that.  `replaced` is kept for the property: the heights whose   *)
(* header took the place of another.                                       *)
(*                                                                         *)
(* A hash in a tree is the value that was hashed: the datum of a leaf, the *)
(* pair of hashes of a node.  A proof is the list of steps { left } or     *)
(* { right }.                                                              *)
(***************************************************************************)
EXTENDS Integers, Sequences, SequencesExt

CONSTANTS
    Timestamps,   \* timestamps of headers
    MaxHeight,    \* bound on the height of a header
    MaxHeaders,   \* bound on the headers there are
    Data,         \* data, as strings
    MaxLeaves     \* bound on the data of a tree

ASSUME LightClientAssumption ==
    /\ Timestamps \subseteq Nat /\ MaxHeight \in Nat /\ MaxHeaders \in Nat
    /\ MaxLeaves \in Nat \ {0}

VARIABLES
    headers,            \* the headers there are, by hash
    blockHeaders,       \* the header at each height, 0 for none
    currentBlockHeight,
    replaced,           \* heights that had another header before
    data                \* this.data of the tree; tree and root follow from it

lightClientVars == <<headers, blockHeaders, currentBlockHeight, replaced>>

\* With options.genesisBlock, whose hash nobody checks, or without.
LightClientInit ==
    /\ \E g \in {0, 1} : blockHeaders = [h \in 0 .. MaxHeight |-> IF h = 0 THEN g ELSE 0]
    /\ headers = <<[index |-> 0, previousHash |-> 0, timestamp |-> 0, sealed |-> FALSE]>>
    /\ currentBlockHeight = 0 /\ replaced = {}

\* Somebody makes a header, for any height and on any other.
MakeHeader(i, p, t, s) ==
    /\ Len(headers) < MaxHeaders
    /\ headers' = Append(headers,
           [index |-> i, previousHash |-> p, timestamp |-> t, sealed |-> s])
    /\ UNCHANGED <<blockHeaders, currentBlockHeight, replaced>>

\* Mutant: a header may come before the one it follows.
verifyBlockHeader_Early(n) ==
    LET header == headers[n]
        below  == blockHeaders[header.index - 1]
    IN /\ header.sealed
       /\ header.index > 0 /\ below # 0 =>
             /\ header.previousHash = below
             /\ header.timestamp > headers[below].timestamp

\* Only the header below is compared, not the one above or the one replaced; a
\* header for height 0 follows nothing.
verifyBlockHeader(n) ==
    LET header == headers[n]
        below  == blockHeaders[header.index - 1]
    IN /\ header.sealed
       /\ header.index > 0 =>
             /\ below # 0
             /\ header.previousHash = below
             /\ header.timestamp > headers[below].timestamp

processBlockHeader(n) ==
    LET h == headers[n].index IN
    /\ verifyBlockHeader(n)
    /\ blockHeaders' = [blockHeaders EXCEPT ![h] = n]
    /\ currentBlockHeight' = IF h > currentBlockHeight THEN h ELSE currentBlockHeight
    /\ replaced' = IF blockHeaders[h] \in {0, n} THEN replaced ELSE replaced \cup {h}
    /\ UNCHANGED headers

\* What is wrong at a height, as verifySync lists it.
SyncError(i) ==
    \/ blockHeaders[i] = 0 \/ blockHeaders[i - 1] = 0
    \/ headers[blockHeaders[i]].previousHash # blockHeaders[i - 1]
    \/ headers[blockHeaders[i]].timestamp <= headers[blockHeaders[i - 1]].timestamp

verifySync == \A i \in 1 .. currentBlockHeight : ~SyncError(i)

LightClientNext ==
    \/ \E i \in 0 .. MaxHeight, p \in 0 .. Len(headers), t \in Timestamps, s \in BOOLEAN :
          MakeHeader(i, p, t, s)
    \/ \E n \in DOMAIN headers : processBlockHeader(n)

LightClientSpec == LightClientInit /\ [][LightClientNext]_lightClientVars

-----------------------------------------------------------------------------
(* The Merkle tree *)

Leaf(d) == [datum |-> d]
Node(l, r) == [left |-> l, right |-> r]

\* The level above: the last hash of an odd level is paired with itself.
NextLevel(level) ==
    [i \in 1 .. (Len(level) + 1) \div 2 |->
        Node(level[2 * i - 1], IF 2 * i <= Len(level) THEN level[2 * i] ELSE level[2 * i - 1])]

\* The levels of the tree from the leaves up, for the few there can be.
Levels(d) ==
    LET level[k \in 1 .. MaxLeaves] ==
            IF k = 1 THEN [i \in DOMAIN d |-> Leaf(d[i])] ELSE NextLevel(level[k - 1])
        top == CHOOSE k \in 1 .. MaxLeaves :
                   Len(level[k]) = 1 /\ \A j \in 1 .. k - 1 : Len(level[j]) > 1
    IN [k \in 1 .. top |-> level[k]]

root == Last(Levels(data))[1]

\* The hash beside the place `at` of a level, if there is one.
Sibling(at) == IF at % 2 = 0 THEN at + 1 ELSE at - 1

Step(level, at, side) ==
    IF Sibling(at) < Len(level) THEN <<[side |-> side, hash |-> level[Sibling(at) + 1]]>> ELSE <<>>

\* Mutant: the sibling is always taken for the right one.
ProofOf_Right(index) ==
    FoldLeft(LAMBDA acc, level : [proof |-> acc.proof \o Step(level, acc.at, "right"),
                                  at |-> acc.at \div 2],
             [proof |-> <<>>, at |-> index], Front(Levels(data))).proof

\* The proof for an index counted from 0: one step for every level with a
\* sibling; where the last hash was paired with itself there is none.
ProofOf(index) ==
    FoldLeft(LAMBDA acc, level :
                 [proof |-> acc.proof
                                \o Step(level, acc.at, IF acc.at % 2 = 0 THEN "right" ELSE "left"),
                  at |-> acc.at \div 2],
             [proof |-> <<>>, at |-> index], Front(Levels(data))).proof

\* Of data that occur twice the first one is found.
IndexOf(d) == CHOOSE i \in 0 .. Len(data) - 1 :
                  data[i + 1] = d /\ \A j \in 1 .. i : data[j] # d

getProof(d) == ProofOf(IndexOf(d))

\* The hash that a proof makes of a datum, step by step.
Climbed(d, proof) ==
    LET current[k \in 0 .. Len(proof)] ==
            IF k = 0 THEN Leaf(d)
            ELSE IF proof[k].side = "left" THEN Node(proof[k].hash, current[k - 1])
            ELSE Node(current[k - 1], proof[k].hash)
    IN current[Len(proof)]

verify(d, proof) == Climbed(d, proof) = root

MerkleInit == data = <<>>
add(d) == Len(data) < MaxLeaves /\ data' = Append(data, d)
clear == data # <<>> /\ data' = <<>>
MerkleNext == (\E d \in Data : add(d)) \/ clear
MerkleSpec == MerkleInit /\ [][MerkleNext]_data

-----------------------------------------------------------------------------
(* Properties *)

\* The client has a header at every height up to its own, in whatever order they
\* came, and finds itself out of sync at a height only if the header below it was
\* replaced after it was taken (processBlockHeader, verifySync).
OutOfSyncWhereReplaced ==
    \A i \in 1 .. currentBlockHeight :
        /\ blockHeaders[i] # 0
        /\ SyncError(i) => i - 1 \in replaced

\* Where the way up from an index is on each level.
Position(index) ==
    LET at[k \in 1 .. MaxLeaves] == IF k = 1 THEN index ELSE at[k - 1] \div 2 IN at

\* The last hash of an odd level, on the way from a leaf to the root.
Unpaired(index) ==
    LET tree == Levels(data)
    IN \E k \in 1 .. Len(tree) - 1 :
           Position(index)[k] = Len(tree[k]) - 1 /\ Len(tree[k]) % 2 = 1

\* A proof shows that its datum is in the tree, and shows it of no other datum:
\* exactly, when no hash on the way up was paired with itself (getProof, verify).
ProofsShowTheirDatum ==
    \A i \in DOMAIN data :
        LET proof == getProof(data[i])
        IN /\ verify(data[i], proof) <=> ~Unpaired(IndexOf(data[i]))
           /\ \A d \in Data \ {data[i]} : ~verify(d, proof)
=============================================================================
