--------------------------- MODULE FinalityProofs ---------------------------
(***************************************************************************)
(* What holds of Finality for every number of voters, epochs, checkpoints  *)
(* and calls in flight, and for every gadget and threshold.                *)
(***************************************************************************)
EXTENDS Finality, SequenceTheorems, FiniteSetTheorems, Functions, TLAPS

\* The checkpoint the map holds for a block number is one for that number, and
\* the votes there were cast for it.
Placed ==
    /\ \A e \in Epochs : checkpoints[e] # 0 => objects[checkpoints[e]].epoch = e
    /\ \A e \in Epochs : \A b \in blockVotes[e] : checkpoints[e] # 0 => b.on = checkpoints[e]
    /\ \A e \in Epochs : IsFiniteSet(blockVotes[e])

\* A justified checkpoint that has been replaced is the justified one only as
\* long as its replacement lacks the votes.
Replaced ==
    /\ checkpoints[EpochOf(justified)] # 0
    /\ changes = 0 /\ checkpoints[EpochOf(justified)] # justified
          => VotesFor(EpochOf(justified)) < requiredVotes

\* A step changes no epoch of a checkpoint, and takes none away.
Grows ==
    /\ Len(objects) <= Len(objects')
    /\ \A k \in 1 .. Len(objects) : objects'[k].epoch = objects[k].epoch

LEMMA InitTypes == Init => TypeOK
<1> SUFFICES ASSUME Init PROVE TypeOK
    OBVIOUS
<1>1. objects = <<[Checkpoint(0) EXCEPT !.finalized = TRUE]>>
    BY DEF Init
<1>2. 0 \in Epochs
    BY FinalityAssumption DEF Epochs
<1>3. /\ Len(objects) = 1
      /\ objects \in Seq(CheckpointObjects)
    <2> DEFINE g == [Checkpoint(0) EXCEPT !.finalized = TRUE]
    <2>1. g \in CheckpointObjects
        BY <1>2 DEF Checkpoint, CheckpointObjects
    <2>2. objects = <<g>>
        BY <1>1
    <2> HIDE DEF g
    <2> QED BY <2>1, <2>2
<1>4. IsFiniteSet(validators)
    <2>1. IsFiniteSet(InitialValidators)
        BY FinalityAssumption, FS_Subset
    <2>2. validators = {Validator(v, 0) : v \in InitialValidators}
        BY DEF Init
    <2> DEFINE f == [v \in InitialValidators |-> Validator(v, 0)]
    <2>3. f \in Surjection(InitialValidators, validators)
        BY <2>2 DEF Surjection
    <2> QED BY <2>1, <2>3, FS_Surjection
<1>5. validators \subseteq [id : Voters, added : Nat]
    BY FinalityAssumption DEF Init, Validator
<1> QED BY <1>2, <1>3, <1>4, <1>5 DEF Init, TypeOK, Genesis

LEMMA FinalityTypes ==
    ASSUME TypeOK, attemptFinality
    PROVE  /\ objects' \in Seq(CheckpointObjects)
           /\ Len(objects') = Len(objects)
           /\ finalized' \in 1 .. Len(objects)
           /\ Grows
<1>1. CASE \E k \in 1 .. Len(objects) : Finalizable(k)
    <2>1. PICK k \in 1 .. Len(objects) :
             /\ objects' = [objects EXCEPT ![k].finalized = TRUE]
             /\ finalized' = k
        BY <1>1 DEF attemptFinality
    <2>2. /\ [objects[k] EXCEPT !.finalized = TRUE] \in CheckpointObjects
          /\ [objects[k] EXCEPT !.finalized = TRUE].epoch = objects[k].epoch
        <3>1. objects[k] \in CheckpointObjects
            BY ElementOfSeq DEF TypeOK
        <3> QED BY <3>1 DEF CheckpointObjects
    <2>3. objects' = [objects EXCEPT ![k] = [objects[k] EXCEPT !.finalized = TRUE]]
        BY <2>1
    <2> QED BY <2>1, <2>2, <2>3, ExceptSeq DEF TypeOK, Grows
<1>2. CASE ~ \E k \in 1 .. Len(objects) : Finalizable(k)
    BY <1>2 DEF attemptFinality, TypeOK, Grows
<1> QED BY <1>1, <1>2

LEMMA JustificationTypes ==
    ASSUME TypeOK, NEW e \in Epochs, attemptCheckpointJustification(e)
    PROVE  /\ objects' \in Seq(CheckpointObjects)
           /\ Len(objects') = Len(objects)
           /\ justified' \in 1 .. Len(objects)
           /\ Grows
<1>1. CASE checkpoints[e] # 0 /\ Cardinality(blockVotes'[e]) >= requiredVotes
    <2>1. /\ objects' = [objects EXCEPT ![checkpoints[e]].justified = TRUE]
          /\ justified' = checkpoints[e]
        BY <1>1 DEF attemptCheckpointJustification
    <2>2. checkpoints[e] \in 1 .. Len(objects)
        BY <1>1 DEF TypeOK
    <2> DEFINE new == [objects[checkpoints[e]] EXCEPT !.justified = TRUE]
    <2>3. new \in CheckpointObjects /\ new.epoch = objects[checkpoints[e]].epoch
        <3>1. objects[checkpoints[e]] \in CheckpointObjects
            BY <2>2, ElementOfSeq DEF TypeOK
        <3> QED BY <3>1 DEF CheckpointObjects
    <2>4. objects' = [objects EXCEPT ![checkpoints[e]] = new]
        BY <2>1
    <2>5. /\ objects' \in Seq(CheckpointObjects)
          /\ Len(objects') = Len(objects)
          /\ \A j \in 1 .. Len(objects) :
                objects'[j] = IF j = checkpoints[e] THEN new ELSE objects[j]
        <3> HIDE DEF new
        <3> QED BY <2>2, <2>3, <2>4, ExceptSeq DEF TypeOK
    <2>6. Grows
        <3> HIDE DEF new
        <3> QED BY <2>3, <2>5 DEF Grows, TypeOK
    <2> QED BY <2>1, <2>2, <2>5, <2>6
<1>2. CASE ~(checkpoints[e] # 0 /\ Cardinality(blockVotes'[e]) >= requiredVotes)
    BY <1>2 DEF attemptCheckpointJustification, TypeOK, Grows
<1> QED BY <1>1, <1>2

\* What each kind of step leaves of the types, and that checkpoints only grow.
LEMMA NextTypes == TypeOK /\ [Next]_vars => TypeOK' /\ Grows
<1> SUFFICES ASSUME TypeOK, [Next]_vars PROVE TypeOK' /\ Grows
    OBVIOUS
<1>1. ASSUME NEW v \in Voters, addValidator(v) PROVE TypeOK' /\ Grows
    <2>1. IsFiniteSet(validators')
        BY <1>1, FS_AddElement DEF addValidator, TypeOK
    <2> QED BY <1>1, <2>1 DEF addValidator, Validator, TypeOK, Grows
<1>2. ASSUME NEW v \in Voters, removeValidator(v) PROVE TypeOK' /\ Grows
    <2>1. IsFiniteSet(validators')
        BY <1>2, FS_Subset DEF removeValidator, TypeOK
    <2> QED BY <1>2, <2>1 DEF removeValidator, TypeOK, Grows
<1>3. ASSUME NEW e \in Epochs, createCheckpoint(e)
      PROVE  TypeOK' /\ Grows
    <2>1. Checkpoint(e) \in CheckpointObjects
        BY DEF Checkpoint, CheckpointObjects
    <2>2. /\ objects' \in Seq(CheckpointObjects)
          /\ Len(objects') = Len(objects) + 1
          /\ \A k \in 1 .. Len(objects) : objects'[k] = objects[k]
        BY <1>3, <2>1 DEF createCheckpoint, TypeOK
    <2>3. checkpoints' \in [Epochs -> 0 .. Len(objects')]
        BY <1>3, <2>2 DEF createCheckpoint, TypeOK
    <2> QED BY <1>3, <2>2, <2>3 DEF createCheckpoint, TypeOK, Grows
<1>4. ASSUME NEW v \in Voters, NEW e \in Epochs, recordVote(v, e)
      PROVE  TypeOK' /\ Grows
    <2>1. blockVotes' \in [Epochs -> SUBSET [voter : Voters, on : Nat]]
        BY <1>4 DEF recordVote, TypeOK
    <2> QED BY <1>4, <2>1, JustificationTypes DEF recordVote, TypeOK
<1>5. CASE Resume
    BY <1>5, FinalityTypes DEF Resume, TypeOK
<1>6. CASE recordOtherVote
    BY <1>6, FinalityTypes DEF recordOtherVote, TypeOK
<1>7. CASE UNCHANGED vars
    BY <1>7 DEF vars, TypeOK, Grows
<1> QED BY <1>1, <1>2, <1>3, <1>4, <1>5, <1>6, <1>7 DEF Next, Epochs, handleFork

\* TypeOK is an invariant: nothing is ever justified or final that is not one
\* of the checkpoints made (attemptCheckpointJustification, attemptFinality).
THEOREM TypeCorrect == Spec => []TypeOK
<1> QED BY InitTypes, NextTypes, PTL DEF Spec

-----------------------------------------------------------------------------
(* Checkpoints stay where they were made *)

LEMMA EpochTypes ==
    ASSUME TypeOK, NEW k \in 1 .. Len(objects)
    PROVE  EpochOf(k) \in Epochs /\ EpochOf(k) \in Nat
<1>1. objects[k] \in CheckpointObjects
    BY ElementOfSeq DEF TypeOK
<1> QED BY <1>1 DEF CheckpointObjects, EpochOf, Epochs

LEMMA InitPlaced == Init => Placed
<1> SUFFICES ASSUME Init PROVE Placed
    OBVIOUS
<1>1. objects = <<[Checkpoint(0) EXCEPT !.finalized = TRUE]>>
    BY DEF Init
<1>2. objects[1].epoch = 0
    BY <1>1 DEF Checkpoint
<1> QED BY <1>2, FS_EmptySet DEF Init, Placed, Genesis

\* A replacement comes with the votes for its block number cleared, and a vote
\* notes the checkpoint it found.
LEMMA NextPlaced == TypeOK /\ Placed /\ [Next]_vars => Placed'
<1> SUFFICES ASSUME TypeOK, Placed, [Next]_vars PROVE Placed'
    OBVIOUS
<1>1. TypeOK' /\ Grows
    BY NextTypes
<1>2. ASSUME checkpoints' = checkpoints, blockVotes' = blockVotes PROVE Placed'
    BY <1>1, <1>2 DEF Placed, Grows, TypeOK
<1>3. ASSUME NEW d \in Epochs, createCheckpoint(d) PROVE Placed'
    <2>1. /\ checkpoints' = [checkpoints EXCEPT ![d] = Len(objects) + 1]
          /\ blockVotes' = [blockVotes EXCEPT ![d] = {}]
          /\ objects' = Append(objects, Checkpoint(d))
        BY <1>3 DEF createCheckpoint
    <2>2. objects'[Len(objects) + 1].epoch = d
        BY <2>1 DEF TypeOK, Checkpoint
    <2>3. \A e \in Epochs : IsFiniteSet(blockVotes'[e])
        BY <2>1, FS_EmptySet DEF Placed, TypeOK
    <2> QED BY <1>1, <2>1, <2>2, <2>3 DEF Placed, Grows, TypeOK
<1>4. ASSUME NEW v \in Voters, NEW d \in Epochs, recordVote(v, d) PROVE Placed'
    <2>1. /\ checkpoints' = checkpoints
          /\ blockVotes' = [blockVotes EXCEPT
                 ![d] = {b \in @ : b.voter # v} \cup {[voter |-> v, on |-> checkpoints[d]]}]
        BY <1>4 DEF recordVote
    <2>2. \A e \in Epochs : \A b \in blockVotes'[e] :
             b \in blockVotes[e] \/ b.on = checkpoints[e]
        BY <2>1 DEF TypeOK
    <2>3. \A e \in Epochs : \A b \in blockVotes'[e] : checkpoints[e] # 0 => b.on = checkpoints[e]
        BY <2>2 DEF Placed
    <2>4. \A e \in Epochs : checkpoints[e] # 0 => objects'[checkpoints[e]].epoch = e
        <3>1. TAKE e \in Epochs
        <3>2. HAVE checkpoints[e] # 0
        <3>3. checkpoints[e] \in 1 .. Len(objects)
            BY <3>2 DEF TypeOK
        <3> QED BY <1>1, <3>2, <3>3 DEF Placed, Grows
    <2>5. IsFiniteSet(blockVotes'[d])
        <3>1. IsFiniteSet({b \in blockVotes[d] : b.voter # v})
            BY FS_Subset DEF Placed
        <3> QED BY <2>1, <3>1, FS_AddElement DEF TypeOK
    <2>6. \A e \in Epochs : IsFiniteSet(blockVotes'[e])
        BY <2>1, <2>5 DEF Placed, TypeOK
    <2> QED BY <2>1, <2>3, <2>4, <2>6 DEF Placed
<1>5. ASSUME NEW v \in Voters, addValidator(v) \/ removeValidator(v) PROVE Placed'
    BY <1>2, <1>5 DEF addValidator, removeValidator
<1>6. CASE Resume \/ recordOtherVote
    BY <1>2, <1>6 DEF Resume, recordOtherVote
<1>7. CASE UNCHANGED vars
    BY <1>2, <1>7 DEF vars
<1> QED BY <1>3, <1>4, <1>5, <1>6, <1>7 DEF Next, Epochs, handleFork

\* Every step that finalizes goes through attemptFinality, and leaves the votes,
\* the map and the validators alone.
LEMMA OnlyAttemptFinality ==
    ASSUME [Next]_vars, finalized' # finalized
    PROVE  /\ \E k \in 1 .. Len(objects) : Finalizable(k) /\ finalized' = k
           /\ UNCHANGED <<validators, blockVotes, checkpoints>>
<1>1. Resume \/ recordOtherVote
    BY DEF Next, vars, addValidator, removeValidator, createCheckpoint, handleFork, recordVote
<1>2. attemptFinality
    BY <1>1 DEF Resume, recordOtherVote
<1> QED BY <1>1, <1>2 DEF attemptFinality, Resume, recordOtherVote

-----------------------------------------------------------------------------
(* The finalized block number *)

LEMMA NeverDropsStep ==
    ASSUME TypeOK, Placed, [Next]_vars
    PROVE  EpochOf(finalized)' >= EpochOf(finalized)
<1>1. Grows /\ TypeOK'
    BY NextTypes
<1>2. CASE finalized' = finalized
    BY <1>1, <1>2, EpochTypes DEF Grows, EpochOf, TypeOK
<1>3. CASE finalized' # finalized
    <2>1. PICK k \in 1 .. Len(objects) : Finalizable(k) /\ finalized' = k
        BY <1>3, OnlyAttemptFinality
    <2>2. EpochOf(finalized)' = EpochOf(k)
        BY <1>1, <2>1 DEF Grows, EpochOf
    <2>3. /\ EpochOf(justified) \in Epochs /\ EpochOf(finalized) \in Nat
          /\ EpochOf(justified) > EpochOf(finalized)
        BY <2>1, EpochTypes DEF Finalizable, TypeOK
    <2>4. CASE attemptPBFTFinality(k)
        BY <2>2, <2>3, <2>4 DEF attemptPBFTFinality, Epochs
    <2>5. CASE attemptCasperFFGFinality(k)
        <3>1. EpochOf(justified) - 1 \in Epochs
            BY <2>3, FinalityAssumption DEF Epochs
        <3>2. EpochOf(k) = EpochOf(justified) - 1
            BY <2>5, <3>1 DEF attemptCasperFFGFinality, Placed, EpochOf
        <3> QED BY <2>2, <2>3, <3>2 DEF Epochs
    <2> QED BY <2>1, <2>4, <2>5 DEF Finalizable
<1> QED BY <1>2, <1>3

\* The finalized block number never drops, though the justified one may
\* (attemptFinality behind the comparison in processVotes).
THEOREM NeverDrops == Spec => FinalizedNeverDrops
<1>1. TypeOK /\ Placed /\ [Next]_vars => [EpochOf(finalized)' >= EpochOf(finalized)]_vars
    BY NeverDropsStep
<1> QED BY <1>1, InitTypes, NextTypes, InitPlaced, NextPlaced, PTL
        DEF Spec, FinalizedNeverDrops

-----------------------------------------------------------------------------
(* A checkpoint becomes final by its own votes *)

LEMMA QuorumTypes ==
    ASSUME TypeOK
    PROVE  requiredVotes \in Nat \ {0} /\ requiredFinalityVotes \in Nat \ {0}
<1>1. Cardinality(validators) \in Nat
    BY FS_CardinalityType DEF TypeOK
<1>2. /\ Cardinality(validators) * JustificationThreshold \in Nat
      /\ Cardinality(validators) * FinalityThreshold \in Nat
    BY <1>1, FinalityAssumption
<1>3. \A x \in Nat : (x \div 100) + 1 \in Nat \ {0}
    OBVIOUS
<1> QED BY <1>2, <1>3 DEF requiredVotes, requiredFinalityVotes

\* With thresholds in order, what finalizes also justifies.
LEMMA QuorumOrder ==
    ASSUME TypeOK, JustificationThreshold <= FinalityThreshold
    PROVE  requiredVotes <= requiredFinalityVotes
<1>1. Cardinality(validators) \in Nat
    BY FS_CardinalityType DEF TypeOK
<1>2. \A n, a, b \in Nat : a <= b => n * a <= n * b
    OBVIOUS
<1>3. \A x, y \in Nat : x <= y => (x \div 100) + 1 <= (y \div 100) + 1
    OBVIOUS
<1>4. /\ Cardinality(validators) * JustificationThreshold \in Nat
      /\ Cardinality(validators) * FinalityThreshold \in Nat
      /\ Cardinality(validators) * JustificationThreshold
            <= Cardinality(validators) * FinalityThreshold
    BY <1>1, <1>2, FinalityAssumption
<1> QED BY <1>3, <1>4 DEF requiredVotes, requiredFinalityVotes

LEMMA InitReplaced == Init => Replaced
<1> SUFFICES ASSUME Init PROVE Replaced
    OBVIOUS
<1>1. objects = <<[Checkpoint(0) EXCEPT !.finalized = TRUE]>>
    BY DEF Init
<1>2. EpochOf(justified) = 0
    BY <1>1 DEF Checkpoint, EpochOf, Init, Genesis
<1>3. checkpoints[0] = 1 /\ justified = 1
    BY FinalityAssumption DEF Init, Epochs, Genesis
<1> QED BY <1>2, <1>3 DEF Replaced

LEMMA NextReplaced == TypeOK /\ Placed /\ Replaced /\ [Next]_vars => Replaced'
<1> SUFFICES ASSUME TypeOK, Placed, Replaced, [Next]_vars PROVE Replaced'
    OBVIOUS
<1> DEFINE j == EpochOf(justified)
<1>1. TypeOK' /\ Grows
    BY NextTypes
<1>2. j \in Epochs /\ justified \in 1 .. Len(objects)
    BY EpochTypes DEF TypeOK
<1>3. objects'[justified].epoch = j
    BY <1>1, <1>2 DEF Grows, EpochOf
<1>10. Placed'
    BY NextPlaced
<1>4. ASSUME UNCHANGED <<checkpoints, blockVotes, justified, validators, changes>>
      PROVE  Replaced'
    BY <1>3, <1>4 DEF Replaced, EpochOf, VotesFor, requiredVotes
<1>5. ASSUME UNCHANGED <<checkpoints, justified>>, changes' = changes + 1 PROVE Replaced'
    <2>1. changes' # 0
        BY <1>5 DEF TypeOK
    <2> QED BY <1>3, <1>5, <2>1 DEF Replaced, EpochOf
<1>6. ASSUME NEW d \in Epochs, createCheckpoint(d) PROVE Replaced'
    <2>1. /\ checkpoints' = [checkpoints EXCEPT ![d] = Len(objects) + 1]
          /\ blockVotes' = [blockVotes EXCEPT ![d] = {}]
          /\ UNCHANGED <<validators, justified, changes>>
        BY <1>6 DEF createCheckpoint
    <2>2. CASE d = j
        <3>1. checkpoints'[j] = Len(objects) + 1 /\ blockVotes'[j] = {}
            BY <1>2, <2>1, <2>2 DEF TypeOK
        <3>2. Cardinality(blockVotes'[j]) = 0
            BY <3>1, FS_EmptySet
        <3>3. requiredVotes' = requiredVotes /\ requiredVotes \in Nat \ {0}
            BY <2>1, QuorumTypes DEF requiredVotes
        <3>4. Len(objects) + 1 # 0
            BY DEF TypeOK
        <3>5. objects'[justified'].epoch = j
            BY <1>3, <2>1
        <3>6. checkpoints'[j] # 0 /\ Cardinality(blockVotes'[j]) < requiredVotes'
            BY <3>1, <3>2, <3>3, <3>4
        <3> HIDE DEF j
        <3> QED BY <3>5, <3>6 DEF Replaced, EpochOf, VotesFor
    <2>3. CASE d # j
        <3>1. checkpoints'[j] = checkpoints[j] /\ blockVotes'[j] = blockVotes[j]
            BY <1>2, <2>1, <2>3 DEF TypeOK
        <3>2. objects'[justified'].epoch = j /\ requiredVotes' = requiredVotes
            BY <1>3, <2>1 DEF requiredVotes
        <3>3. /\ checkpoints[j] # 0
              /\ changes = 0 /\ checkpoints[j] # justified
                    => Cardinality(blockVotes[j]) < requiredVotes
            BY DEF Replaced, VotesFor
        <3>4. /\ checkpoints'[j] # 0
              /\ changes' = 0 /\ checkpoints'[j] # justified'
                    => Cardinality(blockVotes'[j]) < requiredVotes'
            BY <2>1, <3>1, <3>2, <3>3
        <3> HIDE DEF j
        <3> QED BY <3>2, <3>4 DEF Replaced, EpochOf, VotesFor
    <2> QED BY <2>2, <2>3
<1>7. ASSUME NEW v \in Voters, NEW d \in Epochs, recordVote(v, d) PROVE Replaced'
    <2>1. /\ UNCHANGED <<checkpoints, validators, changes>>
          /\ \A e \in Epochs \ {d} : blockVotes'[e] = blockVotes[e]
          /\ attemptCheckpointJustification(d)
        BY <1>7 DEF recordVote, TypeOK
    <2>2. requiredVotes' = requiredVotes /\ requiredVotes \in Nat
        BY <2>1, QuorumTypes DEF requiredVotes
    <2>3. CASE checkpoints[d] # 0 /\ Cardinality(blockVotes'[d]) >= requiredVotes
        <3>1. justified' = checkpoints[d]
            BY <2>1, <2>3 DEF attemptCheckpointJustification
        <3>2. checkpoints[d] \in 1 .. Len(objects)
            BY <2>3 DEF TypeOK
        <3>3. objects'[checkpoints[d]].epoch = d
            BY <1>1, <2>3, <3>2 DEF Grows, Placed
        <3>4. objects'[justified'].epoch = d
            BY <3>1, <3>3
        <3>5. checkpoints'[d] = justified' /\ checkpoints'[d] # 0
            BY <2>1, <2>3, <3>1
        <3> QED BY <3>4, <3>5 DEF Replaced, EpochOf
    <2>4. CASE ~(checkpoints[d] # 0 /\ Cardinality(blockVotes'[d]) >= requiredVotes)
        <3>1. justified' = justified
            BY <2>1, <2>4 DEF attemptCheckpointJustification
        <3>2. EpochOf(justified)' = j
            BY <1>3, <3>1 DEF EpochOf
        <3>3. CASE j = d
            <4>1. Cardinality(blockVotes'[d]) \in Nat
                BY <1>10, FS_CardinalityType DEF Placed
            <4>2. Cardinality(blockVotes'[j]) < requiredVotes
                BY <2>2, <2>4, <3>3, <4>1 DEF Replaced
            <4> QED BY <2>1, <2>2, <3>1, <3>2, <4>2 DEF Replaced, VotesFor
        <3>4. CASE j # d
            BY <1>2, <2>1, <2>2, <3>1, <3>2, <3>4 DEF Replaced, VotesFor
        <3> QED BY <3>3, <3>4
    <2> QED BY <2>3, <2>4
<1>8. ASSUME NEW v \in Voters, addValidator(v) \/ removeValidator(v) PROVE Replaced'
    BY <1>5, <1>8 DEF addValidator, removeValidator
<1>9. CASE Resume \/ recordOtherVote \/ UNCHANGED vars
    BY <1>4, <1>9 DEF Resume, recordOtherVote, vars
<1> QED BY <1>6, <1>7, <1>8, <1>9 DEF Next, Epochs, handleFork

LEMMA ByItsVotesStep ==
    ASSUME TypeOK, Placed, Replaced, [Next]_vars, finalized' # finalized,
           JustificationThreshold <= FinalityThreshold,
           gadget = "PBFT" => changes = 0
    PROVE  Cardinality({b \in blockVotes[EpochOf(finalized)'] : b.on = finalized'})
              >= requiredFinalityVotes
<1>1. PICK k \in 1 .. Len(objects) : Finalizable(k) /\ finalized' = k
    BY OnlyAttemptFinality
<1> DEFINE e == EpochOf(k)
<1>2. EpochOf(finalized)' = e /\ e \in Epochs
    BY <1>1, NextTypes, EpochTypes DEF Grows, EpochOf
<1>3. VotesFor(e) \in Nat
    BY <1>2, FS_CardinalityType DEF Placed, VotesFor
<1>4. checkpoints[e] = k /\ VotesFor(e) >= requiredFinalityVotes
    <2>1. CASE gadget = "PBFT" /\ attemptPBFTFinality(k)
        <3>1. k = justified /\ VotesFor(e) >= requiredFinalityVotes /\ changes = 0
            BY <2>1 DEF attemptPBFTFinality
        <3>2. /\ requiredVotes <= requiredFinalityVotes
              /\ requiredVotes \in Nat /\ requiredFinalityVotes \in Nat
            BY QuorumOrder, QuorumTypes
        <3>3. ~(VotesFor(e) < requiredVotes)
            BY <1>3, <3>1, <3>2
        <3> QED BY <3>1, <3>3 DEF Replaced
    <2>2. CASE attemptCasperFFGFinality(k)
        <3>1. EpochOf(justified) - 1 \in Epochs
            <4>1. EpochOf(justified) \in Epochs /\ EpochOf(finalized) \in Nat
                BY EpochTypes DEF TypeOK
            <4>2. EpochOf(justified) > EpochOf(finalized)
                BY <1>1 DEF Finalizable
            <4> QED BY <4>1, <4>2, FinalityAssumption DEF Epochs
        <3>2. e = EpochOf(justified) - 1
            BY <2>2, <3>1 DEF attemptCasperFFGFinality, Placed, EpochOf
        <3> QED BY <2>2, <3>2 DEF attemptCasperFFGFinality
    <2> QED BY <1>1, <2>1, <2>2 DEF Finalizable
<1>5. {b \in blockVotes[e] : b.on = k} = blockVotes[e]
    BY <1>1, <1>2, <1>4 DEF Placed
<1> QED BY <1>1, <1>2, <1>4, <1>5 DEF VotesFor

\* When the threshold of justification is not above that of finality, a
\* checkpoint becomes final by a quorum of votes cast for it, and for no other
\* at its block number (createCheckpoint, attemptFinality).
THEOREM ByItsVotes ==
    ASSUME JustificationThreshold <= FinalityThreshold
    PROVE  Spec => FinalizedByItsVotes
<1> DEFINE Step ==
        finalized' # finalized /\ (gadget = "PBFT" => changes = 0) =>
          Cardinality({b \in blockVotes[EpochOf(finalized)'] : b.on = finalized'})
              >= requiredFinalityVotes
<1>1. TypeOK /\ Placed /\ Replaced /\ [Next]_vars => [Step]_vars
    BY ByItsVotesStep
<1>2. FinalizedByItsVotes <=> [][Step]_vars
    BY DEF FinalizedByItsVotes
<1> HIDE DEF Step
<1> QED BY <1>1, <1>2, InitTypes, NextTypes, InitPlaced, NextPlaced, InitReplaced,
           NextReplaced, PTL DEF Spec

-----------------------------------------------------------------------------
(* Nothing is left to finalize *)

LEMMA InitNothingLeft == Init => NothingLeftToFinalize
<1> SUFFICES ASSUME Init PROVE NothingLeftToFinalize
    OBVIOUS
<1>1. justified = finalized /\ EpochOf(finalized) \in Nat
    BY InitTypes, EpochTypes DEF Init, TypeOK
<1>2. ~(EpochOf(justified) > EpochOf(finalized))
    BY <1>1
<1> QED BY <1>2 DEF NothingLeftToFinalize, Finalizable

\* One attempt is enough: what it finalizes makes it the only candidate no more.
LEMMA AttemptLeavesNothing ==
    ASSUME TypeOK, Placed, attemptFinality,
           UNCHANGED <<gadget, validators, checkpoints, blockVotes, justified>>,
           NEW q \in 1 .. Len(objects)
    PROVE  ~Finalizable(q)'
<1>1. Grows
    BY FinalityTypes
<1>2. CASE ~ \E k \in 1 .. Len(objects) : Finalizable(k)
    <2>1. UNCHANGED <<objects, finalized>>
        BY <1>2 DEF attemptFinality
    <2>2. Finalizable(q)' <=> Finalizable(q)
        BY <2>1 DEF Finalizable, EpochOf, attemptPBFTFinality, attemptCasperFFGFinality,
                    VotesFor, requiredFinalityVotes
    <2> QED BY <1>2, <2>2
<1>3. CASE \E k \in 1 .. Len(objects) : Finalizable(k)
    <2>1. PICK k \in 1 .. Len(objects) :
             /\ Finalizable(k)
             /\ objects' = [objects EXCEPT ![k].finalized = TRUE]
             /\ finalized' = k
        BY <1>3 DEF attemptFinality
    <2>2. justified \in 1 .. Len(objects) /\ EpochOf(justified) \in Nat /\ EpochOf(k) \in Nat
        BY EpochTypes DEF TypeOK
    <2>3. objects'[justified].epoch = EpochOf(justified) /\ objects'[k].epoch = EpochOf(k)
        BY <1>1, <2>2 DEF Grows, EpochOf
    <2>4. CASE gadget = "PBFT" /\ k = justified
        BY <2>1, <2>2, <2>3, <2>4 DEF Finalizable, EpochOf
    <2>5. CASE gadget = "Casper FFG" /\ k = checkpoints[EpochOf(justified) - 1]
        <3>1. objects'[k].finalized
            <4>1. objects[k] \in CheckpointObjects
                BY ElementOfSeq DEF TypeOK
            <4> QED BY <2>1, <4>1 DEF TypeOK, CheckpointObjects
        <3>2. Finalizable(q)' => q = k
            BY <2>3, <2>5 DEF Finalizable, attemptCasperFFGFinality, EpochOf
        <3>3. Finalizable(q)' => ~objects'[q].finalized
            BY <2>5 DEF Finalizable, attemptCasperFFGFinality
        <3> QED BY <3>1, <3>2, <3>3
    <2> QED BY <2>1, <2>4, <2>5 DEF Finalizable, attemptPBFTFinality, attemptCasperFFGFinality
<1> QED BY <1>2, <1>3

\* A new checkpoint takes votes away and is not justified itself.
LEMMA CreateLeavesNothing ==
    ASSUME TypeOK, Placed, NEW d \in Epochs, createCheckpoint(d),
           \A k \in 1 .. Len(objects) : ~Finalizable(k)
    PROVE  \A k \in 1 .. Len(objects') : ~Finalizable(k)'
<1> SUFFICES ASSUME NEW k \in 1 .. Len(objects'), Finalizable(k)' PROVE FALSE
    OBVIOUS
<1> DEFINE j == EpochOf(justified)
<1>1. /\ checkpoints' = [checkpoints EXCEPT ![d] = Len(objects) + 1]
      /\ blockVotes' = [blockVotes EXCEPT ![d] = {}]
      /\ objects' = Append(objects, Checkpoint(d))
      /\ UNCHANGED <<gadget, validators, justified, finalized>>
    BY DEF createCheckpoint
<1>2. /\ justified \in 1 .. Len(objects) /\ finalized \in 1 .. Len(objects)
      /\ \A i \in 1 .. Len(objects) : objects'[i] = objects[i]
      /\ objects'[Len(objects) + 1] = Checkpoint(d)
      /\ Len(objects') = Len(objects) + 1
    BY <1>1 DEF TypeOK
<1>3. EpochOf(justified)' = j /\ EpochOf(finalized)' = EpochOf(finalized) /\ j \in Epochs
    BY <1>1, <1>2, EpochTypes DEF EpochOf
<1>4. requiredFinalityVotes' = requiredFinalityVotes /\ requiredFinalityVotes \in Nat \ {0}
    BY <1>1, QuorumTypes DEF requiredFinalityVotes
<1>5. \A e \in Epochs : Cardinality(blockVotes'[e]) >= requiredFinalityVotes
                           => e # d /\ blockVotes'[e] = blockVotes[e]
    BY <1>1, <1>4, FS_EmptySet DEF TypeOK
<1>6. EpochOf(justified) > EpochOf(finalized)
    BY <1>3 DEF Finalizable
<1>7. CASE gadget = "PBFT"
    <2>1. k = justified /\ Cardinality(blockVotes'[j]) >= requiredFinalityVotes
        BY <1>1, <1>3, <1>4, <1>7
           DEF Finalizable, attemptPBFTFinality, VotesFor, EpochOf
    <2>2. Cardinality(blockVotes[j]) >= requiredFinalityVotes
        BY <1>3, <1>5, <2>1
    <2>3. Finalizable(k)
        BY <1>6, <1>7, <2>1, <2>2 DEF Finalizable, attemptPBFTFinality, VotesFor
    <2> QED BY <1>2, <2>1, <2>3
<1>8. CASE gadget = "Casper FFG"
    <2>1. attemptCasperFFGFinality(k)'
        BY <1>1, <1>8 DEF Finalizable
    <2>2. k = checkpoints'[j - 1] /\ objects'[k].justified /\ ~objects'[k].finalized /\ k # 0
        BY <1>1, <1>3, <2>1 DEF attemptCasperFFGFinality, EpochOf
    <2>3. k # Len(objects) + 1
        BY <1>2, <2>2 DEF Checkpoint
    <2>4. k \in 1 .. Len(objects) /\ objects'[k] = objects[k]
        BY <1>2, <2>3
    <2>5. j - 1 \in Epochs /\ j \in Epochs
        BY <1>3, <1>2, <1>6, EpochTypes, FinalityAssumption DEF Epochs
    <2>6. k = checkpoints[j - 1]
        BY <1>1, <2>2, <2>3, <2>5 DEF TypeOK
    <2>7. EpochOf(k) = j - 1 /\ objects'[k].epoch = j - 1
        <3>1. objects[checkpoints[j - 1]].epoch = j - 1
            <4> HIDE DEF j
            <4> QED BY <2>2, <2>5, <2>6 DEF Placed
        <3> QED BY <2>4, <2>6, <3>1 DEF EpochOf
    <2>8. /\ Cardinality(blockVotes'[j - 1]) >= requiredFinalityVotes
          /\ Cardinality(blockVotes'[j]) >= requiredFinalityVotes
        BY <1>1, <1>3, <1>4, <2>1, <2>7 DEF attemptCasperFFGFinality, VotesFor, EpochOf
    <2>9. /\ Cardinality(blockVotes[j - 1]) >= requiredFinalityVotes
          /\ Cardinality(blockVotes[j]) >= requiredFinalityVotes
        BY <1>5, <2>5, <2>8
    <2>10. attemptCasperFFGFinality(k)
        BY <2>2, <2>4, <2>6, <2>7, <2>9 DEF attemptCasperFFGFinality, VotesFor, EpochOf
    <2>11. Finalizable(k)
        BY <1>6, <1>8, <2>10 DEF Finalizable
    <2> QED BY <2>4, <2>11
<1> QED BY <1>1, <1>7, <1>8 DEF Finalizable

LEMMA NextNothingLeft ==
    TypeOK /\ Placed /\ NothingLeftToFinalize /\ [Next]_vars => NothingLeftToFinalize'
<1> SUFFICES ASSUME TypeOK, Placed, NothingLeftToFinalize, [Next]_vars,
                    awaiting' = 0, changes' = 0, NEW q \in 1 .. Len(objects')
             PROVE  ~Finalizable(q)'
    BY DEF NothingLeftToFinalize
<1>1. ASSUME NEW v \in Voters, addValidator(v) \/ removeValidator(v) PROVE FALSE
    BY <1>1 DEF addValidator, removeValidator, TypeOK
<1>2. ASSUME NEW v \in Voters, NEW e \in Epochs, recordVote(v, e) PROVE FALSE
    BY <1>2 DEF recordVote, TypeOK
<1>3. ASSUME NEW d \in Epochs, createCheckpoint(d)
      PROVE  ~Finalizable(q)'
    <2>1. \A k \in 1 .. Len(objects) : ~Finalizable(k)
        BY <1>3 DEF createCheckpoint, NothingLeftToFinalize
    <2> QED BY <1>3, <2>1, CreateLeavesNothing
<1>4. CASE Resume \/ recordOtherVote
    <2>1. /\ attemptFinality
          /\ UNCHANGED <<gadget, validators, checkpoints, blockVotes, justified>>
        BY <1>4 DEF Resume, recordOtherVote
    <2>2. Len(objects') = Len(objects)
        BY <2>1, FinalityTypes
    <2> QED BY <2>1, <2>2, AttemptLeavesNothing
<1>5. CASE UNCHANGED vars
    BY <1>5 DEF vars, NothingLeftToFinalize, Finalizable, EpochOf, attemptPBFTFinality,
                attemptCasperFFGFinality, VotesFor, requiredFinalityVotes
<1> QED BY <1>1, <1>2, <1>3, <1>4, <1>5 DEF Next, Epochs, handleFork

\* Whenever no call is in flight, and the validators are those of the start,
\* everything the votes are enough for is final (processVotes).
THEOREM NothingLeft == Spec => []NothingLeftToFinalize
<1> QED BY InitTypes, NextTypes, InitPlaced, NextPlaced, InitNothingLeft, NextNothingLeft,
           PTL DEF Spec
=============================================================================
