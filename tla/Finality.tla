------------------------------ MODULE Finality ------------------------------
(***************************************************************************)
(* consensus/finality.js, FinalityManager: checkpoints, votes for them,    *)
(* and what becomes justified and finalized.                               *)
(*                                                                         *)
(* A checkpoint block is told by its epoch, blockNumber divided by         *)
(* checkpointInterval.  A checkpoint is an object that the map, the        *)
(* justified and the finalized checkpoint may refer to, also after the map *)
(* holds another one for the same block number: checkpoints are numbered   *)
(* in the order they were made, and 0 is no checkpoint.                    *)
(*                                                                         *)
(* Of the validators only how many there are is read: their order is left  *)
(* out, and an entry is told by its id and by when it was added.           *)
(*                                                                         *)
(* recordVote awaits once, between justification and finalization; what    *)
(* is left of a call then reads only the manager's own fields, so the      *)
(* calls in between are counted.                                           *)
(***************************************************************************)
EXTENDS Integers, Sequences, FiniteSets, TLC

CONSTANTS
    Voters,                 \* the validator ids votes come from
    InitialValidators,      \* options.validators
    Gadgets,                \* options.finalityGadget
    JustificationThreshold, \* options.justificationThreshold, in percent
    FinalityThreshold,      \* options.finalityThreshold, in percent
    MaxEpoch,               \* bound on the epochs
    MaxCheckpoints,         \* bound on the checkpoints made
    MaxChanges,             \* bound on the changes of the validators
    MaxAwaiting             \* bound on the votes in flight

ASSUME FinalityAssumption ==
    /\ IsFiniteSet(Voters) /\ InitialValidators \subseteq Voters
    /\ JustificationThreshold \in Nat /\ FinalityThreshold \in Nat
    /\ MaxEpoch \in Nat /\ MaxCheckpoints \in Nat
    /\ MaxChanges \in Nat /\ MaxAwaiting \in Nat

VARIABLES
    gadget,      \* this.finalityGadget
    validators,  \* this.validators: its entries
    objects,     \* the checkpoints made so far
    checkpoints, \* this.checkpoints: the number of the one at each epoch
    blockVotes,  \* this.blockVotes: votes and the checkpoint they found
    justified,   \* this.justifiedCheckpoint
    finalized,   \* this.finalizedCheckpoint
    awaiting,    \* calls of recordVote between justification and finality
    changes      \* changes of the validators so far

vars == <<gadget, validators, objects, checkpoints, blockVotes,
          justified, finalized, awaiting, changes>>

Epochs == 0 .. MaxEpoch
CheckpointObjects == [epoch : Epochs, justified : BOOLEAN, finalized : BOOLEAN]
Checkpoint(e) == [epoch |-> e, justified |-> FALSE, finalized |-> FALSE]
Genesis == 1
Validator(v, n) == [id |-> v, added |-> n]

\* Voters are interchangeable.
VoterSymmetry == Permutations(Voters)

requiredVotes == (Cardinality(validators) * JustificationThreshold) \div 100 + 1

requiredFinalityVotes == (Cardinality(validators) * FinalityThreshold) \div 100 + 1

EpochOf(k) == objects[k].epoch
VotesFor(e) == Cardinality(blockVotes[e])

Init ==
    /\ gadget \in Gadgets
    /\ validators = {Validator(v, 0) : v \in InitialValidators}
    /\ objects = <<[Checkpoint(0) EXCEPT !.finalized = TRUE]>>
    /\ checkpoints = [e \in Epochs |-> IF e = 0 THEN Genesis ELSE 0]
    /\ blockVotes = [e \in Epochs |-> {}]
    /\ justified = Genesis /\ finalized = Genesis
    /\ awaiting = 0 /\ changes = 0

-----------------------------------------------------------------------------
(* Validators *)

\* Nothing keeps the same validator from being added twice.
addValidator(v) ==
    /\ changes < MaxChanges
    /\ validators' = validators \cup {Validator(v, changes + 1)}
    /\ changes' = changes + 1
    /\ UNCHANGED <<gadget, objects, checkpoints, blockVotes, justified, finalized,
                   awaiting>>

\* The votes of a validator that is removed stay.
removeValidator(v) ==
    /\ changes < MaxChanges
    /\ validators' = {w \in validators : w.id # v}
    /\ changes' = changes + 1
    /\ UNCHANGED <<gadget, objects, checkpoints, blockVotes, justified, finalized,
                   awaiting>>

-----------------------------------------------------------------------------
(* CheckpointObjects *)

\* Mutant: votes that were there before the checkpoint count for it.
createCheckpoint_KeepsVotes(e) ==
    /\ Len(objects) < MaxCheckpoints
    /\ objects' = Append(objects, Checkpoint(e))
    /\ checkpoints' = [checkpoints EXCEPT ![e] = Len(objects) + 1]
    /\ UNCHANGED <<gadget, validators, blockVotes, justified, finalized, awaiting, changes>>

\* A checkpoint takes the place of an earlier one for its block number, one
\* that is justified or final included, and starts without votes.
createCheckpoint(e) ==
    /\ Len(objects) < MaxCheckpoints
    /\ objects' = Append(objects, Checkpoint(e))
    /\ checkpoints' = [checkpoints EXCEPT ![e] = Len(objects) + 1]
    /\ blockVotes' = [blockVotes EXCEPT ![e] = {}]
    /\ UNCHANGED <<gadget, validators, justified, finalized, awaiting, changes>>

\* Only a latest block without a checkpoint gets one.
handleFork(e) == checkpoints[e] = 0 /\ createCheckpoint(e)

-----------------------------------------------------------------------------
(* Votes *)

\* Mutant: without the check that there is a checkpoint.
attemptCheckpointJustification_Null(e) ==
    IF Cardinality(blockVotes'[e]) >= requiredVotes
       THEN /\ objects' = [k \in 1 .. Len(objects) |->
                             [objects[k] EXCEPT !.justified = @ \/ k = checkpoints[e]]]
            /\ justified' = checkpoints[e]
       ELSE UNCHANGED <<objects, justified>>

\* A checkpoint is justified even when a later one already is.
attemptCheckpointJustification(e) ==
    IF checkpoints[e] # 0 /\ Cardinality(blockVotes'[e]) >= requiredVotes
       THEN /\ objects' = [objects EXCEPT ![checkpoints[e]].justified = TRUE]
            /\ justified' = checkpoints[e]
       ELSE UNCHANGED <<objects, justified>>

\* recordVote up to the await: whoever votes is counted, once per block number.
recordVote(v, e) ==
    /\ awaiting < MaxAwaiting
    /\ blockVotes' = [blockVotes EXCEPT
           ![e] = {b \in @ : b.voter # v} \cup {[voter |-> v, on |-> checkpoints[e]]}]
    /\ attemptCheckpointJustification(e)
    /\ awaiting' = awaiting + 1
    /\ UNCHANGED <<gadget, validators, checkpoints, finalized, changes>>

attemptPBFTFinality(k) ==
    k = justified /\ VotesFor(EpochOf(k)) >= requiredFinalityVotes

\* The checkpoint before the justified one, when both have the quorum.
attemptCasperFFGFinality(k) ==
    /\ k = checkpoints[EpochOf(justified) - 1] /\ k # 0
    /\ objects[k].justified /\ ~objects[k].finalized
    /\ VotesFor(EpochOf(k)) >= requiredFinalityVotes
    /\ VotesFor(EpochOf(justified)) >= requiredFinalityVotes

\* Mutant: without the comparison of block numbers.
Finalizable_AnyHeight(k) ==
    \/ gadget = "PBFT" /\ attemptPBFTFinality(k)
    \/ gadget = "Casper FFG" /\ justified # Genesis /\ attemptCasperFFGFinality(k)

\* attemptLMDFinality never finds a latest block.
Finalizable(k) ==
    /\ EpochOf(justified) > EpochOf(finalized)
    /\ \/ gadget = "PBFT" /\ attemptPBFTFinality(k)
       \/ gadget = "Casper FFG" /\ attemptCasperFFGFinality(k)

attemptFinality ==
    IF \E k \in 1 .. Len(objects) : Finalizable(k)
       THEN \E k \in 1 .. Len(objects) :
               /\ Finalizable(k)
               /\ objects' = [objects EXCEPT ![k].finalized = TRUE]
               /\ finalized' = k
       ELSE UNCHANGED <<objects, finalized>>

\* Mutant: the call returns after justification.
Resume_Returns ==
    /\ awaiting > 0 /\ awaiting' = awaiting - 1
    /\ UNCHANGED <<gadget, validators, objects, checkpoints, blockVotes, justified,
                   finalized, changes>>

\* recordVote after the await.
Resume ==
    /\ awaiting > 0 /\ awaiting' = awaiting - 1
    /\ attemptFinality
    /\ UNCHANGED <<gadget, validators, checkpoints, blockVotes, justified, changes>>

\* A vote for a block that is no checkpoint: nothing is awaited.
recordOtherVote ==
    /\ attemptFinality
    /\ UNCHANGED <<gadget, validators, checkpoints, blockVotes, justified,
                   awaiting, changes>>

Next ==
    \/ \E v \in Voters : addValidator(v) \/ removeValidator(v)
    \/ \E e \in 1 .. MaxEpoch : createCheckpoint(e) \/ handleFork(e)
    \/ \E v \in Voters, e \in 1 .. MaxEpoch : recordVote(v, e)
    \/ Resume \/ recordOtherVote

Spec == Init /\ [][Next]_vars

-----------------------------------------------------------------------------
(* Properties *)

TypeOK ==
    /\ gadget \in Gadgets
    /\ validators \subseteq [id : Voters, added : Nat] /\ IsFiniteSet(validators)
    /\ objects \in Seq(CheckpointObjects)
    /\ checkpoints \in [Epochs -> 0 .. Len(objects)]
    /\ blockVotes \in [Epochs -> SUBSET [voter : Voters, on : Nat]]
    /\ justified \in 1 .. Len(objects) /\ finalized \in 1 .. Len(objects)
    /\ awaiting \in Nat /\ changes \in Nat

\* What is final stays below: the finalized block number never drops, although
\* late votes may move the justified checkpoint back (processVotes).
FinalizedNeverDrops == [][EpochOf(finalized)' >= EpochOf(finalized)]_vars

\* A checkpoint becomes final by a quorum of votes that were cast for it, and
\* not for a checkpoint it replaced or that replaced it (createCheckpoint,
\* attemptFinality).  Under PBFT this takes validators that do not change.
FinalizedByItsVotes ==
    [][finalized' # finalized /\ (gadget = "PBFT" => changes = 0) =>
          Cardinality({b \in blockVotes[EpochOf(finalized)'] : b.on = finalized'})
              >= requiredFinalityVotes]_vars

\* Once no call is in flight nothing is left to finalize, as long as the
\* validators are those of the start (the check after the await in recordVote).
NothingLeftToFinalize ==
    awaiting = 0 /\ changes = 0 => \A k \in 1 .. Len(objects) : ~Finalizable(k)
=============================================================================
