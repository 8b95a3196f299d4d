-------------------------- MODULE ConsensusProofs --------------------------
(***************************************************************************)
(* What holds of the validators and their slashing, of the two finality    *)
(* systems, of the fork choice rules, of the fork handler and of the       *)
(* choices by stake for every set of validators and chains, every stake,   *)
(* every random value and every bound.                                     *)
(***************************************************************************)
EXTENDS MCConsensus, Induction, TLAPS

\* A step of the components side by side is one of each, or leaves it alone.
LEMMA ConsensusPartsMove ==
    ASSUME [ConsensusNext]_allVars
    PROVE  /\ [ValidatorSetNext]_validatorSetVars /\ [ForkChoiceNext]_forkChoiceVars
           /\ [FinalitySystemsNext]_finalitySystemsVars
           /\ [StakeSelectionNext]_stakeSelectionVars /\ [MiningNext]_miningVars
           /\ [ForkResolutionNext]_forkResolutionVars
BY DEF ConsensusNext, allVars

-----------------------------------------------------------------------------
(* The sets of validators *)

ValidatorObjects ==
    [stake : Int, status : {"pending", "active", "inactive", "jailed"},
     is_jailed : BOOLEAN, penalties : Int]

ValidatorsInv ==
    /\ object \in [Addresses -> ValidatorObjects]
    /\ registered \subseteq Addresses
    /\ slash_events \in [Addresses -> Nat]
    /\ OneSetEach

LEMMA ValidatorsInitial ==
    ASSUME ValidatorSetInit PROVE ValidatorsInv
<1>1. \A s \in Stakes : Validator_new(s) \in ValidatorObjects
  BY ValidatorSetAssumption DEF Validator_new, ValidatorObjects
<1>2. object \in [Addresses -> ValidatorObjects] BY <1>1 DEF ValidatorSetInit
<1>3. OneSetEach BY DEF ValidatorSetInit, OneSetEach
<1> QED BY <1>2, <1>3 DEF ValidatorSetInit, ValidatorsInv

\* Whoever moves to a set leaves the others, and whoever is unregistered all.
LEMMA MoveStep ==
    ASSUME OneSetEach, NEW a \in registered, NEW set, _move(a, set),
           \/ /\ set \in {"active", "pending", "inactive", "jailed"}
              /\ registered' = registered
           \/ set = "none" /\ registered' = registered \ {a}
    PROVE  OneSetEach'
BY Zenon DEF OneSetEach, _move

\* Slashing takes a share of the stake and unregisters whoever is left with too little.
LEMMA SlashAllStep ==
    ASSUME ValidatorsInv, NEW S \in SUBSET Addresses, NEW rate \in Nat, SlashAll(S, rate)
    PROVE  /\ ValidatorsInv'
           /\ \A a \in active_validators' : slash_events'[a] > slash_events[a]
                 => object'[a].stake >= MinimumStake
<1> DEFINE out == {a \in S : Slashed(a, rate) < MinimumStake}
<1>1. /\ object' = [a \in Addresses |->
             IF a \in S THEN [object[a] EXCEPT !.stake = Slashed(a, rate)] ELSE object[a]]
      /\ slash_events' = [a \in Addresses |-> slash_events[a] + IF a \in S THEN 1 ELSE 0]
      /\ registered' = registered \ out
      /\ active_validators' = active_validators \ out
      /\ pending_validators' = pending_validators \ out
      /\ inactive_validators' = inactive_validators \ out
      /\ jailed_validators' = jailed_validators \ out
  BY DEF SlashAll, Slash
<1>2. \A a \in Addresses : object[a] \in ValidatorObjects /\ Slashed(a, rate) \in Int
  <2> SUFFICES ASSUME NEW a \in Addresses
               PROVE  object[a] \in ValidatorObjects /\ Slashed(a, rate) \in Int
    OBVIOUS
  <2>1. object[a] \in ValidatorObjects BY DEF ValidatorsInv
  <2>2. object[a].stake \in Int BY <2>1 DEF ValidatorObjects
  <2>3. object[a].stake * rate \in Int BY <2>2
  <2>4. (object[a].stake * rate) \div 100 \in Int BY <2>3
  <2> QED BY <2>1, <2>2, <2>4 DEF Slashed
<1>3. object' \in [Addresses -> ValidatorObjects] BY <1>1, <1>2 DEF ValidatorObjects
<1>4. slash_events' \in [Addresses -> Nat] BY <1>1 DEF ValidatorsInv
<1>5. OneSetEach'
  <2> HIDE DEF out
  <2> QED BY <1>1 DEF ValidatorsInv, OneSetEach
<1>6. ASSUME NEW a \in active_validators', slash_events'[a] > slash_events[a]
      PROVE  object'[a].stake >= MinimumStake
  <2>1. a \in Addresses /\ a \notin out BY <1>1 DEF ValidatorsInv, OneSetEach
  <2>2. slash_events[a] \in Nat BY <2>1 DEF ValidatorsInv
  <2>3. a \in S BY <1>1, <1>6, <2>1, <2>2
  <2>4. object'[a].stake = Slashed(a, rate) BY <1>1, <1>2, <2>1, <2>3 DEF ValidatorObjects
  <2> QED BY <1>2, <2>1, <2>3, <2>4, ValidatorSetAssumption
<1>7. registered' \subseteq Addresses BY <1>1 DEF ValidatorsInv
<1> QED BY <1>3, <1>4, <1>5, <1>6, <1>7 DEF ValidatorsInv

\* A change of one object, nobody slashed.
LEMMA ObjectStep ==
    ASSUME ValidatorsInv, NEW a \in Addresses, NEW o \in ValidatorObjects,
           object' = [object EXCEPT ![a] = o],
           slash_events' = slash_events, registered' \subseteq Addresses, OneSetEach'
    PROVE  ValidatorsInv'
BY DEF ValidatorsInv

LEMMA ValidatorsStep ==
    ASSUME ValidatorsInv, [ValidatorSetNext]_validatorSetVars
    PROVE  /\ ValidatorsInv'
           /\ \A a \in active_validators' : slash_events'[a] > slash_events[a]
                 => object'[a].stake >= MinimumStake
<1> DEFINE Paid == \A a \in active_validators' : slash_events'[a] > slash_events[a]
                      => object'[a].stake >= MinimumStake
<1>0. ASSUME ValidatorsInv', slash_events' = slash_events PROVE Paid
  <2> SUFFICES ASSUME NEW a \in active_validators', slash_events'[a] > slash_events[a]
               PROVE  FALSE
    OBVIOUS
  <2>1. a \in Addresses BY <1>0 DEF ValidatorsInv, OneSetEach
  <2>2. slash_events[a] \in Nat BY <2>1 DEF ValidatorsInv
  <2> QED BY <1>0, <2>2
<1>1. \A a \in Addresses : object[a] \in ValidatorObjects BY DEF ValidatorsInv
<1>2. registered \subseteq Addresses /\ OneSetEach BY DEF ValidatorsInv
<1> HIDE DEF Paid
<1>3. ASSUME NEW a \in Addresses, NEW s \in Stakes, NewValidator(a, s)
      PROVE  ValidatorsInv' /\ Paid
  <2>1. Validator_new(s) \in ValidatorObjects
    BY ValidatorSetAssumption DEF Validator_new, ValidatorObjects
  <2>2. OneSetEach' BY <1>2, <1>3 DEF NewValidator, OneSetEach
  <2>3. ValidatorsInv' BY <1>2, <1>3, <2>1, <2>2, ObjectStep DEF NewValidator
  <2> QED BY <1>0, <1>3, <2>3 DEF NewValidator
<1>4. ASSUME NEW a \in Addresses, NEW s \in Stakes, update_validator(a, s)
      PROVE  ValidatorsInv' /\ Paid
  <2>1. [object[a] EXCEPT !.stake = s] \in ValidatorObjects
    BY <1>1, ValidatorSetAssumption DEF ValidatorObjects
  <2>2. OneSetEach' BY <1>2, <1>4 DEF update_validator, OneSetEach
  <2>3. object' = [object EXCEPT ![a] = [object[a] EXCEPT !.stake = s]]
    BY <1>4 DEF update_validator
  <2>4. ValidatorsInv' BY <1>2, <1>4, <2>1, <2>2, <2>3, ObjectStep DEF update_validator
  <2> QED BY <1>0, <1>4, <2>4 DEF update_validator
<1>5. ASSUME NEW a \in Addresses, register_validator(a) PROVE ValidatorsInv' /\ Paid
  <2>1. ValidatorsInv' BY <1>5 DEF register_validator, ValidatorsInv, OneSetEach
  <2> QED BY <1>0, <1>5, <2>1 DEF register_validator
<1>6. ASSUME NEW a \in Addresses, unregister_validator(a) PROVE ValidatorsInv' /\ Paid
  <2>1. OneSetEach' BY <1>2, <1>6, MoveStep DEF unregister_validator
  <2>2. ValidatorsInv' BY <1>6, <2>1 DEF unregister_validator, ValidatorsInv
  <2> QED BY <1>0, <1>6, <2>2 DEF unregister_validator
<1>7. ASSUME NEW a \in Addresses, promote_validator(a) PROVE ValidatorsInv' /\ Paid
  <2>1. [object[a] EXCEPT !.status = "active"] \in ValidatorObjects
    BY <1>1 DEF ValidatorObjects
  <2>2. OneSetEach' BY <1>2, <1>7, MoveStep DEF promote_validator
  <2>3. ValidatorsInv' BY <1>2, <1>7, <2>1, <2>2, ObjectStep DEF promote_validator
  <2> QED BY <1>0, <1>7, <2>3 DEF promote_validator
<1>8. ASSUME NEW a \in Addresses, demote_validator(a) PROVE ValidatorsInv' /\ Paid
  <2>1. [object[a] EXCEPT !.status = "inactive"] \in ValidatorObjects
    BY <1>1 DEF ValidatorObjects
  <2>2. OneSetEach' BY <1>2, <1>8, MoveStep DEF demote_validator
  <2>3. ValidatorsInv' BY <1>2, <1>8, <2>1, <2>2, ObjectStep DEF demote_validator
  <2> QED BY <1>0, <1>8, <2>3 DEF demote_validator
<1>9. ASSUME NEW a \in Addresses, jail_validator(a) PROVE ValidatorsInv' /\ Paid
  <2> DEFINE o == [object[a] EXCEPT !.status = "jailed", !.is_jailed = TRUE]
  <2>1. o \in ValidatorObjects BY <1>1 DEF ValidatorObjects
  <2>2. OneSetEach' BY <1>2, <1>9, MoveStep DEF jail_validator
  <2>3. object' = [object EXCEPT ![a] = o] BY <1>9, <1>1 DEF jail_validator, ValidatorsInv, ValidatorObjects
  <2>4. ValidatorsInv' BY <1>2, <1>9, <2>1, <2>2, <2>3, ObjectStep DEF jail_validator
  <2> QED BY <1>0, <1>9, <2>4 DEF jail_validator
<1>10. ASSUME NEW a \in Addresses, unjail_validator(a) PROVE ValidatorsInv' /\ Paid
  <2> DEFINE o == [object[a] EXCEPT !.status = "pending", !.is_jailed = FALSE]
  <2>1. o \in ValidatorObjects BY <1>1 DEF ValidatorObjects
  <2>2. OneSetEach' BY <1>2, <1>10, MoveStep DEF unjail_validator
  <2>3. object' = [object EXCEPT ![a] = o] BY <1>10, <1>1 DEF unjail_validator, ValidatorsInv, ValidatorObjects
  <2>4. ValidatorsInv' BY <1>2, <1>10, <2>1, <2>2, <2>3, ObjectStep DEF unjail_validator
  <2> QED BY <1>0, <1>10, <2>4 DEF unjail_validator
<1>11. ASSUME NEW a \in Addresses, JailEnds(a) PROVE ValidatorsInv' /\ Paid
  <2>1. [object[a] EXCEPT !.is_jailed = FALSE] \in ValidatorObjects
    BY <1>1 DEF ValidatorObjects
  <2>2. OneSetEach' BY <1>2, <1>11 DEF JailEnds, OneSetEach
  <2>3. ValidatorsInv' BY <1>2, <1>11, <2>1, <2>2, ObjectStep DEF JailEnds
  <2> QED BY <1>0, <1>11, <2>3 DEF JailEnds
<1>12. ASSUME NEW a \in Addresses, NEW p \in Penalties, apply_penalty(a, p)
       PROVE  ValidatorsInv' /\ Paid
  <2> DEFINE total == object[a].penalties + p
             over == [object[a] EXCEPT !.penalties = MaximumPenalties + 1,
                                       !.status = "jailed", !.is_jailed = TRUE]
             under == [object[a] EXCEPT !.penalties = total]
  <2>1. over \in ValidatorObjects /\ under \in ValidatorObjects
    <3>1. MaximumPenalties + 1 \in Int /\ p \in Int BY ValidatorSetAssumption
    <3>2. object[a] \in ValidatorObjects BY <1>1
    <3>3. total \in Int BY <3>1, <3>2 DEF ValidatorObjects
    <3> HIDE DEF total
    <3> QED BY <3>1, <3>2, <3>3 DEF ValidatorObjects
  <2>2. \/ _move(a, "jailed") /\ object' = [object EXCEPT ![a] = over]
        \/ /\ object' = [object EXCEPT ![a] = under]
           /\ UNCHANGED <<active_validators, pending_validators, inactive_validators,
                          jailed_validators>>
    BY <1>12 DEF apply_penalty
  <2>3. a \in registered /\ UNCHANGED <<registered, slash_events>> BY <1>12 DEF apply_penalty
  <2> HIDE DEF over, under
  <2>4. CASE _move(a, "jailed") /\ object' = [object EXCEPT ![a] = over]
    <3>1. OneSetEach' BY <1>2, <2>3, <2>4, MoveStep
    <3>2. ValidatorsInv' BY <1>2, <2>1, <2>3, <2>4, <3>1, ObjectStep
    <3> QED BY <1>0, <2>3, <3>2
  <2>5. CASE /\ object' = [object EXCEPT ![a] = under]
             /\ UNCHANGED <<active_validators, pending_validators, inactive_validators,
                            jailed_validators>>
    <3>1. OneSetEach' BY <1>2, <2>3, <2>5 DEF OneSetEach
    <3>2. ValidatorsInv' BY <1>2, <2>1, <2>3, <2>5, <3>1, ObjectStep
    <3> QED BY <1>0, <2>3, <3>2
  <2> QED BY <2>2, <2>4, <2>5
<1>13. ASSUME NEW a \in Addresses, handle_double_signing(a) \/ handle_downtime(a)
       PROVE  ValidatorsInv' /\ Paid
  BY <1>13, SlashAllStep DEF handle_double_signing, handle_downtime, Paid
<1>14. ASSUME NEW a \in Addresses, NEW on \in BOOLEAN, track_validator_activity(a, on)
       PROVE  ValidatorsInv' /\ Paid
  <2>1. ValidatorsInv'
    BY <1>14 DEF track_validator_activity, objectVars, ValidatorsInv, OneSetEach
  <2> QED BY <1>0, <1>14, <2>1 DEF track_validator_activity
<1>15. ASSUME check_validator_inactivity PROVE ValidatorsInv' /\ Paid
  <2>1. {a \in get_active_validators : Inactive(a)} \in SUBSET Addresses
    BY <1>2 DEF get_active_validators
  <2> QED BY <1>15, <2>1, SlashAllStep DEF check_validator_inactivity, Paid
<1>16. ASSUME UNCHANGED validatorSetVars PROVE ValidatorsInv' /\ Paid
  <2>1. ValidatorsInv'
    BY <1>16 DEF validatorSetVars, objectVars, ValidatorsInv, OneSetEach
  <2> QED BY <1>0, <1>16, <2>1 DEF validatorSetVars
<1> QED
  BY <1>3, <1>4, <1>5, <1>6, <1>7, <1>8, <1>9, <1>10, <1>11, <1>12, <1>13, <1>14, <1>15, <1>16
  DEF ValidatorSetNext, Paid

\* Through jail, penalties, slashing and the unregistration it causes, a registered
\* validator is in exactly one of the four sets and nobody else in any
\* (ValidatorManager, apply_slashing_penalty).
THEOREM OneSetForEach == ConsensusSpec => []OneSetEach
<1>1. ConsensusInit => ValidatorsInv BY ValidatorsInitial DEF ConsensusInit
<1>2. ValidatorsInv /\ [ConsensusNext]_allVars => ValidatorsInv'
  BY ConsensusPartsMove, ValidatorsStep
<1>3. ValidatorsInv => OneSetEach BY DEF ValidatorsInv
<1> QED BY <1>1, <1>2, <1>3, PTL DEF ConsensusSpec

\* Nobody whom a slashing left with less than the minimum is still active after it,
\* one of a single validator or of all inactive ones at once
\* (apply_slashing_penalty, check_validator_inactivity).
THEOREM SlashedHaveStake == ConsensusSpec => SlashedActiveHasStake
<1>1. ConsensusInit => ValidatorsInv BY ValidatorsInitial DEF ConsensusInit
<1>2. ValidatorsInv /\ [ConsensusNext]_allVars => ValidatorsInv'
  BY ConsensusPartsMove, ValidatorsStep
<1>3. ValidatorsInv /\ [ConsensusNext]_allVars
        => [\A a \in active_validators' : slash_events'[a] > slash_events[a]
               => object'[a].stake >= MinimumStake]_validatorSetVars
  BY ConsensusPartsMove, ValidatorsStep
<1> QED BY <1>1, <1>2, <1>3, PTL DEF ConsensusSpec, SlashedActiveHasStake
-----------------------------------------------------------------------------
(* The finality systems *)

CommitCalls ==
    [index : 0 .. MaxCommits, asked : Nat, commits : Nat,
     answer : {Unanswered, None_committed} \cup 0 .. MaxCommits]

\* As many commits as 2n/3 + 1, rounded down, are more than two thirds.
EnoughCommits(n) == 3 * n > 2 * TotalValidators

\* What is committed was committed to by a quorum, in some call.
SystemsInv ==
    /\ commit_calls \in Seq(CommitCalls)
    /\ committed \in {None_committed} \cup 0 .. MaxCommits
    /\ justifiedEpoch \in Nat /\ finalizedEpoch \in Nat
    /\ committed >= 0 => \E c \in DOMAIN commit_calls :
           commit_calls[c].index = committed /\ EnoughCommits(commit_calls[c].commits)
    /\ AnswersHaveQuorum

LEMMA SystemsInitial ==
    ASSUME FinalitySystemsInit PROVE SystemsInv
<1>1. commit_calls \in Seq(CommitCalls) /\ DOMAIN commit_calls = {}
  BY DEF FinalitySystemsInit
<1> QED BY <1>1 DEF FinalitySystemsInit, SystemsInv, AnswersHaveQuorum, None_committed

LEMMA QuorumIsEnough ==
    ASSUME NEW n \in Nat, n >= requiredQuorum PROVE EnoughCommits(n)
<1> DEFINE q == (TotalValidators * 2) \div 3
<1>1. q \in Nat /\ 3 * (q + 1) > TotalValidators * 2 BY FinalitySystemsAssumption
<1>2. n >= q + 1 BY DEF requiredQuorum
<1> HIDE DEF q
<1> QED BY <1>1, <1>2, FinalitySystemsAssumption DEF EnoughCommits

\* The calls keep their commits, and one may get more or an answer that has a quorum.
LEMMA CallsStep ==
    ASSUME SystemsInv, NEW calls \in Seq(CommitCalls), commit_calls' = calls,
           DOMAIN commit_calls \subseteq DOMAIN calls,
           \A c \in DOMAIN commit_calls :
               /\ calls[c].index = commit_calls[c].index
               /\ calls[c].commits >= commit_calls[c].commits,
           committed' \in {None_committed} \cup 0 .. MaxCommits, lastExecuted' = committed',
           UNCHANGED casperVars,
           committed' = committed \/ \E c \in DOMAIN calls :
               calls[c].index = committed' /\ EnoughCommits(calls[c].commits),
           \A k \in DOMAIN calls :
               \/ k \in DOMAIN commit_calls /\ calls[k].answer = commit_calls[k].answer
               \/ calls[k].answer \in {Unanswered, committed'}
    PROVE  SystemsInv'
<1>1. \A c \in DOMAIN calls : calls[c] \in CommitCalls OBVIOUS
<1>2. \A c \in DOMAIN commit_calls : commit_calls[c] \in CommitCalls BY DEF SystemsInv
<1>3. ASSUME NEW c \in DOMAIN commit_calls, EnoughCommits(commit_calls[c].commits)
      PROVE  EnoughCommits(calls[c].commits)
  <2>1. commit_calls[c].commits \in Nat /\ calls[c].commits \in Nat
    BY <1>1, <1>2 DEF CommitCalls
  <2> QED BY <1>3, <2>1, FinalitySystemsAssumption DEF EnoughCommits
<1>4. ASSUME NEW i, \E c \in DOMAIN commit_calls :
             commit_calls[c].index = i /\ EnoughCommits(commit_calls[c].commits)
      PROVE  \E c \in DOMAIN calls : calls[c].index = i /\ EnoughCommits(calls[c].commits)
  BY <1>3, <1>4
<1>5. committed' >= 0 => \E c \in DOMAIN calls :
          calls[c].index = committed' /\ EnoughCommits(calls[c].commits)
  BY <1>4 DEF SystemsInv
<1>6. ASSUME NEW k \in DOMAIN calls, calls[k].answer >= 0
      PROVE  \E c \in DOMAIN calls :
                calls[c].index = calls[k].answer /\ EnoughCommits(calls[c].commits)
  <2>1. CASE k \in DOMAIN commit_calls /\ calls[k].answer = commit_calls[k].answer
    <3>1. \E c \in DOMAIN commit_calls :
              commit_calls[c].index = commit_calls[k].answer
              /\ EnoughCommits(commit_calls[c].commits)
      BY <1>6, <2>1 DEF SystemsInv, AnswersHaveQuorum, EnoughCommits
    <3>2. \E c \in DOMAIN calls : calls[c].index = commit_calls[k].answer
                                 /\ EnoughCommits(calls[c].commits)
      BY <1>4, <3>1
    <3> QED BY <2>1, <3>2
  <2>2. CASE calls[k].answer \in {Unanswered, committed'}
    BY <1>5, <1>6, <2>2 DEF Unanswered
  <2> QED BY <2>1, <2>2
<1>7. AnswersHaveQuorum'
  BY <1>6 DEF SystemsInv, AnswersHaveQuorum, EnoughCommits, casperVars
<1> QED BY <1>5, <1>7 DEF SystemsInv, casperVars

LEMMA SystemsStep ==
    ASSUME SystemsInv, [FinalitySystemsNext]_finalitySystemsVars PROVE SystemsInv'
<1>0. /\ commit_calls \in Seq(CommitCalls)
      /\ committed \in {None_committed} \cup 0 .. MaxCommits /\ lastExecuted = committed
      /\ \A k \in DOMAIN commit_calls :
            /\ commit_calls[k] \in CommitCalls
            /\ commit_calls[k].commits \in Nat /\ commit_calls[k].asked \in Nat
            /\ commit_calls[k].index \in 0 .. MaxCommits
  <2>1. commit_calls \in Seq(CommitCalls) BY DEF SystemsInv
  <2>2. \A k \in DOMAIN commit_calls : commit_calls[k] \in CommitCalls BY <2>1
  <2> QED BY <2>1, <2>2 DEF SystemsInv, AnswersHaveQuorum, CommitCalls
<1>1. ASSUME NEW i \in 0 .. MaxCommits, processCommit(i) PROVE SystemsInv'
  <2> DEFINE new == [index |-> i, asked |-> 0, commits |-> 0, answer |-> Unanswered]
             calls == Append(commit_calls, new)
  <2>1. new \in CommitCalls /\ new.answer = Unanswered BY DEF CommitCalls
  <2> HIDE DEF new
  <2>2. /\ calls \in Seq(CommitCalls) /\ DOMAIN commit_calls \subseteq DOMAIN calls
        /\ \A k \in DOMAIN commit_calls : calls[k] = commit_calls[k]
        /\ \A k \in DOMAIN calls : k \in DOMAIN commit_calls \/ calls[k] = new
    BY <1>0, <2>1
  <2>3. commit_calls' = calls /\ UNCHANGED <<committed, lastExecuted, casperVars>>
    BY <1>1 DEF processCommit, new
  <2> HIDE DEF calls
  <2>4. \A c \in DOMAIN commit_calls : calls[c].index = commit_calls[c].index
            /\ calls[c].commits >= commit_calls[c].commits
    BY <1>0, <2>2
  <2> QED BY <1>0, <2>1, <2>2, <2>3, <2>4, CallsStep
<1>2. ASSUME NEW k \in DOMAIN commit_calls, NEW ok \in BOOLEAN, ValidatorAnswers(k, ok)
      PROVE  SystemsInv'
  <2> DEFINE more == IF ok /\ ~Preparing(k) THEN commit_calls[k].commits + 1
                                            ELSE commit_calls[k].commits
             call == [commit_calls[k] EXCEPT !.asked = commit_calls[k].asked + 1,
                                             !.commits = more]
             calls == [commit_calls EXCEPT ![k] = call]
  <2>1. more \in Nat /\ more >= commit_calls[k].commits BY <1>0
  <2>2. commit_calls' = calls /\ UNCHANGED <<committed, lastExecuted, casperVars>>
    BY <1>0, <1>2 DEF ValidatorAnswers, CommitCalls
  <2> HIDE DEF more
  <2>3. /\ call \in CommitCalls /\ call.index = commit_calls[k].index
        /\ call.commits = more /\ call.answer = commit_calls[k].answer
    <3>1. commit_calls[k] \in CommitCalls /\ commit_calls[k].asked + 1 \in Nat BY <1>0
    <3> QED BY <2>1, <3>1 DEF CommitCalls
  <2> HIDE DEF call
  <2>4. /\ calls \in Seq(CommitCalls) /\ DOMAIN calls = DOMAIN commit_calls
        /\ \A c \in DOMAIN calls : calls[c] = IF c = k THEN call ELSE commit_calls[c]
    BY <1>0, <2>3
  <2> HIDE DEF calls
  <2>5. \A c \in DOMAIN commit_calls : calls[c].index = commit_calls[c].index
            /\ calls[c].commits >= commit_calls[c].commits
            /\ calls[c].answer = commit_calls[c].answer
    <3> SUFFICES ASSUME NEW c \in DOMAIN commit_calls
                 PROVE  /\ calls[c].index = commit_calls[c].index
                        /\ calls[c].commits >= commit_calls[c].commits
                        /\ calls[c].answer = commit_calls[c].answer
      OBVIOUS
    <3>1. commit_calls[c].commits \in Nat BY <1>0 DEF CommitCalls
    <3>2. CASE c = k BY <2>1, <2>3, <2>4, <3>2
    <3>3. CASE c # k
      <4>1. calls[c] = commit_calls[c] BY <2>4, <3>3
      <4> QED BY <3>1, <4>1
    <3> QED BY <3>2, <3>3
  <2> QED BY <1>0, <2>2, <2>4, <2>5, CallsStep
<1>3. ASSUME NEW k \in DOMAIN commit_calls, CommitEnds(k) PROVE SystemsInv'
  <2> DEFINE call == [commit_calls[k] EXCEPT !.answer = committed']
             calls == [commit_calls EXCEPT ![k] = call]
  <2>1. /\ commit_calls' = calls /\ UNCHANGED casperVars
        /\ \/ /\ commit_calls[k].commits >= requiredQuorum
              /\ committed' = commit_calls[k].index /\ lastExecuted' = commit_calls[k].index
           \/ UNCHANGED <<committed, lastExecuted>>
    BY <1>3 DEF CommitEnds
  <2>2. committed' \in {None_committed} \cup 0 .. MaxCommits /\ lastExecuted' = committed'
    BY <1>0, <2>1
  <2>3. /\ call \in CommitCalls /\ call.index = commit_calls[k].index
        /\ call.commits = commit_calls[k].commits /\ call.answer = committed'
    BY <1>0, <2>2 DEF CommitCalls
  <2> HIDE DEF call
  <2>4. /\ calls \in Seq(CommitCalls) /\ DOMAIN calls = DOMAIN commit_calls
        /\ \A c \in DOMAIN calls : calls[c] = IF c = k THEN call ELSE commit_calls[c]
    BY <1>0, <2>3
  <2> HIDE DEF calls
  <2>5. \A c \in DOMAIN commit_calls : calls[c].index = commit_calls[c].index
            /\ calls[c].commits >= commit_calls[c].commits
    BY <1>0, <2>3, <2>4
  <2>6. committed' = committed \/ \E c \in DOMAIN calls :
            calls[c].index = committed' /\ EnoughCommits(calls[c].commits)
    BY <1>0, <2>1, <2>3, <2>4, QuorumIsEnough
  <2>7. \A c \in DOMAIN calls : calls[c].answer = commit_calls[c].answer
            \/ calls[c].answer = committed'
    BY <2>3, <2>4
  <2> QED BY <2>1, <2>2, <2>4, <2>5, <2>6, <2>7, CallsStep
<1>4. ASSUME NEW s \in 0 .. MaxVoteEpoch, NEW t \in 0 .. MaxVoteEpoch, processVote(s, t)
      PROVE  SystemsInv'
  <2>1. /\ justifiedEpoch' \in Nat /\ finalizedEpoch' \in Nat
        /\ \/ finalizedEpoch' < justifiedEpoch'
           \/ finalizedEpoch' = 0 /\ justifiedEpoch' = 0
    BY <1>4, FinalitySystemsAssumption DEF processVote, SystemsInv, AnswersHaveQuorum
  <2> QED BY <1>4, <2>1 DEF processVote, pbftVars, SystemsInv, AnswersHaveQuorum
<1>5. ASSUME UNCHANGED finalitySystemsVars PROVE SystemsInv'
  BY <1>5 DEF finalitySystemsVars, pbftVars, casperVars, SystemsInv, AnswersHaveQuorum
<1> QED BY <1>1, <1>2, <1>3, <1>4, <1>5 DEF FinalitySystemsNext

\* However the calls of processCommit overlap, what one of them answers more than two
\* thirds of the validators committed to, and Casper FFG finalizes no epoch that is
\* not below the justified one (PBFTFinalitySystem, CasperFFG).
THEOREM QuorumsAnswered == ConsensusSpec => []AnswersHaveQuorum
<1>1. ConsensusInit => SystemsInv BY SystemsInitial DEF ConsensusInit
<1>2. SystemsInv /\ [ConsensusNext]_allVars => SystemsInv'
  BY ConsensusPartsMove, SystemsStep
<1>3. SystemsInv => AnswersHaveQuorum BY DEF SystemsInv
<1> QED BY <1>1, <1>2, <1>3, PTL DEF ConsensusSpec
-----------------------------------------------------------------------------
(* Fork choice *)

Chains == [length : Scores, votes : Scores, timestamp : Scores, difficulty : Scores]

\* What lmdGhostForkChoice keeps after each of the chains.
LEMMA LmdSteps ==
    ASSUME NEW chains \in Seq(Chains)
    PROVE  \E f : /\ f[0] = None /\ f[Len(chains)] = lmdGhostForkChoice(chains)
                 /\ \A k \in DOMAIN chains :
                       LET b == f[k - 1]
                           c == chains[k]
                       IN f[k] = IF \/ b = None \/ c.votes > b.votes
                                    \/ c.votes = b.votes /\ c.timestamp > b.timestamp
                                 THEN c ELSE b
<1> DEFINE n == Len(chains)
           B == Chains \cup {None}
           taken(c, b) == \/ b = None \/ c.votes > b.votes
                          \/ c.votes = b.votes /\ c.timestamp > b.timestamp
           step == [i \in 1 .. n |-> [b \in B |->
                       IF taken(chains[i], b) THEN chains[i] ELSE b]]
           D == SUBSET DOMAIN chains
           body(g) == [s \in D |->
               IF s = {} THEN None
               ELSE IF taken(chains[Max(s)], g[s \ {Max(s)}])
                    THEN chains[Max(s)] ELSE g[s \ {Max(s)}]]
           I == CHOOSE g : g = body(g)
           f == [k \in 0 .. n |-> I[1 .. k]]
<1>1. lmdGhostForkChoice(chains) = I[DOMAIN chains]
  BY DEF lmdGhostForkChoice, FoldLeft, MapThenFoldSet
<1> HIDE DEF taken
<1>2. n \in Nat /\ DOMAIN chains = 1 .. n /\ \A i \in 1 .. n : chains[i] \in B OBVIOUS
<1>3. \A i \in 1 .. n : \A b \in B :
         step[i][b] = IF taken(chains[i], b) THEN chains[i] ELSE b
  BY Zenon
<1>4. PICK g \in [SUBSET (1 .. n) -> B] : FoldsTo(1 .. n, None, step, g)
  <2>1. None \in B OBVIOUS
  <2> HIDE DEF n, B, step
  <2>2. \A i \in 1 .. n : \A b \in B : step[i][b] \in B BY <1>2, <1>3
  <2> QED BY <1>2, <2>1, <2>2, FoldExists
<1>5. g = body(g)
  <2>1. D = SUBSET (1 .. n) BY <1>2
  <2>2. ASSUME NEW s \in SUBSET (1 .. n), s # {}
        PROVE  g[s] = IF taken(chains[Max(s)], g[s \ {Max(s)}])
                      THEN chains[Max(s)] ELSE g[s \ {Max(s)}]
    <3>1. Max(s) = Greatest(s) BY DEF Max, Greatest
    <3>2. Greatest(s) \in s BY <1>2, <2>2, GreatestIn
    <3>3. g[s] = step[Greatest(s)][g[s \ {Greatest(s)}]] BY <1>4, <2>2 DEF FoldsTo
    <3>4. s \ {Greatest(s)} \in SUBSET (1 .. n) OBVIOUS
    <3> HIDE DEF step, n, B
    <3>5. g[s \ {Max(s)}] \in B /\ Max(s) \in 1 .. n BY <3>1, <3>2, <3>4
    <3> QED BY <1>3, <3>1, <3>3, <3>5
  <2>3. g[{}] = None BY <1>4 DEF FoldsTo
  <2> HIDE DEF step, n, B
  <2>4. \A s \in SUBSET (1 .. n) : g[s] = body(g)[s] BY <2>1, <2>2, <2>3
  <2>5. DOMAIN g = D BY <2>1
  <2> QED BY <2>1, <2>4, <2>5
<1>6. I = body(I) BY <1>5
<1> HIDE DEF I
<1>7. I[{}] = None /\ 1 .. 0 = {}
  <2>1. {} \in D OBVIOUS
  <2> HIDE DEF D
  <2> QED BY <1>6, <2>1
<1>8. ASSUME NEW k \in DOMAIN chains
      PROVE  I[1 .. k] = IF taken(chains[k], I[1 .. (k - 1)])
                         THEN chains[k] ELSE I[1 .. (k - 1)]
  <2>1. k \in 1 .. n BY <1>2
  <2>2. 1 .. k \in D /\ 1 .. k # {} /\ (1 .. k) \ {k} = 1 .. (k - 1) BY <1>2, <2>1
  <2>3. Max(1 .. k) = k
    <3>1. 1 .. k \subseteq Int /\ k \in 1 .. k /\ \A y \in 1 .. k : k >= y BY <2>1
    <3>2. Greatest(1 .. k) = k BY <3>1, GreatestIs
    <3> QED BY <3>2 DEF Max, Greatest
  <2> HIDE DEF D
  <2> QED BY <1>6, <2>2, <2>3
<1>9. f[0] = None /\ f[n] = lmdGhostForkChoice(chains) BY <1>1, <1>2, <1>7
<1>10. \A k \in DOMAIN chains : f[k] = I[1 .. k] /\ f[k - 1] = I[1 .. (k - 1)] BY <1>2
<1> HIDE DEF f
<1>11. \A k \in DOMAIN chains : f[k] = IF taken(chains[k], f[k - 1])
                                      THEN chains[k] ELSE f[k - 1]
  BY <1>8, <1>10
<1> QED BY <1>9, <1>11 DEF taken

\* What ghostForkChoice keeps after each of the chains.
LEMMA GhostSteps ==
    ASSUME NEW chains \in Seq(Chains)
    PROVE  \E f : /\ f[0] = None /\ f[Len(chains)] = ghostForkChoice(chains)
                 /\ \A k \in DOMAIN chains :
                       LET b == f[k - 1]
                           c == chains[k]
                       IN f[k] = IF \/ b = None \/ c.length > b.length
                                    \/ c.length = b.length /\ c.difficulty > b.difficulty
                                 THEN c ELSE b
<1> DEFINE n == Len(chains)
           B == Chains \cup {None}
           taken(c, b) == \/ b = None \/ c.length > b.length
                          \/ c.length = b.length /\ c.difficulty > b.difficulty
           step == [i \in 1 .. n |-> [b \in B |->
                       IF taken(chains[i], b) THEN chains[i] ELSE b]]
           D == SUBSET DOMAIN chains
           body(g) == [s \in D |->
               IF s = {} THEN None
               ELSE IF taken(chains[Max(s)], g[s \ {Max(s)}])
                    THEN chains[Max(s)] ELSE g[s \ {Max(s)}]]
           I == CHOOSE g : g = body(g)
           f == [k \in 0 .. n |-> I[1 .. k]]
<1>1. ghostForkChoice(chains) = I[DOMAIN chains]
  BY DEF ghostForkChoice, FoldLeft, MapThenFoldSet
<1> HIDE DEF taken
<1>2. n \in Nat /\ DOMAIN chains = 1 .. n /\ \A i \in 1 .. n : chains[i] \in B OBVIOUS
<1>3. \A i \in 1 .. n : \A b \in B :
         step[i][b] = IF taken(chains[i], b) THEN chains[i] ELSE b
  BY Zenon
<1>4. PICK g \in [SUBSET (1 .. n) -> B] : FoldsTo(1 .. n, None, step, g)
  <2>1. None \in B OBVIOUS
  <2> HIDE DEF n, B, step
  <2>2. \A i \in 1 .. n : \A b \in B : step[i][b] \in B BY <1>2, <1>3
  <2> QED BY <1>2, <2>1, <2>2, FoldExists
<1>5. g = body(g)
  <2>1. D = SUBSET (1 .. n) BY <1>2
  <2>2. ASSUME NEW s \in SUBSET (1 .. n), s # {}
        PROVE  g[s] = IF taken(chains[Max(s)], g[s \ {Max(s)}])
                      THEN chains[Max(s)] ELSE g[s \ {Max(s)}]
    <3>1. Max(s) = Greatest(s) BY DEF Max, Greatest
    <3>2. Greatest(s) \in s BY <1>2, <2>2, GreatestIn
    <3>3. g[s] = step[Greatest(s)][g[s \ {Greatest(s)}]] BY <1>4, <2>2 DEF FoldsTo
    <3>4. s \ {Greatest(s)} \in SUBSET (1 .. n) OBVIOUS
    <3> HIDE DEF step, n, B
    <3>5. g[s \ {Max(s)}] \in B /\ Max(s) \in 1 .. n BY <3>1, <3>2, <3>4
    <3> QED BY <1>3, <3>1, <3>3, <3>5
  <2>3. g[{}] = None BY <1>4 DEF FoldsTo
  <2> HIDE DEF step, n, B
  <2>4. \A s \in SUBSET (1 .. n) : g[s] = body(g)[s] BY <2>1, <2>2, <2>3
  <2>5. DOMAIN g = D BY <2>1
  <2> QED BY <2>1, <2>4, <2>5
<1>6. I = body(I) BY <1>5
<1> HIDE DEF I
<1>7. I[{}] = None /\ 1 .. 0 = {}
  <2>1. {} \in D OBVIOUS
  <2> HIDE DEF D
  <2> QED BY <1>6, <2>1
<1>8. ASSUME NEW k \in DOMAIN chains
      PROVE  I[1 .. k] = IF taken(chains[k], I[1 .. (k - 1)])
                         THEN chains[k] ELSE I[1 .. (k - 1)]
  <2>1. k \in 1 .. n BY <1>2
  <2>2. 1 .. k \in D /\ 1 .. k # {} /\ (1 .. k) \ {k} = 1 .. (k - 1) BY <1>2, <2>1
  <2>3. Max(1 .. k) = k
    <3>1. 1 .. k \subseteq Int /\ k \in 1 .. k /\ \A y \in 1 .. k : k >= y BY <2>1
    <3>2. Greatest(1 .. k) = k BY <3>1, GreatestIs
    <3> QED BY <3>2 DEF Max, Greatest
  <2> HIDE DEF D
  <2> QED BY <1>6, <2>2, <2>3
<1>9. f[0] = None /\ f[n] = ghostForkChoice(chains) BY <1>1, <1>2, <1>7
<1>10. \A k \in DOMAIN chains : f[k] = I[1 .. k] /\ f[k - 1] = I[1 .. (k - 1)] BY <1>2
<1> HIDE DEF f
<1>11. \A k \in DOMAIN chains : f[k] = IF taken(chains[k], f[k - 1])
                                      THEN chains[k] ELSE f[k - 1]
  BY <1>8, <1>10
<1> QED BY <1>9, <1>11 DEF taken

\* What longestChainForkChoice keeps after each of the chains.
LEMMA LongestSteps ==
    ASSUME NEW chains \in Seq(Chains)
    PROVE  \E f : /\ f[0] = None /\ f[Len(chains)] = longestChainForkChoice(chains)
                 /\ \A k \in DOMAIN chains :
                       LET b == f[k - 1]
                           c == chains[k]
                       IN f[k] = IF b = None \/ c.length > b.length
                                 THEN c ELSE b
<1> DEFINE n == Len(chains)
           B == Chains \cup {None}
           taken(c, b) == b = None \/ c.length > b.length
           step == [i \in 1 .. n |-> [b \in B |->
                       IF taken(chains[i], b) THEN chains[i] ELSE b]]
           D == SUBSET DOMAIN chains
           body(g) == [s \in D |->
               IF s = {} THEN None
               ELSE IF taken(chains[Max(s)], g[s \ {Max(s)}])
                    THEN chains[Max(s)] ELSE g[s \ {Max(s)}]]
           I == CHOOSE g : g = body(g)
           f == [k \in 0 .. n |-> I[1 .. k]]
<1>1. longestChainForkChoice(chains) = I[DOMAIN chains]
  BY DEF longestChainForkChoice, FoldLeft, MapThenFoldSet
<1> HIDE DEF taken
<1>2. n \in Nat /\ DOMAIN chains = 1 .. n /\ \A i \in 1 .. n : chains[i] \in B OBVIOUS
<1>3. \A i \in 1 .. n : \A b \in B :
         step[i][b] = IF taken(chains[i], b) THEN chains[i] ELSE b
  BY Zenon
<1>4. PICK g \in [SUBSET (1 .. n) -> B] : FoldsTo(1 .. n, None, step, g)
  <2>1. None \in B OBVIOUS
  <2> HIDE DEF n, B, step
  <2>2. \A i \in 1 .. n : \A b \in B : step[i][b] \in B BY <1>2, <1>3
  <2> QED BY <1>2, <2>1, <2>2, FoldExists
<1>5. g = body(g)
  <2>1. D = SUBSET (1 .. n) BY <1>2
  <2>2. ASSUME NEW s \in SUBSET (1 .. n), s # {}
        PROVE  g[s] = IF taken(chains[Max(s)], g[s \ {Max(s)}])
                      THEN chains[Max(s)] ELSE g[s \ {Max(s)}]
    <3>1. Max(s) = Greatest(s) BY DEF Max, Greatest
    <3>2. Greatest(s) \in s BY <1>2, <2>2, GreatestIn
    <3>3. g[s] = step[Greatest(s)][g[s \ {Greatest(s)}]] BY <1>4, <2>2 DEF FoldsTo
    <3>4. s \ {Greatest(s)} \in SUBSET (1 .. n) OBVIOUS
    <3> HIDE DEF step, n, B
    <3>5. g[s \ {Max(s)}] \in B /\ Max(s) \in 1 .. n BY <3>1, <3>2, <3>4
    <3> QED BY <1>3, <3>1, <3>3, <3>5
  <2>3. g[{}] = None BY <1>4 DEF FoldsTo
  <2> HIDE DEF step, n, B
  <2>4. \A s \in SUBSET (1 .. n) : g[s] = body(g)[s] BY <2>1, <2>2, <2>3
  <2>5. DOMAIN g = D BY <2>1
  <2> QED BY <2>1, <2>4, <2>5
<1>6. I = body(I) BY <1>5
<1> HIDE DEF I
<1>7. I[{}] = None /\ 1 .. 0 = {}
  <2>1. {} \in D OBVIOUS
  <2> HIDE DEF D
  <2> QED BY <1>6, <2>1
<1>8. ASSUME NEW k \in DOMAIN chains
      PROVE  I[1 .. k] = IF taken(chains[k], I[1 .. (k - 1)])
                         THEN chains[k] ELSE I[1 .. (k - 1)]
  <2>1. k \in 1 .. n BY <1>2
  <2>2. 1 .. k \in D /\ 1 .. k # {} /\ (1 .. k) \ {k} = 1 .. (k - 1) BY <1>2, <2>1
  <2>3. Max(1 .. k) = k
    <3>1. 1 .. k \subseteq Int /\ k \in 1 .. k /\ \A y \in 1 .. k : k >= y BY <2>1
    <3>2. Greatest(1 .. k) = k BY <3>1, GreatestIs
    <3> QED BY <3>2 DEF Max, Greatest
  <2> HIDE DEF D
  <2> QED BY <1>6, <2>2, <2>3
<1>9. f[0] = None /\ f[n] = longestChainForkChoice(chains) BY <1>1, <1>2, <1>7
<1>10. \A k \in DOMAIN chains : f[k] = I[1 .. k] /\ f[k - 1] = I[1 .. (k - 1)] BY <1>2
<1> HIDE DEF f
<1>11. \A k \in DOMAIN chains : f[k] = IF taken(chains[k], f[k - 1])
                                      THEN chains[k] ELSE f[k - 1]
  BY <1>8, <1>10
<1> QED BY <1>9, <1>11 DEF taken

\* A list of steps that keeps the heavier one, the earlier one of two alike, ends
\* with the first chain that no other outweighs.
LEMMA KeepsHeaviest ==
    ASSUME NEW chains \in Seq(Chains), chains # <<>>, NEW f, f[0] = None,
           \A k \in DOMAIN chains :
               f[k] = IF f[k - 1] = None \/ Outweighs(chains[k], f[k - 1])
                      THEN chains[k] ELSE f[k - 1]
    PROVE  \E i \in DOMAIN chains :
              /\ f[Len(chains)] = chains[i]
              /\ \A j \in DOMAIN chains : /\ ~Outweighs(chains[j], chains[i])
                                          /\ j < i => Outweighs(chains[i], chains[j])
<1> DEFINE n == Len(chains)
           Leads(k, i) == \A j \in 1 .. k : /\ ~Outweighs(chains[j], chains[i])
                                            /\ j < i => Outweighs(chains[i], chains[j])
           Good == {k \in 0 .. n : k = 0 \/ \E i \in 1 .. k : f[k] = chains[i] /\ Leads(k, i)}
<1>1. n \in Nat /\ n # 0 /\ DOMAIN chains = 1 .. n /\ \A k \in 1 .. n : chains[k] \in Chains
  OBVIOUS
<1> HIDE DEF n
<1>2. \A c \in Chains : c # None /\ Weight(c)[1] \in Int /\ Weight(c)[2] \in Int
  <2> SUFFICES ASSUME NEW c \in Chains
               PROVE  c # None /\ Weight(c)[1] \in Int /\ Weight(c)[2] \in Int
    OBVIOUS
  <2>1. c.length \in Int /\ c.votes \in Int /\ c.timestamp \in Int /\ c.difficulty \in Int
    <3>1. /\ c.length \in Scores /\ c.votes \in Scores
          /\ c.timestamp \in Scores /\ c.difficulty \in Scores
      BY DEF Chains
    <3>2. \A x \in Scores : x \in Int BY ForkChoiceAssumption
    <3> QED BY Zenon, <3>1, <3>2
  <2>2. c # None
    <3>1. DOMAIN c = {"length", "votes", "timestamp", "difficulty"} BY DEF Chains
    <3>2. DOMAIN None = {"none"} BY DEF None
    <3>3. "length" \notin DOMAIN None BY <3>2
    <3> QED BY Zenon, <3>1, <3>3
  <2> QED BY <2>1, <2>2 DEF Weight
<1>3. \A c \in Chains : ~Outweighs(c, c) BY <1>2 DEF Outweighs
<1>4. \A c, d, e \in Chains : ~Outweighs(c, d) /\ Outweighs(e, d) => Outweighs(e, c)
  <2> SUFFICES ASSUME NEW c \in Chains, NEW d \in Chains, NEW e \in Chains,
                      ~Outweighs(c, d), Outweighs(e, d)
               PROVE  Outweighs(e, c)
    OBVIOUS
  <2>1. /\ Weight(c)[1] \in Int /\ Weight(c)[2] \in Int /\ Weight(d)[1] \in Int
        /\ Weight(d)[2] \in Int /\ Weight(e)[1] \in Int /\ Weight(e)[2] \in Int
    BY <1>2
  <2> QED BY <2>1 DEF Outweighs
<1>5. \A c, d \in Chains : Outweighs(c, d) => ~Outweighs(d, c)
  <2> SUFFICES ASSUME NEW c \in Chains, NEW d \in Chains, Outweighs(c, d)
               PROVE  ~Outweighs(d, c)
    OBVIOUS
  <2>1. /\ Weight(c)[1] \in Int /\ Weight(c)[2] \in Int
        /\ Weight(d)[1] \in Int /\ Weight(d)[2] \in Int
    BY <1>2
  <2> QED BY <2>1 DEF Outweighs
<1>6. ASSUME NEW k \in 0 .. n, k \in Good, k < n PROVE k + 1 \in Good
  <2>1. k + 1 \in 1 .. n /\ (k + 1) - 1 = k BY <1>1, <1>6
  <2>2. f[k + 1] = IF f[k] = None \/ Outweighs(chains[k + 1], f[k])
                   THEN chains[k + 1] ELSE f[k]
    BY <1>1, <2>1
  <2>3. CASE k = 0
    <3>1. f[1] = chains[1] BY <2>2, <2>3
    <3>2. Leads(1, 1) BY <1>1, <1>3
    <3> QED BY <2>1, <2>3, <3>1, <3>2
  <2>4. CASE k # 0
    <3>1. PICK i \in 1 .. k : f[k] = chains[i] /\ Leads(k, i) BY <1>6, <2>4
    <3>2. /\ i \in 1 .. n /\ chains[i] \in Chains /\ chains[k + 1] \in Chains
          /\ \A j \in 1 .. k : j \in 1 .. n /\ chains[j] \in Chains
          /\ \A j \in 1 .. (k + 1) : j \in 1 .. k \/ j = k + 1
      BY <1>1, <2>1
    <3>3. CASE Outweighs(chains[k + 1], chains[i])
      <4>1. f[k + 1] = chains[k + 1] BY <2>2, <3>1, <3>3
      <4>2. \A j \in 1 .. k : Outweighs(chains[k + 1], chains[j])
        BY <1>4, <3>1, <3>2, <3>3
      <4>3. \A j \in 1 .. (k + 1) : ~Outweighs(chains[j], chains[k + 1])
        BY <1>3, <1>5, <3>2, <4>2
      <4>4. \A j \in 1 .. (k + 1) : j < k + 1 => Outweighs(chains[k + 1], chains[j])
        BY <3>2, <4>2
      <4>5. Leads(k + 1, k + 1) BY <4>3, <4>4
      <4>6. k + 1 \in 1 .. (k + 1) /\ k + 1 \in 0 .. n BY <2>1
      <4> HIDE DEF Leads
      <4> QED BY <4>1, <4>5, <4>6
    <3>4. CASE ~Outweighs(chains[k + 1], chains[i])
      <4>1. f[k + 1] = chains[i] BY <1>2, <2>2, <3>1, <3>2, <3>4
      <4>2. \A j \in 1 .. (k + 1) : ~Outweighs(chains[j], chains[i]) BY <3>1, <3>2, <3>4
      <4>3. \A j \in 1 .. (k + 1) : j < i => Outweighs(chains[i], chains[j])
        BY <3>1, <3>2
      <4>4. Leads(k + 1, i) BY <4>2, <4>3
      <4>5. i \in 1 .. (k + 1) /\ k + 1 \in 0 .. n BY <2>1
      <4> HIDE DEF Leads
      <4> QED BY <4>1, <4>4, <4>5
    <3> QED BY <3>3, <3>4
  <2> QED BY <2>3, <2>4
<1>7. 0 \in Good BY <1>1
<1>8. n \in Good
  <2> HIDE DEF Good
  <2>1. 0 .. n \subseteq Good BY <1>1, <1>6, <1>7, UpTo
  <2> QED BY <1>1, <2>1
<1>9. PICK i \in 1 .. n : f[n] = chains[i] /\ Leads(n, i) BY <1>1, <1>8
<1> QED BY <1>1, <1>9 DEF n

\* What applyForkChoice chooses is the first of the chains that no other outweighs.
LEMMA HeaviestChosen ==
    ASSUME competing \in Seq(Chains) PROVE ChoosesHeaviest
<1> SUFFICES ASSUME competing # <<>>
             PROVE  \E i \in DOMAIN competing :
                       /\ applyForkChoice(competing) = competing[i]
                       /\ \A j \in DOMAIN competing :
                             /\ ~Outweighs(competing[j], competing[i])
                             /\ j < i => Outweighs(competing[i], competing[j])
  BY DEF ChoosesHeaviest
<1> DEFINE Steps(f) == /\ f[0] = None /\ f[Len(competing)] = applyForkChoice(competing)
                       /\ \A k \in DOMAIN competing :
                             f[k] = IF f[k - 1] = None \/ Outweighs(competing[k], f[k - 1])
                                    THEN competing[k] ELSE f[k - 1]
<1>1. \E f : Steps(f)
  <2>1. CASE algorithm = "GHOST"
    <3>1. applyForkChoice(competing) = ghostForkChoice(competing) BY <2>1 DEF applyForkChoice
    <3>2. \A c, b : Outweighs(c, b) <=> \/ c.length > b.length
                                        \/ c.length = b.length /\ c.difficulty > b.difficulty
      BY <2>1 DEF Outweighs, Weight
    <3>3. PICK f : /\ f[0] = None /\ f[Len(competing)] = ghostForkChoice(competing)
                   /\ \A k \in DOMAIN competing :
                         LET b == f[k - 1]
                             c == competing[k]
                         IN f[k] = IF \/ b = None \/ c.length > b.length
                                      \/ c.length = b.length /\ c.difficulty > b.difficulty
                                   THEN c ELSE b
      BY GhostSteps
    <3>4. Steps(f) BY <3>1, <3>2, <3>3
    <3> QED BY <3>4
  <2>2. CASE algorithm = "LongestChain"
    <3>1. applyForkChoice(competing) = longestChainForkChoice(competing)
      BY <2>2 DEF applyForkChoice
    <3>2. \A c, b : Outweighs(c, b) <=> c.length > b.length
      BY <2>2 DEF Outweighs, Weight
    <3>3. PICK f : /\ f[0] = None /\ f[Len(competing)] = longestChainForkChoice(competing)
                   /\ \A k \in DOMAIN competing :
                         LET b == f[k - 1]
                             c == competing[k]
                         IN f[k] = IF b = None \/ c.length > b.length THEN c ELSE b
      BY LongestSteps
    <3>4. Steps(f) BY <3>1, <3>2, <3>3
    <3> QED BY <3>4
  <2>3. CASE algorithm \notin {"GHOST", "LongestChain"}
    <3>1. applyForkChoice(competing) = lmdGhostForkChoice(competing)
      BY <2>3 DEF applyForkChoice
    <3>2. \A c, b : Outweighs(c, b) <=> \/ c.votes > b.votes
                                        \/ c.votes = b.votes /\ c.timestamp > b.timestamp
      BY <2>3 DEF Outweighs, Weight
    <3>3. PICK f : /\ f[0] = None /\ f[Len(competing)] = lmdGhostForkChoice(competing)
                   /\ \A k \in DOMAIN competing :
                         LET b == f[k - 1]
                             c == competing[k]
                         IN f[k] = IF \/ b = None \/ c.votes > b.votes
                                      \/ c.votes = b.votes /\ c.timestamp > b.timestamp
                                   THEN c ELSE b
      BY LmdSteps
    <3>4. Steps(f) BY <3>1, <3>2, <3>3
    <3> QED BY <3>4
  <2> QED BY <2>1, <2>2, <2>3
<1>2. PICK f : Steps(f) BY <1>1
<1> QED BY <1>2, KeepsHeaviest

\* Whatever the rule and in whatever order the chains come, the one chosen is the
\* first that no other outweighs (applyForkChoice).
THEOREM HeaviestChain == ConsensusSpec => []ChoosesHeaviest
<1> DEFINE Inv == competing \in Seq(Chains)
<1>1. ConsensusInit => Inv BY DEF ConsensusInit, ForkChoiceInit
<1>2. Inv /\ [ConsensusNext]_allVars => Inv'
  <2> SUFFICES ASSUME Inv, [ForkChoiceNext]_forkChoiceVars PROVE Inv'
    BY ConsensusPartsMove
  <2>1. CASE UNCHANGED forkChoiceVars BY <2>1 DEF forkChoiceVars
  <2>2. CASE ForkChoiceNext
    <3>1. PICK c \in Chains : competing' = Append(competing, c)
      BY <2>2 DEF ForkChoiceNext, Chains
    <3> QED BY <3>1
  <2> QED BY <2>1, <2>2
<1>3. Inv => ChoosesHeaviest BY HeaviestChosen
<1> QED BY <1>1, <1>2, <1>3, PTL DEF ConsensusSpec

-----------------------------------------------------------------------------
(* The fork handler *)

ForkBlocks == [previous : Nat, index : Nat, weight : Nat, valid : BOOLEAN]

\* Every block but the first follows one made before it.
BlocksWell ==
    /\ blocks \in Seq(ForkBlocks) /\ FirstBlock \in DOMAIN blocks
    /\ blocks[FirstBlock].previous = 0 /\ blocks[FirstBlock].valid
    /\ \A b \in DOMAIN blocks \ {FirstBlock} : blocks[b].previous \in 1 .. (b - 1)

\* From the first block on, each follows the one before it.
Linked(chain) ==
    /\ chain \in Seq(DOMAIN blocks) /\ chain # <<>> /\ chain[1] = FirstBlock
    /\ \A i \in 2 .. Len(chain) : blocks[chain[i]].previous = chain[i - 1]

ForkInv ==
    /\ BlocksWell /\ Linked(local_chain)
    /\ \A i \in DOMAIN local_chain : blocks[local_chain[i]].valid

\* What ChainTo asks of a function.
FollowsBlocks(m, g) ==
    \A c \in 1 .. m : g[c] = IF c = FirstBlock THEN <<c>> ELSE Append(g[blocks[c].previous], c)

LEMMA ChainsExist ==
    ASSUME BlocksWell
    PROVE  \E g \in [DOMAIN blocks -> Seq(DOMAIN blocks)] : FollowsBlocks(Len(blocks), g)
<1> DEFINE n == Len(blocks)
           C == Seq(DOMAIN blocks)
           Good == {m \in 0 .. n : \E g \in [1 .. m -> C] : FollowsBlocks(m, g)}
<1>1. n \in Nat /\ DOMAIN blocks = 1 .. n BY DEF BlocksWell
<1>2. \A c \in 1 .. n : c = FirstBlock \/ blocks[c].previous \in 1 .. (c - 1)
  BY <1>1 DEF BlocksWell
<1>3. \A c \in 1 .. n : <<c>> \in C /\ \A s \in C : Append(s, c) \in C BY <1>1
<1> HIDE DEF n, C
<1>4. 0 \in Good
  <2> DEFINE g == [c \in 1 .. 0 |-> <<>>]
  <2>1. \A c \in 1 .. 0 : FALSE OBVIOUS
  <2>2. g \in [1 .. 0 -> C] BY <2>1
  <2>3. FollowsBlocks(0, g) BY <2>1 DEF FollowsBlocks
  <2> HIDE DEF g
  <2>4. \E h \in [1 .. 0 -> C] : FollowsBlocks(0, h) BY <2>2, <2>3
  <2>5. 0 \in 0 .. n BY <1>1
  <2> QED BY <2>4, <2>5
<1>5. ASSUME NEW m \in 0 .. n, m \in Good, m < n PROVE m + 1 \in Good
  <2>1. PICK g \in [1 .. m -> C] : FollowsBlocks(m, g) BY <1>5
  <2> DEFINE p == blocks[m + 1].previous
             last == IF m + 1 = FirstBlock THEN <<m + 1>> ELSE Append(g[p], m + 1)
             h == [c \in 1 .. (m + 1) |-> IF c = m + 1 THEN last ELSE g[c]]
  <2>2. m \in Nat /\ m + 1 \in 1 .. n /\ m + 1 \in 0 .. n /\ (m + 1) - 1 = m BY <1>1, <1>5
  <2>3. m + 1 = FirstBlock \/ p \in 1 .. m BY <1>2, <2>2
  <2>4. last \in C BY <1>3, <2>2, <2>3
  <2>5. \A c \in 1 .. (m + 1) : c \in 1 .. m \/ c = m + 1 BY <2>2
  <2>6. \A c \in 1 .. m : c \in 1 .. (m + 1) /\ c # m + 1 /\ c \in 1 .. n BY <1>1, <2>2
  <2>7. m + 1 \in 1 .. (m + 1) BY <2>2
  <2>8. /\ h[m + 1] = last /\ \A c \in 1 .. m : h[c] = g[c]
    BY <2>6, <2>7
  <2>9. h \in [1 .. (m + 1) -> C]
    <3> HIDE DEF last
    <3> QED BY <2>4, <2>5
  <2> HIDE DEF h
  <2>10. ASSUME NEW c \in 1 .. (m + 1)
         PROVE  h[c] = IF c = FirstBlock THEN <<c>> ELSE Append(h[blocks[c].previous], c)
    <3>1. CASE c = m + 1 BY <2>3, <2>8, <3>1
    <3>2. CASE c \in 1 .. m
      <4>1. h[c] = g[c] BY <2>8, <3>2
      <4>2. g[c] = IF c = FirstBlock THEN <<c>> ELSE Append(g[blocks[c].previous], c)
        BY <2>1, <3>2 DEF FollowsBlocks
      <4>3. c # FirstBlock => blocks[c].previous \in 1 .. m
        <5>1. c # FirstBlock => blocks[c].previous \in 1 .. (c - 1) BY <1>2, <2>6, <3>2
        <5> QED BY <2>2, <3>2, <5>1
      <4>4. c # FirstBlock => h[blocks[c].previous] = g[blocks[c].previous] BY <2>8, <4>3
      <4> QED BY <4>1, <4>2, <4>4
    <3> QED BY <2>5, <3>1, <3>2
  <2>11. FollowsBlocks(m + 1, h) BY <2>10 DEF FollowsBlocks
  <2> QED BY <2>2, <2>9, <2>11
<1>6. n \in Good
  <2> HIDE DEF Good
  <2>1. 0 .. n \subseteq Good BY <1>1, <1>4, <1>5, UpTo
  <2> QED BY <1>1, <2>1
<1> QED BY <1>1, <1>6 DEF n, C

\* ChainTo is the chain of the previous block with the block behind it.
LEMMA ChainOfBlock ==
    ASSUME BlocksWell
    PROVE  /\ \A b \in DOMAIN blocks : ChainTo(b) \in Seq(DOMAIN blocks)
           /\ ChainTo(FirstBlock) = <<FirstBlock>>
           /\ \A b \in DOMAIN blocks \ {FirstBlock} :
                 ChainTo(b) = Append(ChainTo(blocks[b].previous), b)
<1> DEFINE n == Len(blocks)
<1>1. n \in Nat /\ DOMAIN blocks = 1 .. n /\ FirstBlock \in 1 .. n BY DEF BlocksWell
<1>2. \A c \in 1 .. n : c = FirstBlock \/ blocks[c].previous \in 1 .. (c - 1)
  BY <1>1 DEF BlocksWell
<1>3. PICK g \in [1 .. n -> Seq(DOMAIN blocks)] : FollowsBlocks(n, g)
  BY <1>1, ChainsExist
<1> HIDE DEF n
<1>4. ASSUME NEW b \in 1 .. n PROVE ChainTo(b) = g[b]
  <2> DEFINE body(f) == [c \in 1 .. b |->
                 IF c = FirstBlock THEN <<c>> ELSE Append(f[blocks[c].previous], c)]
             f == CHOOSE f : f = body(f)
             own == [c \in 1 .. b |-> g[c]]
             Differ == {c \in 1 .. b : f[c] # g[c]}
  <2>1. ChainTo(b) = f[b] BY DEF ChainTo
  <2>2. \A c \in 1 .. b : c \in 1 .. n BY <1>1
  <2>3. \A c \in 1 .. b : c = FirstBlock \/ blocks[c].previous \in 1 .. b
    <3> SUFFICES ASSUME NEW c \in 1 .. b, c # FirstBlock
                 PROVE  blocks[c].previous \in 1 .. b
      OBVIOUS
    <3>1. blocks[c].previous \in 1 .. (c - 1) BY <1>2, <2>2
    <3> QED BY <1>1, <3>1
  <2>4. own = body(own)
    <3>1. \A c \in 1 .. b : own[c] = g[c] OBVIOUS
    <3>2. \A c \in 1 .. b : g[c] = IF c = FirstBlock THEN <<c>>
                                   ELSE Append(g[blocks[c].previous], c)
      BY <1>3, <2>2 DEF FollowsBlocks
    <3>3. DOMAIN own = 1 .. b OBVIOUS
    <3>4. own = [c \in 1 .. b |-> own[c]] BY <3>3
    <3> HIDE DEF own
    <3>5. \A c \in 1 .. b : own[c] = IF c = FirstBlock THEN <<c>>
                                     ELSE Append(own[blocks[c].previous], c)
      BY <2>3, <3>1, <3>2
    <3> QED BY <3>4, <3>5
  <2>5. f = body(f) BY <2>4
  <2> HIDE DEF f, own
  <2>6. Differ = {}
    <3> SUFFICES ASSUME Differ # {} PROVE FALSE OBVIOUS
    <3>1. Differ \subseteq Nat BY <1>1
    <3>2. PICK c \in Differ : \A d \in Differ : c <= d
      <4> HIDE DEF Differ
      <4> QED BY <3>1, Least
    <3>3. c \in 1 .. b /\ c \in 1 .. n /\ f[c] # g[c] BY <2>2
    <3>4. f[c] = IF c = FirstBlock THEN <<c>> ELSE Append(f[blocks[c].previous], c)
      BY <2>5, <3>3
    <3>5. g[c] = IF c = FirstBlock THEN <<c>> ELSE Append(g[blocks[c].previous], c)
      BY <1>3, <3>3 DEF FollowsBlocks
    <3>6. c # FirstBlock BY <3>3, <3>4, <3>5
    <3>7. blocks[c].previous \in 1 .. (c - 1) BY <1>2, <3>3, <3>6
    <3>8. blocks[c].previous \in 1 .. b /\ blocks[c].previous < c BY <1>1, <3>3, <3>7
    <3>9. blocks[c].previous \notin Differ
      <4> HIDE DEF Differ
      <4> SUFFICES ASSUME blocks[c].previous \in Differ PROVE FALSE OBVIOUS
      <4>1. c <= blocks[c].previous BY <3>2
      <4> QED BY <3>3, <3>7, <4>1
    <3>10. f[blocks[c].previous] = g[blocks[c].previous] BY <3>8, <3>9
    <3> QED BY <3>3, <3>4, <3>5, <3>6, <3>10
  <2>7. b \in 1 .. b BY <1>1
  <2> QED BY <2>1, <2>6, <2>7
<1>5. \A b \in 1 .. n : ChainTo(b) \in Seq(DOMAIN blocks) BY <1>3, <1>4
<1>6. ChainTo(FirstBlock) = <<FirstBlock>>
  BY <1>1, <1>3, <1>4 DEF FollowsBlocks
<1>7. ASSUME NEW b \in 1 .. n, b # FirstBlock
      PROVE  ChainTo(b) = Append(ChainTo(blocks[b].previous), b)
  <2>1. blocks[b].previous \in 1 .. (b - 1) BY <1>2, <1>7
  <2>2. blocks[b].previous \in 1 .. n BY <1>1, <2>1
  <2>3. g[b] = Append(g[blocks[b].previous], b) BY <1>3, <1>7 DEF FollowsBlocks
  <2> QED BY <1>4, <2>2, <2>3
<1> QED BY <1>1, <1>5, <1>6, <1>7

\* A sequence over a set is one over a larger set.
LEMMA SeqWider ==
    ASSUME NEW S, NEW W, S \subseteq W, NEW s \in Seq(S)
    PROVE  s \in Seq(W)
OBVIOUS

\* A chain of blocks that follow each other from the first is the chain of its last.
LEMMA LinkedIsWhole ==
    ASSUME BlocksWell, NEW chain, Linked(chain)
    PROVE  chain = ChainTo(Last(chain))
<1> DEFINE n == Len(chain)
           Good == {k \in 0 .. n : k = 0 \/ SubSeq(chain, 1, k) = ChainTo(chain[k])}
<1>1. /\ chain \in Seq(DOMAIN blocks) /\ n \in Nat /\ n # 0 /\ DOMAIN chain = 1 .. n
      /\ chain[1] = FirstBlock
      /\ \A i \in 2 .. n : blocks[chain[i]].previous = chain[i - 1]
      /\ \A i \in 1 .. n : chain[i] \in DOMAIN blocks
  BY DEF Linked
<1>2. \A b \in DOMAIN blocks : b # 0 BY DEF BlocksWell
<1>3. \A k \in 1 .. n : SubSeq(chain, 1, k) \in Seq(DOMAIN blocks) BY <1>1
<1>4. SubSeq(chain, 1, n) = chain
  <2> DEFINE S == DOMAIN blocks
             r == SubSeq(chain, 1, n)
  <2>1. r \in Seq(S) /\ Len(r) = n /\ \A i \in 1 .. n : r[i] = chain[i] BY <1>1
  <2>2. chain \in Seq(S) /\ Len(chain) = n BY <1>1
  <2> HIDE DEF r, S, n
  <2>3. r = chain BY <2>1, <2>2, SeqEqual
  <2> QED BY <2>3 DEF r
<1>5. SubSeq(chain, 1, 1) = <<chain[1]>>
  <2> DEFINE S == DOMAIN blocks
             r == SubSeq(chain, 1, 1)
             s == <<chain[1]>>
  <2>1. r \in Seq(S) /\ Len(r) = 1 /\ r[1] = chain[1] BY <1>1
  <2>2. s \in Seq(S) /\ Len(s) = 1 /\ s[1] = chain[1] BY <1>1
  <2> HIDE DEF r, S, s
  <2>3. r = s BY <2>1, <2>2, SeqEqual
  <2> QED BY <2>3 DEF r, s
<1>6. ASSUME NEW k \in 1 .. n, k < n
      PROVE  SubSeq(chain, 1, k + 1) = Append(SubSeq(chain, 1, k), chain[k + 1])
  BY <1>1, <1>6
<1> HIDE DEF n
<1>7. ASSUME NEW k \in 0 .. n, k \in Good, k < n PROVE k + 1 \in Good
  <2>1. k + 1 \in 1 .. n /\ k + 1 \in 0 .. n /\ (k + 1) - 1 = k BY <1>1, <1>7
  <2>2. CASE k = 0
    <3>1. SubSeq(chain, 1, k + 1) = ChainTo(chain[k + 1])
      BY <1>1, <1>5, <2>2, ChainOfBlock
    <3> QED BY <2>1, <3>1
  <2>3. CASE k # 0
    <3>1. k \in 1 .. n /\ k + 1 \in 2 .. n BY <1>1, <2>1, <2>3
    <3>2. SubSeq(chain, 1, k) = ChainTo(chain[k]) BY <1>7, <2>3
    <3>3. blocks[chain[k + 1]].previous = chain[k] /\ chain[k] # 0
      BY <1>1, <1>2, <2>1, <3>1
    <3>4. chain[k + 1] \in DOMAIN blocks \ {FirstBlock} BY <1>1, <2>1, <3>3 DEF BlocksWell
    <3>5. ChainTo(chain[k + 1]) = Append(ChainTo(chain[k]), chain[k + 1])
      BY <3>3, <3>4, ChainOfBlock
    <3>6. SubSeq(chain, 1, k + 1) = ChainTo(chain[k + 1]) BY <1>6, <1>7, <3>1, <3>2, <3>5
    <3> QED BY <2>1, <3>6
  <2> QED BY <2>2, <2>3
<1>8. n \in Good
  <2>1. 0 \in Good BY <1>1
  <2> HIDE DEF Good
  <2>2. 0 .. n \subseteq Good BY <1>1, <1>7, <2>1, UpTo
  <2> QED BY <1>1, <2>2
<1>9. chain = ChainTo(chain[n]) BY <1>1, <1>4, <1>8
<1> QED BY <1>9 DEF Last, n

\* What a peer sends is made of blocks there are.
LEMMA PeersSendBlocks ==
    ASSUME BlocksWell, NEW peer \in PeerChains
    PROVE  peer \in Seq(DOMAIN blocks)
<1>1. \A b \in DOMAIN blocks : ChainTo(b) \in Seq(DOMAIN blocks) BY ChainOfBlock
<1>2. ASSUME NEW c \in Seq(DOMAIN blocks), NEW i \in DOMAIN c
      PROVE  RemoveAt(c, i) \in Seq(DOMAIN blocks)
  <2>1. Len(c) \in Nat /\ i \in 1 .. Len(c) OBVIOUS
  <2>2. SubSeq(c, 1, i - 1) \in Seq(DOMAIN blocks) BY <2>1
  <2>3. SubSeq(c, i + 1, Len(c)) \in Seq(DOMAIN blocks) BY <2>1
  <2> QED BY <2>2, <2>3 DEF RemoveAt
<1>3. (\E b \in DOMAIN blocks : peer = ChainTo(b))
      \/ \E b \in DOMAIN blocks : \E i \in DOMAIN ChainTo(b) : peer = RemoveAt(ChainTo(b), i)
  BY DEF PeerChains
<1> QED BY <1>1, <1>2, <1>3

LEMMA ForkInitial ==
    ASSUME ForkResolutionInit PROVE ForkInv
<1>1. blocks \in Seq(ForkBlocks) /\ DOMAIN blocks = {1}
  BY DEF ForkResolutionInit, ForkBlocks, FirstWeight
<1>2. local_chain = <<FirstBlock>> /\ local_chain \in Seq(DOMAIN blocks)
  BY <1>1 DEF ForkResolutionInit, FirstBlock
<1>3. BlocksWell BY <1>1 DEF ForkResolutionInit, BlocksWell, FirstBlock
<1>4. Linked(local_chain) BY <1>2 DEF Linked
<1> QED BY <1>2, <1>3, <1>4 DEF ForkInv, BlocksWell

LEMMA ForkStep ==
    ASSUME ForkInv, [ForkResolutionNext]_forkResolutionVars PROVE ForkInv'
<1>0. /\ BlocksWell /\ Linked(local_chain)
      /\ blocks \in Seq(ForkBlocks) /\ local_chain \in Seq(DOMAIN blocks)
      /\ Len(blocks) \in Nat /\ Len(local_chain) \in Nat /\ Len(local_chain) # 0
      /\ DOMAIN blocks = 1 .. Len(blocks) /\ DOMAIN local_chain = 1 .. Len(local_chain)
      /\ \A i \in DOMAIN local_chain : local_chain[i] \in DOMAIN blocks
  BY DEF ForkInv, BlocksWell, Linked
<1>1. ASSUME NEW b \in DOMAIN blocks, NEW w \in Weights, NEW ok \in BOOLEAN, MakeBlock(b, w, ok)
      PROVE  ForkInv'
  <2> DEFINE new == [previous |-> b, index |-> blocks[b].index + 1, weight |-> w, valid |-> ok]
             n == Len(blocks) + 1
  <2>1. new \in ForkBlocks /\ new.previous = b
    <3>1. blocks[b] \in ForkBlocks BY <1>0
    <3>2. blocks[b].index + 1 \in Nat BY <3>1 DEF ForkBlocks
    <3>3. b \in Nat /\ w \in Nat BY <1>0, ForkResolutionAssumption
    <3> QED BY <3>2, <3>3 DEF ForkBlocks
  <2>2. blocks' = Append(blocks, new) /\ local_chain' = local_chain BY <1>1 DEF MakeBlock
  <2> HIDE DEF new
  <2>3. /\ blocks' \in Seq(ForkBlocks) /\ DOMAIN blocks' = DOMAIN blocks \cup {n}
        /\ n \notin DOMAIN blocks /\ blocks'[n] = new
        /\ \A c \in DOMAIN blocks : blocks'[c] = blocks[c]
    BY <1>0, <2>1, <2>2
  <2>4. BlocksWell'
    <3>1. new.previous \in 1 .. (n - 1) /\ FirstBlock \in DOMAIN blocks
      BY <1>0, <2>1 DEF BlocksWell
    <3> HIDE DEF n
    <3> QED BY <1>0, <2>3, <3>1 DEF BlocksWell
  <2>5. Linked(local_chain)'
    <3>1. local_chain \in Seq(DOMAIN blocks')
      <4>1. DOMAIN blocks \subseteq DOMAIN blocks' BY <2>3
      <4> QED BY <1>0, <4>1, SeqWider
    <3>2. \A i \in 2 .. Len(local_chain) :
             blocks'[local_chain[i]].previous = local_chain[i - 1]
      BY <1>0, <2>3 DEF Linked
    <3> QED BY <1>0, <2>2, <3>1, <3>2 DEF Linked
  <2> QED BY <1>0, <2>2, <2>3, <2>4, <2>5 DEF ForkInv
<1>2. ASSUME NEW b \in DOMAIN blocks, Extend(b) PROVE ForkInv'
  <2> DEFINE longer == Append(local_chain, b)
             n == Len(local_chain) + 1
  <2>1. /\ blocks[b].previous = local_chain[Len(local_chain)] /\ blocks[b].valid
        /\ local_chain' = longer /\ blocks' = blocks
    BY <1>2 DEF Extend, Last
  <2>2. /\ longer \in Seq(DOMAIN blocks) /\ longer # <<>> /\ Len(longer) = n
        /\ DOMAIN longer = DOMAIN local_chain \cup {n} /\ longer[n] = b
        /\ \A i \in DOMAIN local_chain : longer[i] = local_chain[i]
    BY <1>0
  <2> HIDE DEF longer
  <2>3. ASSUME NEW i \in 2 .. n PROVE blocks[longer[i]].previous = longer[i - 1]
    <3>1. CASE i = n
      <4>1. i - 1 \in DOMAIN local_chain /\ i - 1 = Len(local_chain) BY <1>0, <3>1
      <4> QED BY <2>1, <2>2, <3>1, <4>1
    <3>2. CASE i # n
      <4>1. i \in 2 .. Len(local_chain) /\ i \in DOMAIN local_chain
            /\ i - 1 \in DOMAIN local_chain
        BY <1>0, <3>2
      <4> QED BY <1>0, <2>2, <4>1 DEF Linked
    <3> QED BY <3>1, <3>2
  <2>4. longer[1] = FirstBlock BY <1>0, <2>2 DEF Linked
  <2>5. Linked(local_chain)' BY <2>1, <2>2, <2>3, <2>4 DEF Linked
  <2>6. BlocksWell' BY <1>0, <2>1 DEF BlocksWell
  <2> QED BY <2>1, <2>2, <2>5, <2>6 DEF ForkInv
<1>3. ASSUME NEW peer \in PeerChains, resolve_fork(peer) PROVE ForkInv'
  <2>1. peer \in Seq(DOMAIN blocks) BY <1>0, PeersSendBlocks
  <2>2. CommonPrefix(local_chain, peer) # {}
    <3>1. Cardinality(CommonPrefix(local_chain, peer)) > 0
      BY <1>3 DEF resolve_fork, detect_fork
    <3> QED BY <3>1, FS_EmptySet
  <2>3. peer[1] = FirstBlock /\ peer # <<>>
    <3>1. PICK i \in DOMAIN local_chain \cap DOMAIN peer :
             \A j \in 1 .. i : local_chain[j] = peer[j]
      BY <2>2 DEF CommonPrefix
    <3>2. 1 \in 1 .. i BY <1>0
    <3>3. local_chain[1] = peer[1] BY <3>1, <3>2
    <3>4. peer # <<>> BY <3>1
    <3> QED BY <1>0, <3>3, <3>4 DEF Linked
  <2>4. /\ \A i \in 2 .. Len(peer) : /\ blocks[peer[i]].previous = peer[i - 1]
                                     /\ blocks[peer[i]].valid
        /\ local_chain' = peer /\ blocks' = blocks
    BY <1>3 DEF resolve_fork, _is_chain_valid
  <2>5. \A i \in DOMAIN peer : i = 1 \/ i \in 2 .. Len(peer) BY <2>1
  <2>6. \A i \in DOMAIN peer : blocks[peer[i]].valid
    BY <1>0, <2>3, <2>4, <2>5 DEF BlocksWell
  <2>7. Linked(local_chain)' BY <2>1, <2>3, <2>4 DEF Linked
  <2>8. BlocksWell' BY <1>0, <2>4 DEF BlocksWell
  <2> QED BY <2>4, <2>6, <2>7, <2>8 DEF ForkInv
<1>4. ASSUME UNCHANGED <<blocks, local_chain>> PROVE ForkInv'
  BY <1>4 DEF ForkInv, BlocksWell, Linked
<1>5. ASSUME NEW s \in RESOLUTION_STRATEGIES, set_resolution_strategy(s) PROVE ForkInv'
  BY <1>4, <1>5 DEF set_resolution_strategy
<1>6. ASSUME NEW t \in ForkThresholds, set_fork_threshold(t) PROVE ForkInv'
  BY <1>4, <1>6 DEF set_fork_threshold
<1> QED
  BY <1>1, <1>2, <1>3, <1>4, <1>5, <1>6 DEF ForkResolutionNext, forkResolutionVars

\* A fork taken over leaves the whole chain of its last block, every block valid,
\* although only the blocks behind the first one are compared with what is before them
\* (resolve_fork, _is_chain_valid).
THEOREM ForksLeaveWholeChain == ConsensusSpec => []LocalChainWhole
<1>1. ConsensusInit => ForkInv BY ForkInitial DEF ConsensusInit
<1>2. ForkInv /\ [ConsensusNext]_allVars => ForkInv' BY ConsensusPartsMove, ForkStep
<1>3. ForkInv => LocalChainWhole BY LinkedIsWhole DEF ForkInv, LocalChainWhole
<1> QED BY <1>1, <1>2, <1>3, PTL DEF ConsensusSpec

-----------------------------------------------------------------------------
(* The choice by stake, and mining *)

\* A number of places of a list is a place of it, or none.
LEMMA PlaceIs ==
    ASSUME NEW S, NEW b \in Seq(S), NEW P \in SUBSET DOMAIN b
    PROVE  Cardinality(P) \in 0 .. Len(b)
<1>1. Len(b) \in Nat /\ DOMAIN b = 1 .. Len(b) OBVIOUS
<1> DEFINE n == Len(b)
<1> HIDE DEF n
<1>2. IsFiniteSet(1 .. n) /\ Cardinality(1 .. n) = n
  <2>1. n \in Nat /\ 1 \in Int BY <1>1 DEF n
  <2> QED BY <2>1, FS_Interval
<1>3. Cardinality(P) \in Nat /\ Cardinality(P) <= n
  BY <1>1, <1>2, FS_Subset, FS_CardinalityType DEF n
<1> QED BY <1>1, <1>3 DEF n

\* What Filtered keeps after each of the elements.
Kept(r, a, s) == IF a \in s THEN Append(r, a) ELSE r

Keeps(list, s, f) ==
    /\ f[0] = <<>> /\ f[Len(list)] = Filtered(list, s)
    /\ \A k \in 1 .. Len(list) :
          f[k] = Kept(f[k - 1], list[k], s)

LEMMA FilterSteps ==
    ASSUME NEW S, NEW list \in Seq(S), NEW s
    PROVE  \E f : Keeps(list, s, f)
<1> DEFINE n == Len(list)
           B == Seq(S)
           step == [i \in 1 .. n |-> [b \in B |-> Kept(b, list[i], s)]]
           D == SUBSET DOMAIN list
           body(g) == [d \in D |->
               IF d = {} THEN <<>>
               ELSE Kept(g[d \ {Max(d)}], list[Max(d)], s)]
           I == CHOOSE g : g = body(g)
           f == [k \in 0 .. n |-> I[1 .. k]]
<1>1. Filtered(list, s) = I[DOMAIN list]
  BY DEF Filtered, Kept, FoldLeft, MapThenFoldSet
<1>2. n \in Nat /\ DOMAIN list = 1 .. n /\ \A i \in 1 .. n : list[i] \in S OBVIOUS
<1>3. \A i \in 1 .. n : \A b \in B : step[i][b] = Kept(b, list[i], s)
  BY Zenon
<1> HIDE DEF n, step
<1>4. ASSUME NEW i \in 1 .. n, NEW b \in B PROVE step[i][b] \in B
  <2>1. Append(b, list[i]) \in B BY <1>2
  <2> QED BY <1>3, <2>1 DEF Kept
<1>5. <<>> \in B OBVIOUS
<1> HIDE DEF B
<1>6. PICK g \in [SUBSET (1 .. n) -> B] : FoldsTo(1 .. n, <<>>, step, g)
  BY <1>2, <1>4, <1>5, FoldExists
<1>7. g = body(g)
  <2>1. D = SUBSET (1 .. n) BY <1>2
  <2>2. ASSUME NEW d \in D, d # {}
        PROVE  g[d] = Kept(g[d \ {Max(d)}], list[Max(d)], s)
    <3>1. Max(d) = Greatest(d) /\ Max(d) \in 1 .. n BY <1>2, <2>1, <2>2, MaxIs
    <3>2. d \ {Max(d)} \in SUBSET (1 .. n) BY <2>1
    <3>3. g[d] = step[Max(d)][g[d \ {Max(d)}]] BY <1>6, <2>1, <2>2, <3>1 DEF FoldsTo
    <3> QED BY <1>3, <1>6, <3>1, <3>2, <3>3
  <2>3. g[{}] = <<>> BY <1>6 DEF FoldsTo
  <2> QED BY <1>6, <2>1, <2>2, <2>3
<1>8. I = body(I) BY <1>7
<1> HIDE DEF I
<1>9. ASSUME NEW k \in 1 .. n
      PROVE  I[1 .. k] = Kept(I[1 .. (k - 1)], list[k], s)
  <2>1. 1 .. k \in D /\ 1 .. k # {} /\ Max(1 .. k) = k
        /\ (1 .. k) \ {Max(1 .. k)} = 1 .. (k - 1)
    BY <1>2, FirstParts
  <2> HIDE DEF D
  <2> QED BY <1>8, <2>1
<1>10. I[{}] = <<>> /\ 1 .. 0 = {}
  <2>1. {} \in D OBVIOUS
  <2> HIDE DEF D
  <2> QED BY <1>8, <2>1
<1>11. /\ f[0] = <<>> /\ f[n] = Filtered(list, s)
       /\ \A k \in 1 .. n : f[k] = I[1 .. k] /\ f[k - 1] = I[1 .. (k - 1)]
  BY <1>1, <1>2, <1>10
<1> HIDE DEF f
<1>12. ASSUME NEW k \in 1 .. n
       PROVE  f[k] = Kept(f[k - 1], list[k], s)
  <2>1. f[k] = I[1 .. k] /\ f[k - 1] = I[1 .. (k - 1)] BY <1>11
  <2> QED BY <1>9, <2>1
<1> HIDE DEF I
<1>13. \A k \in 1 .. n : f[k] = Kept(f[k - 1], list[k], s)
  BY <1>12
<1>14. Keeps(list, s, f) BY <1>11, <1>13 DEF n, Keeps
<1> QED BY <1>14

\* The sums on the way to StakeOf.
AddsUp(list, f) ==
    /\ f[0] = 0 /\ f[Len(list)] = StakeOf(list)
    /\ \A k \in 1 .. Len(list) :
          f[k] = f[k - 1] + stake[list[k]]

LEMMA StakeSteps ==
    ASSUME NEW list \in Seq(PosAddresses), stake \in [PosAddresses -> Nat]
    PROVE  \E f : AddsUp(list, f)
<1> DEFINE n == Len(list)
           B == Nat
           step == [i \in 1 .. n |-> [b \in B |-> b + stake[list[i]]]]
           D == SUBSET DOMAIN list
           body(g) == [d \in D |->
               IF d = {} THEN 0
               ELSE g[d \ {Max(d)}] + stake[list[Max(d)]]]
           I == CHOOSE g : g = body(g)
           f == [k \in 0 .. n |-> I[1 .. k]]
<1>1. StakeOf(list) = I[DOMAIN list]
  BY DEF StakeOf, FoldLeft, MapThenFoldSet
<1>2. n \in Nat /\ DOMAIN list = 1 .. n /\ \A i \in 1 .. n : list[i] \in PosAddresses OBVIOUS
<1>3. \A i \in 1 .. n : \A b \in B : step[i][b] = b + stake[list[i]]
  BY Zenon
<1> HIDE DEF n, step
<1>4. ASSUME NEW i \in 1 .. n, NEW b \in B PROVE step[i][b] \in B
  <2>1. stake[list[i]] \in Nat BY <1>2
  <2>2. step[i][b] = b + stake[list[i]] BY <1>3
  <2> QED BY <2>1, <2>2
<1>5. 0 \in B OBVIOUS
<1> HIDE DEF B
<1>6. PICK g \in [SUBSET (1 .. n) -> B] : FoldsTo(1 .. n, 0, step, g)
  BY <1>2, <1>4, <1>5, FoldExists
<1>7. g = body(g)
  <2>1. D = SUBSET (1 .. n) BY <1>2
  <2>2. ASSUME NEW d \in D, d # {}
        PROVE  g[d] = g[d \ {Max(d)}] + stake[list[Max(d)]]
    <3>1. Max(d) = Greatest(d) /\ Max(d) \in 1 .. n BY <1>2, <2>1, <2>2, MaxIs
    <3>2. d \ {Max(d)} \in SUBSET (1 .. n) BY <2>1
    <3>3. g[d] = step[Max(d)][g[d \ {Max(d)}]] BY <1>6, <2>1, <2>2, <3>1 DEF FoldsTo
    <3> QED BY <1>3, <1>6, <3>1, <3>2, <3>3
  <2>3. g[{}] = 0 BY <1>6 DEF FoldsTo
  <2> QED BY <1>6, <2>1, <2>2, <2>3
<1>8. I = body(I) BY <1>7
<1> HIDE DEF I
<1>9. ASSUME NEW k \in 1 .. n
      PROVE  I[1 .. k] = I[1 .. (k - 1)] + stake[list[k]]
  <2>1. 1 .. k \in D /\ 1 .. k # {} /\ Max(1 .. k) = k
        /\ (1 .. k) \ {Max(1 .. k)} = 1 .. (k - 1)
    BY <1>2, FirstParts
  <2> HIDE DEF D
  <2> QED BY <1>8, <2>1
<1>10. I[{}] = 0 /\ 1 .. 0 = {}
  <2>1. {} \in D OBVIOUS
  <2> HIDE DEF D
  <2> QED BY <1>8, <2>1
<1>11. /\ f[0] = 0 /\ f[n] = StakeOf(list)
       /\ \A k \in 1 .. n : f[k] = I[1 .. k] /\ f[k - 1] = I[1 .. (k - 1)]
  BY <1>1, <1>2, <1>10
<1> HIDE DEF f
<1>12. ASSUME NEW k \in 1 .. n
       PROVE  f[k] = f[k - 1] + stake[list[k]]
  <2>1. f[k] = I[1 .. k] /\ f[k - 1] = I[1 .. (k - 1)] BY <1>11
  <2> QED BY <1>9, <2>1
<1> HIDE DEF I
<1>13. \A k \in 1 .. n : f[k] = f[k - 1] + stake[list[k]]
  BY <1>12
<1>14. AddsUp(list, f) BY <1>11, <1>13 DEF n, AddsUp
<1> QED BY <1>14

\* How selectValidator takes the stakes off the random value.
Taken(acc, a) ==
    IF acc.chosen # NoValidator THEN acc
    ELSE IF acc.left < stake[a] THEN [acc EXCEPT !.chosen = a]
    ELSE [acc EXCEPT !.left = @ - stake[a]]

TakesOff(r, f) ==
    /\ f[0] = [left |-> r, chosen |-> NoValidator]
    /\ f[Len(getActiveValidators)].chosen = selectValidator(r)
    /\ \A k \in 1 .. Len(getActiveValidators) :
          f[k] = Taken(f[k - 1], getActiveValidators[k])

LEMMA SelectSteps ==
    ASSUME getActiveValidators \in Seq(PosAddresses), stake \in [PosAddresses -> Nat],
           NEW r \in Int
    PROVE  \E f : TakesOff(r, f)
<1> DEFINE n == Len(getActiveValidators)
           B == [left : Int, chosen : PosAddresses \cup {NoValidator}]
           step == [i \in 1 .. n |-> [b \in B |-> Taken(b, getActiveValidators[i])]]
           D == SUBSET DOMAIN getActiveValidators
           body(g) == [d \in D |->
               IF d = {} THEN [left |-> r, chosen |-> NoValidator]
               ELSE Taken(g[d \ {Max(d)}], getActiveValidators[Max(d)])]
           I == CHOOSE g : g = body(g)
           f == [k \in 0 .. n |-> I[1 .. k]]
<1>1. selectValidator(r) = I[DOMAIN getActiveValidators].chosen
  BY DEF selectValidator, Taken, FoldLeft, MapThenFoldSet
<1>2. /\ n \in Nat /\ DOMAIN getActiveValidators = 1 .. n
      /\ \A i \in 1 .. n : getActiveValidators[i] \in PosAddresses
  OBVIOUS
<1>3. \A i \in 1 .. n : \A b \in B : step[i][b] = Taken(b, getActiveValidators[i])
  BY Zenon
<1> HIDE DEF n, step
<1>4. ASSUME NEW i \in 1 .. n, NEW b \in B PROVE step[i][b] \in B
  <2>1. stake[getActiveValidators[i]] \in Nat /\ getActiveValidators[i] \in PosAddresses BY <1>2
  <2>2. step[i][b] = Taken(b, getActiveValidators[i]) BY <1>3
  <2> QED BY <2>1, <2>2 DEF Taken
<1>5. [left |-> r, chosen |-> NoValidator] \in B OBVIOUS
<1> HIDE DEF B
<1>6. PICK g \in [SUBSET (1 .. n) -> B] :
              FoldsTo(1 .. n, [left |-> r, chosen |-> NoValidator], step, g)
  BY <1>2, <1>4, <1>5, FoldExists
<1>7. g = body(g)
  <2>1. D = SUBSET (1 .. n) BY <1>2
  <2>2. ASSUME NEW d \in D, d # {}
        PROVE  g[d] = Taken(g[d \ {Max(d)}], getActiveValidators[Max(d)])
    <3>1. Max(d) = Greatest(d) /\ Max(d) \in 1 .. n BY <1>2, <2>1, <2>2, MaxIs
    <3>2. d \ {Max(d)} \in SUBSET (1 .. n) BY <2>1
    <3>3. g[d] = step[Max(d)][g[d \ {Max(d)}]] BY <1>6, <2>1, <2>2, <3>1 DEF FoldsTo
    <3> QED BY <1>3, <1>6, <3>1, <3>2, <3>3
  <2>3. g[{}] = [left |-> r, chosen |-> NoValidator] BY <1>6 DEF FoldsTo
  <2> QED BY <1>6, <2>1, <2>2, <2>3
<1>8. I = body(I) BY <1>7
<1> HIDE DEF I
<1>9. ASSUME NEW k \in 1 .. n
      PROVE  I[1 .. k] = Taken(I[1 .. (k - 1)], getActiveValidators[k])
  <2>1. 1 .. k \in D /\ 1 .. k # {} /\ Max(1 .. k) = k
        /\ (1 .. k) \ {Max(1 .. k)} = 1 .. (k - 1)
    BY <1>2, FirstParts
  <2> HIDE DEF D
  <2> QED BY <1>8, <2>1
<1>10. I[{}] = [left |-> r, chosen |-> NoValidator] /\ 1 .. 0 = {}
  <2>1. {} \in D OBVIOUS
  <2> HIDE DEF D
  <2> QED BY <1>8, <2>1
<1>11. /\ f[0] = [left |-> r, chosen |-> NoValidator] /\ f[n].chosen = selectValidator(r)
       /\ \A k \in 1 .. n : f[k] = I[1 .. k] /\ f[k - 1] = I[1 .. (k - 1)]
  BY <1>1, <1>2, <1>10
<1> HIDE DEF f
<1>12. ASSUME NEW k \in 1 .. n
       PROVE  f[k] = Taken(f[k - 1], getActiveValidators[k])
  <2>1. f[k] = I[1 .. k] /\ f[k - 1] = I[1 .. (k - 1)] BY <1>11
  <2> QED BY <1>9, <2>1
<1> HIDE DEF I
<1>13. \A k \in 1 .. n : f[k] = Taken(f[k - 1], getActiveValidators[k])
  BY <1>12
<1>14. TakesOff(r, f) BY <1>11, <1>13 DEF n, TakesOff
<1> QED BY <1>14

\* How select_validator_by_stake adds the stakes up.
Added(acc, a, v) ==
    IF acc.chosen # NoValidator THEN acc
    ELSE [cumulative |-> acc.cumulative + stake[a],
          chosen |-> IF acc.cumulative + stake[a] >= v THEN a ELSE NoValidator]

Cumulates(list, v, f) ==
    /\ f[0] = [cumulative |-> 0, chosen |-> NoValidator]
    /\ f[Len(list)].chosen = select_validator_by_stake(list, v)
    /\ \A k \in 1 .. Len(list) :
          f[k] = Added(f[k - 1], list[k], v)

LEMMA CumulativeSteps ==
    ASSUME NEW list \in Seq(PosAddresses), stake \in [PosAddresses -> Nat], NEW v \in Int
    PROVE  \E f : Cumulates(list, v, f)
<1> DEFINE n == Len(list)
           B == [cumulative : Int, chosen : PosAddresses \cup {NoValidator}]
           step == [i \in 1 .. n |-> [b \in B |-> Added(b, list[i], v)]]
           D == SUBSET DOMAIN list
           body(g) == [d \in D |->
               IF d = {} THEN [cumulative |-> 0, chosen |-> NoValidator]
               ELSE Added(g[d \ {Max(d)}], list[Max(d)], v)]
           I == CHOOSE g : g = body(g)
           f == [k \in 0 .. n |-> I[1 .. k]]
<1>1. select_validator_by_stake(list, v) = I[DOMAIN list].chosen
  BY DEF select_validator_by_stake, Added, FoldLeft, MapThenFoldSet
<1>2. n \in Nat /\ DOMAIN list = 1 .. n /\ \A i \in 1 .. n : list[i] \in PosAddresses OBVIOUS
<1>3. \A i \in 1 .. n : \A b \in B : step[i][b] = Added(b, list[i], v)
  BY Zenon
<1> HIDE DEF n, step
<1>4. ASSUME NEW i \in 1 .. n, NEW b \in B PROVE step[i][b] \in B
  <2>1. stake[list[i]] \in Nat /\ list[i] \in PosAddresses BY <1>2
  <2>2. step[i][b] = Added(b, list[i], v) BY <1>3
  <2> QED BY <2>1, <2>2 DEF Added
<1>5. [cumulative |-> 0, chosen |-> NoValidator] \in B OBVIOUS
<1> HIDE DEF B
<1>6. PICK g \in [SUBSET (1 .. n) -> B] :
              FoldsTo(1 .. n, [cumulative |-> 0, chosen |-> NoValidator], step, g)
  BY <1>2, <1>4, <1>5, FoldExists
<1>7. g = body(g)
  <2>1. D = SUBSET (1 .. n) BY <1>2
  <2>2. ASSUME NEW d \in D, d # {}
        PROVE  g[d] = Added(g[d \ {Max(d)}], list[Max(d)], v)
    <3>1. Max(d) = Greatest(d) /\ Max(d) \in 1 .. n BY <1>2, <2>1, <2>2, MaxIs
    <3>2. d \ {Max(d)} \in SUBSET (1 .. n) BY <2>1
    <3>3. g[d] = step[Max(d)][g[d \ {Max(d)}]] BY <1>6, <2>1, <2>2, <3>1 DEF FoldsTo
    <3> QED BY <1>3, <1>6, <3>1, <3>2, <3>3
  <2>3. g[{}] = [cumulative |-> 0, chosen |-> NoValidator] BY <1>6 DEF FoldsTo
  <2> QED BY <1>6, <2>1, <2>2, <2>3
<1>8. I = body(I) BY <1>7
<1> HIDE DEF I
<1>9. ASSUME NEW k \in 1 .. n
      PROVE  I[1 .. k] = Added(I[1 .. (k - 1)], list[k], v)
  <2>1. 1 .. k \in D /\ 1 .. k # {} /\ Max(1 .. k) = k
        /\ (1 .. k) \ {Max(1 .. k)} = 1 .. (k - 1)
    BY <1>2, FirstParts
  <2> HIDE DEF D
  <2> QED BY <1>8, <2>1
<1>10. I[{}] = [cumulative |-> 0, chosen |-> NoValidator] /\ 1 .. 0 = {}
  <2>1. {} \in D OBVIOUS
  <2> HIDE DEF D
  <2> QED BY <1>8, <2>1
<1>11. /\ f[0] = [cumulative |-> 0, chosen |-> NoValidator]
       /\ f[n].chosen = select_validator_by_stake(list, v)
       /\ \A k \in 1 .. n : f[k] = I[1 .. k] /\ f[k - 1] = I[1 .. (k - 1)]
  BY <1>1, <1>2, <1>10
<1> HIDE DEF f
<1>12. ASSUME NEW k \in 1 .. n
       PROVE  f[k] = Added(f[k - 1], list[k], v)
  <2>1. f[k] = I[1 .. k] /\ f[k - 1] = I[1 .. (k - 1)] BY <1>11
  <2> QED BY <1>9, <2>1
<1> HIDE DEF I
<1>13. \A k \in 1 .. n : f[k] = Added(f[k - 1], list[k], v)
  BY <1>12
<1>14. Cumulates(list, v, f) BY <1>11, <1>13 DEF n, Cumulates
<1> QED BY <1>14

\* The list on the way to SortedByStake.
PlaceIn(s, a) == 1 + Cardinality({j \in DOMAIN s : stake[s[j]] >= stake[a]})

Sorts(list, f) ==
    /\ f[0] = <<>> /\ f[Len(list)] = SortedByStake(list)
    /\ \A k \in 1 .. Len(list) :
          f[k] = InsertAt(f[k - 1], PlaceIn(f[k - 1], list[k]), list[k])

LEMMA SortSteps ==
    ASSUME NEW list \in Seq(PosAddresses)
    PROVE  \E f : Sorts(list, f)
<1> DEFINE n == Len(list)
           B == Seq(PosAddresses)
           step == [i \in 1 .. n |-> [b \in B |-> InsertAt(b, PlaceIn(b, list[i]), list[i])]]
           D == SUBSET DOMAIN list
           body(g) == [d \in D |->
               IF d = {} THEN <<>>
               ELSE InsertAt(g[d \ {Max(d)}], PlaceIn(g[d \ {Max(d)}], list[Max(d)]), list[Max(d)])]
           I == CHOOSE g : g = body(g)
           f == [k \in 0 .. n |-> I[1 .. k]]
<1>1. SortedByStake(list) = I[DOMAIN list]
  BY DEF SortedByStake, PlaceIn, FoldLeft, MapThenFoldSet
<1>2. n \in Nat /\ DOMAIN list = 1 .. n /\ \A i \in 1 .. n : list[i] \in PosAddresses OBVIOUS
<1>3. \A i \in 1 .. n : \A b \in B : step[i][b] = InsertAt(b, PlaceIn(b, list[i]), list[i])
  BY Zenon
<1> HIDE DEF n, step
<1>4. ASSUME NEW i \in 1 .. n, NEW b \in B PROVE step[i][b] \in B
  <2>1. PlaceIn(b, list[i]) \in 1 .. Len(b) + 1 BY PlaceIs DEF PlaceIn
  <2>2. InsertAt(b, PlaceIn(b, list[i]), list[i]) \in B BY <1>2, <2>1, InsertedAt
  <2> QED BY <1>3, <2>2
<1>5. <<>> \in B OBVIOUS
<1> HIDE DEF B
<1>6. PICK g \in [SUBSET (1 .. n) -> B] : FoldsTo(1 .. n, <<>>, step, g)
  BY <1>2, <1>4, <1>5, FoldExists
<1>7. g = body(g)
  <2>1. D = SUBSET (1 .. n) BY <1>2
  <2>2. ASSUME NEW d \in D, d # {}
        PROVE  g[d] = InsertAt(g[d \ {Max(d)}], PlaceIn(g[d \ {Max(d)}], list[Max(d)]), list[Max(d)])
    <3>1. Max(d) = Greatest(d) /\ Max(d) \in 1 .. n BY <1>2, <2>1, <2>2, MaxIs
    <3>2. d \ {Max(d)} \in SUBSET (1 .. n) BY <2>1
    <3>3. g[d] = step[Max(d)][g[d \ {Max(d)}]] BY <1>6, <2>1, <2>2, <3>1 DEF FoldsTo
    <3> QED BY <1>3, <1>6, <3>1, <3>2, <3>3
  <2>3. g[{}] = <<>> BY <1>6 DEF FoldsTo
  <2> QED BY <1>6, <2>1, <2>2, <2>3
<1>8. I = body(I) BY <1>7
<1> HIDE DEF I
<1>9. ASSUME NEW k \in 1 .. n
      PROVE  I[1 .. k] = InsertAt(I[1 .. (k - 1)], PlaceIn(I[1 .. (k - 1)], list[k]), list[k])
  <2>1. 1 .. k \in D /\ 1 .. k # {} /\ Max(1 .. k) = k
        /\ (1 .. k) \ {Max(1 .. k)} = 1 .. (k - 1)
    BY <1>2, FirstParts
  <2> HIDE DEF D
  <2> QED BY <1>8, <2>1
<1>10. I[{}] = <<>> /\ 1 .. 0 = {}
  <2>1. {} \in D OBVIOUS
  <2> HIDE DEF D
  <2> QED BY <1>8, <2>1
<1>11. /\ f[0] = <<>> /\ f[n] = SortedByStake(list)
       /\ \A k \in 1 .. n : f[k] = I[1 .. k] /\ f[k - 1] = I[1 .. (k - 1)]
  BY <1>1, <1>2, <1>10
<1> HIDE DEF f
<1>12. ASSUME NEW k \in 1 .. n
       PROVE  f[k] = InsertAt(f[k - 1], PlaceIn(f[k - 1], list[k]), list[k])
  <2>1. f[k] = I[1 .. k] /\ f[k - 1] = I[1 .. (k - 1)] BY <1>11
  <2> QED BY <1>9, <2>1
<1> HIDE DEF I
<1>13. \A k \in 1 .. n : f[k] = InsertAt(f[k - 1], PlaceIn(f[k - 1], list[k]), list[k])
  BY <1>12
<1>14. Sorts(list, f) BY <1>11, <1>13 DEF n, Sorts
<1> QED BY <1>14

Unrepeated(q) == \A i, j \in DOMAIN q : q[i] = q[j] => i = j

\* What a list is with one more at its end.
LEMMA OneAppended ==
    ASSUME NEW S, NEW q \in Seq(S), NEW x \in S
    PROVE  /\ Append(q, x) \in Seq(S) /\ ToSet(Append(q, x)) = ToSet(q) \cup {x}
           /\ Len(Append(q, x)) = Len(q) + 1 /\ Append(q, x)[Len(q) + 1] = x
           /\ \A i \in 1 .. Len(q) : Append(q, x)[i] = q[i]
           /\ Unrepeated(q) /\ x \notin ToSet(q) => Unrepeated(Append(q, x))
<1> DEFINE r == Append(q, x)
           n == Len(q)
<1>1. /\ r \in Seq(S) /\ n \in Nat /\ DOMAIN r = 1 .. n + 1 /\ DOMAIN q = 1 .. n
      /\ Len(r) = n + 1 /\ r[n + 1] = x /\ \A i \in 1 .. n : r[i] = q[i]
  OBVIOUS
<1> HIDE DEF r, n
<1>2. DOMAIN r = DOMAIN q \cup {n + 1} /\ n + 1 \notin DOMAIN q BY <1>1
<1>3. ToSet(r) = ToSet(q) \cup {x}
  <2>1. \A i \in DOMAIN q : r[i] = q[i] BY <1>1
  <2> QED BY <1>1, <1>2, <2>1 DEF ToSet
<1>4. ASSUME Unrepeated(q), x \notin ToSet(q) PROVE Unrepeated(r)
  <2>1. \A i \in DOMAIN q : r[i] = q[i] /\ q[i] # x BY <1>1, <1>4 DEF ToSet
  <2> QED BY <1>1, <1>2, <1>4, <2>1, Zenon DEF Unrepeated
<1> QED BY <1>1, <1>3, <1>4 DEF r, n

\* Filtered keeps those of the set, each as often as it was.
LEMMA FilterIs ==
    ASSUME NEW S, NEW list \in Seq(S), NEW s
    PROVE  /\ Filtered(list, s) \in Seq(S)
           /\ ToSet(Filtered(list, s)) = ToSet(list) \cap s
           /\ Unrepeated(list) => Unrepeated(Filtered(list, s))
<1>1. PICK f : Keeps(list, s, f) BY FilterSteps
<1> DEFINE n == Len(list)
<1>0. /\ f[0] = <<>> /\ f[n] = Filtered(list, s)
      /\ \A k \in 1 .. n :
            f[k] = IF list[k] \in s THEN Append(f[k - 1], list[k]) ELSE f[k - 1]
  BY <1>1 DEF Keeps, Kept
<1>2. n \in Nat /\ DOMAIN list = 1 .. n /\ \A k \in 1 .. n : list[k] \in S OBVIOUS
<1> HIDE DEF n
<1> DEFINE Upto(k) == {list[i] : i \in 1 .. k}
           Good == {k \in 0 .. n : /\ f[k] \in Seq(S) /\ ToSet(f[k]) = Upto(k) \cap s
                                   /\ Unrepeated(list) => Unrepeated(f[k])}
<1>3. 0 \in Good
  <2>1. ToSet(<<>>) = {} /\ Unrepeated(<<>>) BY DEF ToSet, Unrepeated
  <2>2. <<>> \in Seq(S) /\ 1 .. 0 = {} /\ 0 \in 0 .. n BY <1>2
  <2>3. Upto(0) = {} BY <2>2
  <2> HIDE DEF Upto
  <2> QED BY <1>0, <2>1, <2>2, <2>3
<1>4. ASSUME NEW k \in 0 .. n, k \in Good, k < n PROVE k + 1 \in Good
  <2>1. k + 1 \in 1 .. n /\ k + 1 \in 0 .. n /\ (k + 1) - 1 = k
        /\ 1 .. (k + 1) = (1 .. k) \cup {k + 1}
    BY <1>2, <1>4
  <2>2. f[k + 1] = IF list[k + 1] \in s THEN Append(f[k], list[k + 1]) ELSE f[k]
    BY <1>0, <2>1
  <2>3. Upto(k + 1) = Upto(k) \cup {list[k + 1]} BY <2>1
  <2>4. Unrepeated(list) => list[k + 1] \notin Upto(k)
    BY <1>2, <2>1 DEF Unrepeated
  <2>5. list[k + 1] \in S BY <1>2, <2>1
  <2> DEFINE e == list[k + 1]
             U == Upto(k)
             W == Upto(k + 1)
             h == f[k + 1]
  <2>6. /\ h = IF e \in s THEN Append(f[k], e) ELSE f[k]
        /\ W = U \cup {e} /\ (Unrepeated(list) => e \notin U) /\ e \in S
    BY <2>2, <2>3, <2>4, <2>5
  <2>7. f[k] \in Seq(S) /\ ToSet(f[k]) = U \cap s /\ (Unrepeated(list) => Unrepeated(f[k]))
    BY <1>4
  <2> HIDE DEF e, U, W, h
  <2>8. h \in Seq(S) /\ ToSet(h) = W \cap s /\ (Unrepeated(list) => Unrepeated(h))
    BY <2>6, <2>7, OneAppended
  <2> QED BY <2>1, <2>8 DEF U, W, h, e
<1>5. n \in Good
  <2>1. \A k \in 0 .. n : k \in Good /\ k < n => k + 1 \in Good BY <1>4
  <2> HIDE DEF Good
  <2>2. 0 .. n \subseteq Good BY <1>2, <1>3, <2>1, UpTo
  <2> QED BY <1>2, <2>2
<1>6. Upto(n) = ToSet(list) BY <1>2 DEF ToSet
<1> QED BY <1>0, <1>5, <1>6

\* P[k] is the stake of the first k of the list together.
Sums(list, P) ==
    /\ P \in [0 .. Len(list) -> Nat]
    /\ P[0] = 0 /\ P[Len(list)] = StakeOf(list)
    /\ \A k \in 1 .. Len(list) : P[k] = P[k - 1] + stake[list[k]]

\* There are such sums, and they never fall.
LEMMA StakesAddUp ==
    ASSUME NEW list \in Seq(PosAddresses), stake \in [PosAddresses -> Nat]
    PROVE  \E sums : Sums(list, sums)
<1>0. \E f : AddsUp(list, f) BY StakeSteps
<1> SUFFICES ASSUME NEW f, AddsUp(list, f) PROVE \E sums : Sums(list, sums) BY <1>0
<1> DEFINE n == Len(list)
<1>1. /\ f[0] = 0 /\ f[n] = StakeOf(list)
      /\ \A k \in 1 .. n : f[k] = f[k - 1] + stake[list[k]]
  BY DEF AddsUp
<1>2. n \in Nat /\ \A k \in 1 .. n : list[k] \in PosAddresses OBVIOUS
<1> HIDE DEF n
<1> DEFINE Good == {k \in 0 .. n : f[k] \in Nat}
           Q == [k \in 0 .. n |-> f[k]]
<1>3. 0 .. n \subseteq Good
  <2>1. 0 \in Good BY <1>1, <1>2
  <2>2. ASSUME NEW k \in 0 .. n, k \in Good, k < n PROVE k + 1 \in Good
    <3>1. k + 1 \in 1 .. n /\ k + 1 \in 0 .. n /\ (k + 1) - 1 = k BY <1>2, <2>2
    <3>2. f[k + 1] = f[k] + stake[list[k + 1]] BY <1>1, <3>1
    <3>3. stake[list[k + 1]] \in Nat BY <1>2, <3>1
    <3> QED BY <2>2, <3>1, <3>2, <3>3
  <2>3. \A k \in 0 .. n : k \in Good /\ k < n => k + 1 \in Good BY <2>2
  <2> HIDE DEF Good
  <2> QED BY <1>2, <2>1, <2>3, UpTo
<1>4. Q \in [0 .. n -> Nat] BY <1>3
<1>5. 0 \in 0 .. n /\ n \in 0 .. n /\ \A k \in 1 .. n : k \in 0 .. n /\ k - 1 \in 0 .. n
  BY <1>2
<1>6. \A k \in 0 .. n : Q[k] = f[k] OBVIOUS
<1> SUFFICES Sums(list, Q) OBVIOUS
<1> HIDE DEF Q
<1> QED BY <1>1, <1>4, <1>5, <1>6 DEF Sums, n

LEMMA SumsGrow ==
    ASSUME NEW list \in Seq(PosAddresses), stake \in [PosAddresses -> Nat],
           NEW P, Sums(list, P),
           NEW j \in 0 .. Len(list), NEW k \in 0 .. Len(list), j <= k
    PROVE  P[j] <= P[k]
<1> DEFINE n == Len(list)
<1>1. /\ n \in Nat /\ P \in [0 .. n -> Nat]
      /\ \A i \in 1 .. n : P[i] = P[i - 1] + stake[list[i]] /\ stake[list[i]] \in Nat
  BY DEF Sums
<1> HIDE DEF n
<1> DEFINE Good == {i \in 0 .. n : j <= i => P[j] <= P[i]}
<1>2. j \in 0 .. n /\ k \in 0 .. n BY DEF n
<1>3. 0 \in Good BY <1>1, <1>2
<1>4. ASSUME NEW i \in 0 .. n, i \in Good, i < n PROVE i + 1 \in Good
  <2>1. i + 1 \in 1 .. n /\ i + 1 \in 0 .. n /\ (i + 1) - 1 = i BY <1>1, <1>4
  <2>2. P[i + 1] = P[i] + stake[list[i + 1]] /\ stake[list[i + 1]] \in Nat BY <1>1, <2>1
  <2>3. P[i] \in Nat /\ P[j] \in Nat BY <1>1, <1>2
  <2>4. CASE j <= i BY <1>4, <2>1, <2>2, <2>3, <2>4
  <2>5. CASE ~(j <= i)
    <3>1. j <= i + 1 => j = i + 1 BY <1>2, <2>5
    <3> QED BY <2>1, <2>3, <3>1
  <2> QED BY <2>4, <2>5
<1>5. 0 .. n \subseteq Good
  <2>1. \A i \in 0 .. n : i \in Good /\ i < n => i + 1 \in Good BY <1>4
  <2> HIDE DEF Good
  <2> QED BY <1>1, <1>3, <2>1, UpTo
<1> QED BY <1>2, <1>5

\* A random value falls to the validator in whose share of the sums it is.
LEMMA SelectedHasShare ==
    ASSUME getActiveValidators \in Seq(PosAddresses), stake \in [PosAddresses -> Nat],
           NEW P, Sums(getActiveValidators, P),
           NEW r \in Nat, r < StakeOf(getActiveValidators)
    PROVE  \E j \in 1 .. Len(getActiveValidators) :
              /\ P[j - 1] <= r /\ r < P[j]
              /\ selectValidator(r) = getActiveValidators[j]
<1>0. PICK f : TakesOff(r, f) BY SelectSteps
<1> DEFINE act == getActiveValidators
           n == Len(act)
<1>1. /\ f[0] = [left |-> r, chosen |-> NoValidator]
      /\ f[n].chosen = selectValidator(r)
      /\ \A k \in 1 .. n :
            f[k] = IF f[k - 1].chosen # NoValidator THEN f[k - 1]
                   ELSE IF f[k - 1].left < stake[act[k]] THEN [f[k - 1] EXCEPT !.chosen = act[k]]
                   ELSE [f[k - 1] EXCEPT !.left = @ - stake[act[k]]]
  BY <1>0 DEF TakesOff, Taken
<1>2. /\ n \in Nat /\ P \in [0 .. n -> Nat] /\ P[0] = 0 /\ P[n] = StakeOf(act)
      /\ \A k \in 1 .. n : /\ P[k] = P[k - 1] + stake[act[k]] /\ act[k] \in PosAddresses
                           /\ stake[act[k]] \in Nat
  BY DEF Sums
<1>3. NoValidator \notin PosAddresses BY StakeSelectionAssumption
<1> HIDE DEF n, act
<1> DEFINE In(j) == P[j - 1] <= r /\ r < P[j]
           Good == {k \in 0 .. n :
                      /\ f[k] \in [left : Int, chosen : PosAddresses \cup {NoValidator}]
                      /\ \/ f[k] = [left |-> r - P[k], chosen |-> NoValidator] /\ P[k] <= r
                         \/ \E j \in 1 .. k : In(j) /\ f[k].chosen = act[j]}
<1>4. 0 \in Good BY <1>1, <1>2
<1>5. ASSUME NEW k \in 0 .. n, k \in Good, k < n PROVE k + 1 \in Good
  <2>1. k + 1 \in 1 .. n /\ k + 1 \in 0 .. n /\ (k + 1) - 1 = k
        /\ \A j \in 1 .. k : j \in 1 .. n /\ j \in 1 .. (k + 1)
    BY <1>2, <1>5
  <2>2. f[k + 1] = IF f[k].chosen # NoValidator THEN f[k]
                   ELSE IF f[k].left < stake[act[k + 1]] THEN [f[k] EXCEPT !.chosen = act[k + 1]]
                   ELSE [f[k] EXCEPT !.left = @ - stake[act[k + 1]]]
    BY <1>1, <2>1
  <2>3. /\ P[k + 1] = P[k] + stake[act[k + 1]] /\ act[k + 1] \in PosAddresses
        /\ stake[act[k + 1]] \in Nat /\ P[k] \in Nat /\ P[k + 1] \in Nat
    BY <1>2, <2>1
  <2>4. CASE f[k] = [left |-> r - P[k], chosen |-> NoValidator] /\ P[k] <= r
    <3>1. CASE r - P[k] < stake[act[k + 1]]
      <4>1. f[k + 1] = [left |-> r - P[k], chosen |-> act[k + 1]]
        BY <2>2, <2>4, <3>1
      <4>2. In(k + 1) BY <2>1, <2>3, <2>4, <3>1
      <4>3. k + 1 \in 1 .. (k + 1) BY <2>1
      <4>4. r - P[k] \in Int BY <2>3
      <4>5. f[k + 1] \in [left : Int, chosen : PosAddresses \cup {NoValidator}]
        BY <2>3, <4>1, <4>4
      <4> QED BY <2>1, <4>1, <4>2, <4>3, <4>5
    <3>2. CASE ~(r - P[k] < stake[act[k + 1]])
      <4>1. f[k + 1] = [left |-> (r - P[k]) - stake[act[k + 1]], chosen |-> NoValidator]
        BY <2>2, <2>4, <3>2
      <4>2. (r - P[k]) - stake[act[k + 1]] = r - P[k + 1] /\ P[k + 1] <= r
            /\ r - P[k + 1] \in Int
        BY <2>3, <2>4, <3>2
      <4>3. f[k + 1] = [left |-> r - P[k + 1], chosen |-> NoValidator] BY <4>1, <4>2
      <4> QED BY <2>1, <4>2, <4>3
    <3> QED BY <3>1, <3>2
  <2>5. CASE \E j \in 1 .. k : In(j) /\ f[k].chosen = act[j]
    <3>1. PICK j \in 1 .. k : In(j) /\ f[k].chosen = act[j] BY <2>5
    <3>2. act[j] \in PosAddresses /\ j \in 1 .. (k + 1) BY <1>2, <2>1
    <3>3. f[k].chosen # NoValidator BY <1>3, <3>1, <3>2
    <3>4. f[k + 1] = f[k] BY <2>2, <3>3
    <3> QED BY <1>5, <2>1, <3>1, <3>2, <3>4
  <2> QED BY <1>5, <2>4, <2>5
<1>6. n \in Good
  <2>1. \A k \in 0 .. n : k \in Good /\ k < n => k + 1 \in Good BY <1>5
  <2> HIDE DEF Good
  <2>2. 0 .. n \subseteq Good BY <1>2, <1>4, <2>1, UpTo
  <2> QED BY <1>2, <2>2
<1>7. ~(P[n] <= r) BY <1>2 DEF act
<1> QED BY <1>1, <1>6, <1>7 DEF act, n

\* The first validator up to which the stakes sum to the value.
LEMMA FirstUpTo ==
    ASSUME NEW list \in Seq(PosAddresses), stake \in [PosAddresses -> Nat],
           NEW P, Sums(list, P), NEW v \in Nat, v <= StakeOf(list), list # <<>>
    PROVE  \E j \in 1 .. Len(list) :
              /\ j = 1 \/ P[j - 1] < v
              /\ v <= P[j]
              /\ select_validator_by_stake(list, v) = list[j]
<1>0. PICK f : Cumulates(list, v, f) BY CumulativeSteps
<1> DEFINE n == Len(list)
<1>1. /\ f[0] = [cumulative |-> 0, chosen |-> NoValidator]
      /\ f[n].chosen = select_validator_by_stake(list, v)
      /\ \A k \in 1 .. n :
            f[k] = IF f[k - 1].chosen # NoValidator THEN f[k - 1]
                   ELSE [cumulative |-> f[k - 1].cumulative + stake[list[k]],
                         chosen |-> IF f[k - 1].cumulative + stake[list[k]] >= v
                                    THEN list[k] ELSE NoValidator]
  BY <1>0 DEF Cumulates, Added
<1>2. /\ n \in Nat /\ n # 0 /\ P \in [0 .. n -> Nat] /\ P[0] = 0 /\ P[n] = StakeOf(list)
      /\ \A k \in 1 .. n : /\ P[k] = P[k - 1] + stake[list[k]] /\ list[k] \in PosAddresses
                           /\ stake[list[k]] \in Nat
  BY DEF Sums
<1>3. NoValidator \notin PosAddresses BY StakeSelectionAssumption
<1> HIDE DEF n
<1> DEFINE In(j) == (j = 1 \/ P[j - 1] < v) /\ v <= P[j]
           Good == {k \in 0 .. n :
                      \/ /\ f[k] = [cumulative |-> P[k], chosen |-> NoValidator]
                         /\ k = 0 \/ P[k] < v
                      \/ \E j \in 1 .. k : In(j) /\ f[k].chosen = list[j]}
<1>4. 0 \in Good BY <1>1, <1>2
<1>5. ASSUME NEW k \in 0 .. n, k \in Good, k < n PROVE k + 1 \in Good
  <2>1. k + 1 \in 1 .. n /\ k + 1 \in 0 .. n /\ (k + 1) - 1 = k /\ k + 1 # 0
        /\ k + 1 \in 1 .. (k + 1) /\ (k = 0 => k + 1 = 1)
        /\ \A j \in 1 .. k : j \in 1 .. n /\ j \in 1 .. (k + 1)
    BY <1>2, <1>5
  <2>2. f[k + 1] = IF f[k].chosen # NoValidator THEN f[k]
                   ELSE [cumulative |-> f[k].cumulative + stake[list[k + 1]],
                         chosen |-> IF f[k].cumulative + stake[list[k + 1]] >= v
                                    THEN list[k + 1] ELSE NoValidator]
    BY <1>1, <2>1
  <2>3. /\ P[k + 1] = P[k] + stake[list[k + 1]] /\ list[k + 1] \in PosAddresses
        /\ stake[list[k + 1]] \in Nat /\ P[k] \in Nat /\ P[k + 1] \in Nat
    BY <1>2, <2>1
  <2>4. CASE f[k] = [cumulative |-> P[k], chosen |-> NoValidator] /\ (k = 0 \/ P[k] < v)
    <3>1. f[k + 1] = [cumulative |-> P[k + 1],
                      chosen |-> IF P[k + 1] >= v THEN list[k + 1] ELSE NoValidator]
      BY <2>2, <2>3, <2>4
    <3>2. CASE P[k + 1] >= v
      <4>1. In(k + 1) BY <2>1, <2>3, <2>4, <3>2
      <4>2. f[k + 1].chosen = list[k + 1] BY <3>1, <3>2
      <4> QED BY <2>1, <4>1, <4>2
    <3>3. CASE ~(P[k + 1] >= v)
      <4>1. f[k + 1] = [cumulative |-> P[k + 1], chosen |-> NoValidator] BY <3>1, <3>3
      <4>2. P[k + 1] < v BY <2>3, <3>3
      <4> QED BY <2>1, <4>1, <4>2
    <3> QED BY <3>2, <3>3
  <2>5. CASE \E j \in 1 .. k : In(j) /\ f[k].chosen = list[j]
    <3>1. PICK j \in 1 .. k : In(j) /\ f[k].chosen = list[j] BY <2>5
    <3>2. list[j] \in PosAddresses /\ j \in 1 .. (k + 1) BY <1>2, <2>1
    <3>3. f[k + 1] = f[k] BY <1>3, <2>2, <3>1, <3>2
    <3> QED BY <1>5, <2>1, <3>1, <3>2, <3>3
  <2> QED BY <1>5, <2>4, <2>5
<1>6. n \in Good
  <2>1. \A k \in 0 .. n : k \in Good /\ k < n => k + 1 \in Good BY <1>5
  <2> HIDE DEF Good
  <2>2. 0 .. n \subseteq Good BY <1>2, <1>4, <2>1, UpTo
  <2> QED BY <1>2, <2>2
<1>7. ~(P[n] < v) BY <1>2
<1> QED BY <1>1, <1>2, <1>6, <1>7 DEF n

\* How many numbers there are between two.
LEMMA IntervalSize ==
    ASSUME NEW a \in Nat, NEW b \in Nat, a <= b
    PROVE  Cardinality(a .. b - 1) = b - a /\ Cardinality((a + 1) .. b) = b - a
<1>1. a \in Int /\ b - 1 \in Int /\ a + 1 \in Int /\ b \in Int OBVIOUS
<1>2. Cardinality(a .. b - 1) = IF a > b - 1 THEN 0 ELSE (b - 1) - a + 1
  BY <1>1, FS_Interval
<1>3. Cardinality((a + 1) .. b) = IF a + 1 > b THEN 0 ELSE b - (a + 1) + 1
  BY <1>1, FS_Interval
<1> QED BY <1>2, <1>3

\* The values at which each validator of the list is chosen.
LEMMA SharesAre ==
    ASSUME getActiveValidators \in Seq(PosAddresses), Unrepeated(getActiveValidators),
           stake \in [PosAddresses -> Nat]
    PROVE  ChosenInProportion
<1> DEFINE act == getActiveValidators
           n == Len(act)
           total == StakeOf(act)
<1>1. PICK P : Sums(act, P) BY StakesAddUp
<1>2. /\ n \in Nat /\ DOMAIN act = 1 .. n /\ P \in [0 .. n -> Nat] /\ P[0] = 0 /\ P[n] = total
      /\ total \in Nat
      /\ \A k \in 1 .. n : /\ P[k] = P[k - 1] + stake[act[k]] /\ act[k] \in PosAddresses
                           /\ stake[act[k]] \in Nat
  BY <1>1 DEF Sums
<1>3. \A j, k \in 0 .. n : j <= k => P[j] <= P[k] BY <1>1, SumsGrow
<1>4. ASSUME NEW r \in Nat, r < total
      PROVE  \E j \in 1 .. n : P[j - 1] <= r /\ r < P[j] /\ selectValidator(r) = act[j]
  BY <1>1, <1>4, SelectedHasShare
<1>5. ASSUME NEW v \in Nat, v <= total, act # <<>>
      PROVE  \E j \in 1 .. n : /\ j = 1 \/ P[j - 1] < v
                               /\ v <= P[j] /\ select_validator_by_stake(act, v) = act[j]
  BY <1>1, <1>5, FirstUpTo
<1>6. \A i, j \in 1 .. n : act[i] = act[j] => i = j BY <1>2 DEF Unrepeated
<1>7. \A j \in 1 .. n : /\ j \in 0 .. n /\ j - 1 \in 0 .. n
                        /\ P[j] \in Nat /\ P[j - 1] \in Nat
                        /\ P[j - 1] <= P[j] /\ P[j] <= total
  <2> SUFFICES ASSUME NEW j \in 1 .. n
               PROVE  /\ j \in 0 .. n /\ j - 1 \in 0 .. n
                      /\ P[j] \in Nat /\ P[j - 1] \in Nat
                      /\ P[j - 1] <= P[j] /\ P[j] <= total
    OBVIOUS
  <2>1. j \in 0 .. n /\ j - 1 \in 0 .. n /\ n \in 0 .. n /\ j - 1 <= j /\ j <= n
    BY <1>2
  <2> QED BY <1>2, <1>3, <2>1
<1> HIDE DEF act, n, total
<1>8. ASSUME NEW i \in 1 .. n, NEW j \in 1 .. n, i < j PROVE P[i] <= P[j - 1]
  <2>1. j - 1 \in 0 .. n /\ i \in 0 .. n /\ i <= j - 1 BY <1>2, <1>8
  <2> QED BY <1>3, <2>1
<1>9. ASSUME NEW i \in 1 .. n
      PROVE  /\ Cardinality({r \in 0 .. total - 1 : selectValidator(r) = act[i]})
                    = stake[act[i]]
             /\ Cardinality({r \in 1 .. total : select_validator_by_stake(act, r) = act[i]})
                    = stake[act[i]]
             /\ select_validator_by_stake(act, 0) = act[1]
  <2>1. ASSUME NEW r \in 0 .. total - 1
        PROVE  selectValidator(r) = act[i] <=> r \in P[i - 1] .. P[i] - 1
    <3>1. r \in Nat /\ r < total BY <1>2
    <3>2. PICK j \in 1 .. n : P[j - 1] <= r /\ r < P[j] /\ selectValidator(r) = act[j]
      BY <1>4, <3>1
    <3>3. selectValidator(r) = act[i] <=> i = j BY <1>6, <3>2
    <3>4. i < j => ~(r < P[i]) BY <1>7, <1>8, <3>1, <3>2
    <3>5. j < i => ~(P[i - 1] <= r) BY <1>7, <1>8, <3>1, <3>2
    <3>6. i = j \/ i < j \/ j < i BY <1>2
    <3>7. r \in P[i - 1] .. P[i] - 1 <=> P[i - 1] <= r /\ r < P[i] BY <1>7, <3>1
    <3> QED BY <3>2, <3>3, <3>4, <3>5, <3>6, <3>7
  <2>2. {r \in 0 .. total - 1 : selectValidator(r) = act[i]} = P[i - 1] .. P[i] - 1
    <3>1. \A r \in P[i - 1] .. P[i] - 1 : r \in 0 .. total - 1 BY <1>2, <1>7
    <3> QED BY <2>1, <3>1
  <2>3. act # <<>> BY <1>2 DEF n
  <2>4. ASSUME NEW r \in 1 .. total
        PROVE  select_validator_by_stake(act, r) = act[i] <=> r \in (P[i - 1] + 1) .. P[i]
    <3>1. r \in Nat /\ r <= total /\ ~(r <= 0) BY <1>2
    <3>2. PICK j \in 1 .. n : /\ j = 1 \/ P[j - 1] < r
                              /\ r <= P[j] /\ select_validator_by_stake(act, r) = act[j]
      BY <1>5, <2>3, <3>1
    <3>3. P[j - 1] < r
      <4>1. j = 1 => P[j - 1] = 0 BY <1>2
      <4> QED BY <3>1, <3>2, <4>1
    <3>4. select_validator_by_stake(act, r) = act[i] <=> i = j BY <1>6, <3>2
    <3>5. i < j => ~(r <= P[i]) BY <1>7, <1>8, <3>1, <3>3
    <3>6. j < i => ~(P[i - 1] < r) BY <1>7, <1>8, <3>1, <3>2
    <3>7. i = j \/ i < j \/ j < i BY <1>2
    <3>8. r \in (P[i - 1] + 1) .. P[i] <=> P[i - 1] < r /\ r <= P[i] BY <1>7, <3>1
    <3> QED BY <3>2, <3>3, <3>4, <3>5, <3>6, <3>7, <3>8
  <2>5. {r \in 1 .. total : select_validator_by_stake(act, r) = act[i]}
           = (P[i - 1] + 1) .. P[i]
    <3>1. \A r \in (P[i - 1] + 1) .. P[i] : r \in 1 .. total BY <1>2, <1>7
    <3> QED BY <2>4, <3>1
  <2>6. select_validator_by_stake(act, 0) = act[1]
    <3>1. 0 \in Nat /\ 0 <= total BY <1>2
    <3>2. PICK j \in 1 .. n : /\ j = 1 \/ P[j - 1] < 0
                              /\ select_validator_by_stake(act, 0) = act[j]
      BY <1>5, <2>3, <3>1
    <3>3. ~(P[j - 1] < 0) BY <1>7
    <3> QED BY <3>2, <3>3
  <2>7. /\ Cardinality(P[i - 1] .. P[i] - 1) = P[i] - P[i - 1]
        /\ Cardinality((P[i - 1] + 1) .. P[i]) = P[i] - P[i - 1]
    BY <1>7, IntervalSize
  <2>8. P[i] - P[i - 1] = stake[act[i]]
    <3>1. P[i] = P[i - 1] + stake[act[i]] /\ stake[act[i]] \in Nat /\ P[i - 1] \in Nat
      BY <1>2, <1>7
    <3> QED BY <3>1
  <2> QED BY <2>2, <2>5, <2>6, <2>7, <2>8
<1> QED BY <1>2, <1>9 DEF ChosenInProportion, act, total

\* A set of numbers that has all below each of its own is an interval.
LEMMA AllBelow ==
    ASSUME NEW n \in Nat, NEW D \in SUBSET (1 .. n),
           \A j \in D : \A i \in 1 .. n : i <= j => i \in D
    PROVE  Cardinality(D) \in 0 .. n /\ D = 1 .. Cardinality(D)
<1>1. CASE D = {}
  <2>1. Cardinality(D) = 0 /\ 1 .. 0 = {} BY <1>1, FS_EmptySet
  <2> QED BY <1>1, <2>1
<1>2. CASE D # {}
  <2>1. PICK g \in D : \A j \in D : j <= g
    <3> DEFINE T == {n - x : x \in D}
    <3>0. \A x \in D : n - x \in Nat /\ x \in Int OBVIOUS
    <3>1. T \subseteq Nat /\ T # {} BY <1>2, <3>0
    <3>2. PICK t \in T : \A y \in T : t <= y
      <4> HIDE DEF T
      <4> QED BY <3>1, Least
    <3>3. PICK g \in D : t = n - g BY <3>2
    <3>4. \A j \in D : n - g <= n - j BY <3>2, <3>3
    <3>5. \A j \in D : j <= g BY <3>0, <3>4
    <3> QED BY <3>5
  <2>2. D = 1 .. g
    <3>1. \A i \in 1 .. g : i \in 1 .. n /\ i <= g OBVIOUS
    <3>2. 1 .. g \subseteq D BY <3>1
    <3>3. D \subseteq 1 .. g BY <2>1
    <3> QED BY <3>2, <3>3
  <2>3. g \in Nat /\ g <= n BY <2>1
  <2>4. Cardinality(1 .. g) = g
    <3>1. Cardinality(1 .. g) = IF 1 > g THEN 0 ELSE g - 1 + 1 BY <2>3, FS_Interval
    <3> QED BY <2>3, <3>1
  <2> QED BY <2>2, <2>3, <2>4
<1> QED BY <1>1, <1>2

\* No stake before a larger one.
Descending(q) == \A i, j \in DOMAIN q : i < j => stake[q[i]] >= stake[q[j]]

\* One more, behind those with as much stake, before those with less.
LEMMA OneMoreSorted ==
    ASSUME stake \in [PosAddresses -> Nat], NEW q \in Seq(PosAddresses), Descending(q),
           NEW a \in PosAddresses,
           NEW r, r = InsertAt(q, PlaceIn(q, a), a)
    PROVE  /\ r \in Seq(PosAddresses) /\ Len(r) = Len(q) + 1
           /\ ToSet(r) = ToSet(q) \cup {a} /\ Descending(r)
<1> DEFINE n == Len(q)
           D == {j \in DOMAIN q : stake[q[j]] >= stake[a]}
           c == Cardinality(D)
<1>1. n \in Nat /\ DOMAIN q = 1 .. n /\ \A i \in 1 .. n : q[i] \in PosAddresses OBVIOUS
<1>2. \A i \in 1 .. n : stake[q[i]] \in Nat BY <1>1
<1>3. stake[a] \in Nat OBVIOUS
<1> HIDE DEF n
<1>4. c \in 0 .. n /\ D = 1 .. c
  <2>1. D \in SUBSET (1 .. n) BY <1>1
  <2>2. ASSUME NEW j \in D, NEW i \in 1 .. n, i <= j PROVE i \in D
    <3>1. j \in 1 .. n /\ stake[q[j]] >= stake[a] BY <1>1
    <3>2. stake[q[i]] >= stake[q[j]]
      <4>1. i = j \/ i < j BY <1>1, <2>2, <3>1
      <4> QED BY <1>1, <1>2, <3>1, <4>1 DEF Descending
    <3>3. stake[q[i]] >= stake[a] BY <1>2, <1>3, <3>1, <3>2
    <3> QED BY <1>1, <3>3
  <2> HIDE DEF D
  <2> QED BY <1>1, <2>1, <2>2, AllBelow
<1>5. \A i \in 1 .. n : i <= c <=> stake[q[i]] >= stake[a]
  <2>1. \A i \in 1 .. n : i \in D <=> stake[q[i]] >= stake[a] BY <1>1
  <2> HIDE DEF D
  <2>2. \A i \in 1 .. n : i \in D <=> i <= c
    <3>1. c \in Nat BY <1>4
    <3> HIDE DEF c
    <3> QED BY <1>1, <1>4, <3>1
  <2> QED BY <2>1, <2>2
<1> DEFINE p == 1 + c
<1>6. p \in 1 .. n + 1 /\ c \in Nat /\ c <= n
  <2> HIDE DEF c
  <2> QED BY <1>1, <1>4
<1>7. r = InsertAt(q, p, a) BY DEF PlaceIn
<1> HIDE DEF c, D
<1>8. /\ r \in Seq(PosAddresses) /\ Len(r) = n + 1
      /\ \A i \in 1 .. n + 1 : r[i] = IF i < p THEN q[i] ELSE IF i = p THEN a ELSE q[i - 1]
  <2>1. p \in 1 .. Len(q) + 1 BY <1>6 DEF n
  <2> HIDE DEF p
  <2>2. /\ InsertAt(q, p, a) \in Seq(PosAddresses)
        /\ Len(InsertAt(q, p, a)) = Len(q) + 1
        /\ \A i \in 1 .. Len(q) + 1 :
              InsertAt(q, p, a)[i] = IF i < p THEN q[i] ELSE IF i = p THEN a ELSE q[i - 1]
    BY <2>1, InsertedAt
  <2> QED BY <1>7, <2>2 DEF n
<1>9. DOMAIN r = 1 .. n + 1 BY <1>1, <1>8
<1>10. ASSUME NEW i \in 1 .. n + 1
       PROVE  /\ i < p => i \in 1 .. n /\ i <= c /\ r[i] = q[i]
              /\ i = p => r[i] = a
              /\ i > p => i - 1 \in 1 .. n /\ ~(i - 1 <= c) /\ r[i] = q[i - 1]
  <2>1. i < p => i \in 1 .. n /\ i <= c BY <1>1, <1>6
  <2>2. i > p => i - 1 \in 1 .. n /\ ~(i - 1 <= c) /\ ~(i < p) /\ i # p BY <1>1, <1>6
  <2>3. i = p => ~(i < p) BY <1>6
  <2>4. r[i] = IF i < p THEN q[i] ELSE IF i = p THEN a ELSE q[i - 1] BY <1>8
  <2> QED BY <2>1, <2>2, <2>3, <2>4
<1>11. ToSet(r) = ToSet(q) \cup {a}
  <2>1. ASSUME NEW i \in 1 .. n + 1 PROVE r[i] \in ToSet(q) \cup {a}
    <3>1. i < p \/ i = p \/ i > p BY <1>6
    <3>2. i < p => i \in DOMAIN q /\ r[i] = q[i] BY <1>1, <1>10
    <3>3. i > p => i - 1 \in DOMAIN q /\ r[i] = q[i - 1] BY <1>1, <1>10
    <3>4. \A k \in DOMAIN q : q[k] \in ToSet(q) BY DEF ToSet
    <3> QED BY <1>10, <3>1, <3>2, <3>3, <3>4
  <2>2. ASSUME NEW i \in 1 .. n PROVE q[i] \in ToSet(r)
    <3>1. i \in 1 .. n + 1 /\ i + 1 \in 1 .. n + 1 /\ (i + 1) - 1 = i BY <1>1
    <3>2. i < p \/ i + 1 > p BY <1>6
    <3>3. i < p => r[i] = q[i] BY <1>10, <3>1
    <3>4. i + 1 > p => r[i + 1] = q[i] BY <1>10, <3>1
    <3> QED BY <1>9, <3>1, <3>2, <3>3, <3>4 DEF ToSet
  <2>3. a \in ToSet(r) BY <1>6, <1>9, <1>10 DEF ToSet
  <2> QED BY <1>1, <1>9, <2>1, <2>2, <2>3 DEF ToSet
<1>12. ASSUME NEW i \in 1 .. n + 1, NEW j \in 1 .. n + 1, i < j
       PROVE  stake[r[i]] >= stake[r[j]]
  <2>0. p \in Int /\ i \in Int /\ j \in Int BY <1>6
  <2>1. CASE j < p
    <3>1. i < p BY <1>12, <2>0, <2>1
    <3>2. i \in 1 .. n /\ j \in 1 .. n /\ r[i] = q[i] /\ r[j] = q[j] BY <1>10, <2>1, <3>1
    <3> QED BY <1>1, <1>12, <3>2 DEF Descending
  <2>2. CASE j = p
    <3>1. i < p BY <1>12, <2>0, <2>2
    <3>2. i \in 1 .. n /\ i <= c /\ r[i] = q[i] /\ r[j] = a BY <1>10, <2>2, <3>1
    <3> QED BY <1>5, <3>2
  <2>3. CASE j > p
    <3>1. j - 1 \in 1 .. n /\ ~(j - 1 <= c) /\ r[j] = q[j - 1] BY <1>10, <2>3
    <3>2. stake[a] > stake[q[j - 1]] BY <1>2, <1>3, <1>5, <3>1
    <3>3. CASE i < p
      <4>1. i \in 1 .. n /\ i <= c /\ r[i] = q[i] BY <1>10, <3>3
      <4>2. stake[q[i]] >= stake[a] BY <1>5, <4>1
      <4> QED BY <1>2, <1>3, <3>1, <3>2, <4>1, <4>2
    <3>4. CASE i = p
      <4>1. r[i] = a BY <1>10, <3>4
      <4> QED BY <1>2, <1>3, <3>1, <3>2, <4>1
    <3>5. CASE i > p
      <4>1. i - 1 \in 1 .. n /\ r[i] = q[i - 1] BY <1>10, <3>5
      <4>2. i - 1 < j - 1 BY <1>12, <2>0
      <4> QED BY <1>1, <3>1, <4>1, <4>2 DEF Descending
    <3> QED BY <2>0, <3>3, <3>4, <3>5
  <2> QED BY <2>0, <2>1, <2>2, <2>3
<1>13. Descending(r) BY <1>9, <1>12 DEF Descending
<1> QED BY <1>8, <1>11, <1>13 DEF n

\* SortedByStake has the same elements, the largest stakes first.
LEMMA SortedIs ==
    ASSUME stake \in [PosAddresses -> Nat], NEW list \in Seq(PosAddresses)
    PROVE  LET sorted == SortedByStake(list) IN
           /\ sorted \in Seq(PosAddresses) /\ Len(sorted) = Len(list)
           /\ ToSet(sorted) = ToSet(list) /\ Descending(sorted)
<1>0. PICK f : Sorts(list, f) BY SortSteps
<1> DEFINE n == Len(list)
<1>1. /\ f[0] = <<>> /\ f[n] = SortedByStake(list)
      /\ \A k \in 1 .. n :
            f[k] = InsertAt(f[k - 1], PlaceIn(f[k - 1], list[k]), list[k])
  BY <1>0 DEF Sorts
<1>2. n \in Nat /\ DOMAIN list = 1 .. n /\ \A k \in 1 .. n : list[k] \in PosAddresses OBVIOUS
<1> HIDE DEF n
<1> DEFINE Upto(k) == {list[i] : i \in 1 .. k}
           Good == {k \in 0 .. n : /\ f[k] \in Seq(PosAddresses) /\ Len(f[k]) = k
                                   /\ ToSet(f[k]) = Upto(k) /\ Descending(f[k])}
<1>3. 0 \in Good
  <2>1. ToSet(<<>>) = {} /\ Descending(<<>>) BY DEF ToSet, Descending
  <2>2. <<>> \in Seq(PosAddresses) /\ 1 .. 0 = {} /\ 0 \in 0 .. n /\ Len(<<>>) = 0 BY <1>2
  <2>3. Upto(0) = {} BY <2>2
  <2> HIDE DEF Upto
  <2> QED BY <1>1, <2>1, <2>2, <2>3
<1>4. ASSUME NEW k \in 0 .. n, k \in Good, k < n PROVE k + 1 \in Good
  <2>1. k + 1 \in 1 .. n /\ k + 1 \in 0 .. n /\ (k + 1) - 1 = k
        /\ 1 .. (k + 1) = (1 .. k) \cup {k + 1}
    BY <1>2, <1>4
  <2> DEFINE h == f[k + 1]
             q == f[k]
             a == list[k + 1]
  <2>2. h = InsertAt(q, PlaceIn(q, a), a)
    BY <1>1, <2>1
  <2>3. Upto(k + 1) = Upto(k) \cup {a} BY <2>1
  <2>4. a \in PosAddresses BY <1>2, <2>1
  <2>5. q \in Seq(PosAddresses) /\ Len(q) = k /\ ToSet(q) = Upto(k) /\ Descending(q)
    BY <1>4
  <2> HIDE DEF h, q, a, Upto
  <2>6. h \in Seq(PosAddresses) /\ Len(h) = k + 1 /\ ToSet(h) = Upto(k + 1) /\ Descending(h)
    BY <2>2, <2>3, <2>4, <2>5, OneMoreSorted
  <2> QED BY <2>1, <2>6 DEF h
<1>5. n \in Good
  <2>1. \A k \in 0 .. n : k \in Good /\ k < n => k + 1 \in Good BY <1>4
  <2> HIDE DEF Good
  <2>2. 0 .. n \subseteq Good BY <1>2, <1>3, <2>1, UpTo
  <2> QED BY <1>2, <2>2
<1>6. Upto(n) = ToSet(list) BY <1>2 DEF ToSet
<1> QED BY <1>1, <1>5, <1>6 DEF n

\* A list without repetitions is as long as the set of its elements is large.
LEMMA UnrepeatedSize ==
    ASSUME NEW S, NEW q \in Seq(S), Unrepeated(q)
    PROVE  Cardinality(ToSet(q)) = Len(q)
<1> DEFINE n == Len(q)
<1>1. n \in Nat /\ DOMAIN q = 1 .. n /\ q \in [1 .. n -> ToSet(q)]
  BY DEF ToSet
<1>2. q \in Injection(1 .. n, ToSet(q)) BY <1>1 DEF Unrepeated, Injection, IsInjective
<1>3. q \in Surjection(1 .. n, ToSet(q)) BY <1>1 DEF ToSet, Surjection
<1>4. q \in Bijection(1 .. n, ToSet(q)) BY <1>2, <1>3 DEF Bijection
<1>5. Cardinality(1 .. n) = n /\ IsFiniteSet(1 .. n)
  <2>1. IsFiniteSet(1 .. n) /\ Cardinality(1 .. n) = IF 1 > n THEN 0 ELSE n - 1 + 1
    BY <1>1, FS_Interval
  <2> QED BY <1>1, <2>1
<1> HIDE DEF n
<1>6. ExistsBijection(1 .. n, ToSet(q)) BY <1>4 DEF ExistsBijection
<1>7. Cardinality(ToSet(q)) = n BY <1>1, <1>5, <1>6, FS_Bijection
<1> QED BY <1>7 DEF n

LEMMA SmallerOfTwo ==
    ASSUME NEW n \in Nat, NEW m \in Nat
    PROVE  Min({n, m}) = IF n < m THEN n ELSE m
<1> DEFINE k == IF n < m THEN n ELSE m
<1>1. k \in {n, m} /\ \A y \in {n, m} : k <= y OBVIOUS
<1>2. Min({n, m}) \in {n, m} /\ \A y \in {n, m} : Min({n, m}) <= y BY <1>1 DEF Min
<1>3. Min({n, m}) <= k /\ k <= Min({n, m}) BY <1>1, <1>2
<1> HIDE DEF k
<1>4. Min({n, m}) \in Nat /\ k \in Nat BY <1>1, <1>2
<1>5. Min({n, m}) = k BY <1>3, <1>4
<1> QED BY <1>5 DEF k

Eligible == {a \in ToSet(getActiveValidators) : stake[a] >= staking_threshold}

\* select_validators takes as many as it can, and leaves nobody with more.
LEMMA SelectedFirst ==
    ASSUME pos_validators \in Seq(PosAddresses), Unrepeated(pos_validators),
           stake \in [PosAddresses -> Nat], NEW n \in Nat
    PROVE  LET list == select_validators(n) IN
           /\ Len(list) = Min({n, Cardinality(Eligible)})
           /\ \A i \in DOMAIN list : \A a \in Eligible \ ToSet(SubSeq(list, 1, i)) :
                 stake[list[i]] >= stake[a]
<1> DEFINE act == getActiveValidators
           E == {a \in PosAddresses : stake[a] >= staking_threshold}
           kept == Filtered(act, E)
           s == SortedByStake(kept)
           m == Len(s)
           k == IF n < m THEN n ELSE m
           list == SubSeq(s, 1, k)
<1>1. act \in Seq(PosAddresses) /\ Unrepeated(act) BY FilterIs DEF getActiveValidators
<1>2. select_validators(n) = list BY DEF select_validators
<1> HIDE DEF act
<1>3. kept \in Seq(PosAddresses) /\ Unrepeated(kept) /\ ToSet(kept) = ToSet(act) \cap E
  <2> HIDE DEF E
  <2> QED BY <1>1, FilterIs
<1>4. ToSet(kept) = Eligible
  <2>1. ToSet(act) \subseteq PosAddresses BY <1>1 DEF ToSet
  <2> HIDE DEF kept
  <2> QED BY <1>3, <2>1 DEF Eligible, act
<1> HIDE DEF kept, E
<1>5. /\ s \in Seq(PosAddresses) /\ Len(s) = Len(kept)
      /\ ToSet(s) = Eligible /\ Descending(s)
  BY <1>3, <1>4, SortedIs
<1>6. Cardinality(Eligible) = m BY <1>3, <1>4, <1>5, UnrepeatedSize
<1> HIDE DEF s
<1>7. m \in Nat /\ DOMAIN s = 1 .. m /\ k \in 0 .. m BY <1>5
<1>8. Min({n, Cardinality(Eligible)}) = k
  <2> HIDE DEF m
  <2> QED BY <1>6, <1>7, SmallerOfTwo
<1> HIDE DEF k
<1>9. Len(list) = k /\ DOMAIN list = 1 .. k /\ \A i \in 1 .. k : list[i] = s[i]
  BY <1>5, <1>7
<1>10. ASSUME NEW i \in 1 .. k, NEW a \in Eligible \ ToSet(SubSeq(list, 1, i))
       PROVE  stake[list[i]] >= stake[a]
  <2>1. i \in 1 .. m BY <1>7
  <2>2. PICK j \in 1 .. m : s[j] = a BY <1>5, <1>7 DEF ToSet
  <2>3. ~(j <= i)
    <3> SUFFICES ASSUME j <= i PROVE FALSE OBVIOUS
    <3>1. j \in 1 .. i /\ j \in 1 .. k BY <1>7
    <3>2. list \in Seq(PosAddresses) BY <1>5, <1>7
    <3> DEFINE h == SubSeq(list, 1, i)
    <3> HIDE DEF list
    <3>3. h \in Seq(PosAddresses) /\ DOMAIN h = 1 .. i /\ h[j] = list[j] BY <1>9, <3>1, <3>2
    <3>4. h[j] = a BY <1>9, <2>2, <3>1, <3>3
    <3> HIDE DEF h
    <3>5. a \in ToSet(h) BY <3>1, <3>3, <3>4 DEF ToSet
    <3> QED BY <3>5 DEF h, list
  <2>4. i < j BY <2>1, <2>3
  <2>5. stake[s[i]] >= stake[s[j]] BY <1>5, <1>7, <2>1, <2>4 DEF Descending
  <2> QED BY <1>9, <2>2, <2>5
<1> HIDE DEF list
<1> QED BY <1>2, <1>8, <1>9, <1>10

-----------------------------------------------------------------------------
(* Forging *)

\* The validators in the list that are active.
Present == {a \in ToSet(pos_validators) : pos_status[a] = "active"}

StakeInv ==
    /\ pos_validators \in Seq(PosAddresses) /\ Unrepeated(pos_validators)
    /\ stake \in [PosAddresses -> Nat]
    /\ pos_status \in [PosAddresses -> Statuses]
    /\ forged \in Seq(PosAddresses)
    /\ ToSet(forged) \ left \subseteq Present

\* They are those getActiveValidators lists.
LEMMA ActiveArePresent ==
    ASSUME pos_validators \in Seq(PosAddresses), Unrepeated(pos_validators)
    PROVE  /\ getActiveValidators \in Seq(PosAddresses) /\ Unrepeated(getActiveValidators)
           /\ ToSet(getActiveValidators) = Present
<1> DEFINE A == {a \in PosAddresses : pos_status[a] = "active"}
<1>1. ToSet(pos_validators) \subseteq PosAddresses BY DEF ToSet
<1>2. /\ Filtered(pos_validators, A) \in Seq(PosAddresses)
      /\ Unrepeated(Filtered(pos_validators, A))
      /\ ToSet(Filtered(pos_validators, A)) = ToSet(pos_validators) \cap A
  <2> HIDE DEF A
  <2> QED BY FilterIs
<1>3. ToSet(pos_validators) \cap A = Present BY <1>1 DEF Present
<1>4. getActiveValidators = Filtered(pos_validators, A) BY DEF getActiveValidators
<1> QED BY <1>2, <1>3, <1>4

LEMMA StakeInitial ==
    ASSUME StakeSelectionInit PROVE StakeInv
<1>1. minStake \in Nat BY StakeSelectionAssumption
<1>2. ToSet(<<>>) = {} /\ Unrepeated(<<>>) BY DEF ToSet, Unrepeated
<1> QED BY <1>1, <1>2 DEF StakeSelectionInit, StakeInv, Statuses

LEMMA StakeStep ==
    ASSUME StakeInv, [StakeSelectionNext]_stakeSelectionVars PROVE StakeInv'
<1>0. /\ pos_validators \in Seq(PosAddresses) /\ Unrepeated(pos_validators)
      /\ stake \in [PosAddresses -> Nat]
      /\ pos_status \in [PosAddresses -> Statuses]
      /\ forged \in Seq(PosAddresses)
      /\ ToSet(forged) \ left \subseteq Present
  BY DEF StakeInv
<1>1. ASSUME NEW a \in PosAddresses, addValidatorWithStake(a) PROVE StakeInv'
  <2>1. a \notin ToSet(pos_validators) BY <1>1 DEF addValidatorWithStake, ToSet
  <2>2. /\ pos_validators' \in Seq(PosAddresses) /\ Unrepeated(pos_validators')
        /\ ToSet(pos_validators') = ToSet(pos_validators) \cup {a}
    BY <1>0, <1>1, <2>1, OneAppended DEF addValidatorWithStake
  <2>3. UNCHANGED <<stake, pos_status, forged, left>> BY <1>1 DEF addValidatorWithStake
  <2>4. Present \subseteq Present' BY <2>2, <2>3 DEF Present
  <2>5. ToSet(forged)' \ left' \subseteq Present' BY <1>0, <2>3, <2>4
  <2> QED BY <1>0, <2>2, <2>3, <2>5 DEF StakeInv, Unrepeated
<1>2. ASSUME NEW a \in PosAddresses, removeValidatorByAddress(a) PROVE StakeInv'
  <2> DEFINE kept == Filtered(pos_validators, PosAddresses \ {a})
  <2>1. /\ kept \in Seq(PosAddresses) /\ Unrepeated(kept)
        /\ ToSet(kept) = ToSet(pos_validators) \cap (PosAddresses \ {a})
    BY <1>0, FilterIs
  <2>2. pos_validators' = kept BY <1>2 DEF removeValidatorByAddress
  <2> HIDE DEF kept
  <2>3. /\ UNCHANGED <<stake, pos_status, forged>>
        /\ left' = left \cup ({a} \cap ToSet(forged))
    BY <1>2 DEF removeValidatorByAddress
  <2>4. ToSet(pos_validators) \subseteq PosAddresses BY <1>0 DEF ToSet
  <2>5. Present \ {a} \subseteq Present' BY <2>1, <2>2, <2>3, <2>4 DEF Present
  <2>6. ToSet(forged)' = ToSet(forged) BY <2>3
  <2>7. ToSet(forged)' \ left' \subseteq Present' BY <1>0, <2>3, <2>5, <2>6
  <2> QED BY <1>0, <2>1, <2>2, <2>3, <2>7 DEF StakeInv, Unrepeated
<1>3. ASSUME NEW a \in PosAddresses, NEW n \in 1 .. MaxStake, increaseStake(a, n)
      PROVE StakeInv'
  <2>1. stake' = [stake EXCEPT ![a] = @ + n] /\ n \in Nat
        /\ UNCHANGED <<pos_validators, pos_status, forged, left>>
    BY <1>3 DEF increaseStake
  <2>2. stake' \in [PosAddresses -> Nat] BY <1>0, <2>1
  <2>3. Present' = Present BY <2>1 DEF Present
  <2> QED BY <1>0, <2>1, <2>2, <2>3 DEF StakeInv, Unrepeated
<1>4. ASSUME NEW a \in PosAddresses, NEW n \in 1 .. MaxStake, decreaseStake(a, n)
      PROVE StakeInv'
  <2>1. stake' = [stake EXCEPT ![a] = IF @ > n THEN @ - n ELSE 0] /\ n \in Nat
        /\ UNCHANGED <<pos_validators, pos_status, forged, left>>
    BY <1>4 DEF decreaseStake
  <2>2. (IF stake[a] > n THEN stake[a] - n ELSE 0) \in Nat
    <3>1. stake[a] \in Nat BY <1>0
    <3> QED BY <2>1, <3>1
  <2>3. stake' \in [PosAddresses -> Nat] BY <1>0, <2>1, <2>2
  <2>4. Present' = Present BY <2>1 DEF Present
  <2> QED BY <1>0, <2>1, <2>3, <2>4 DEF StakeInv, Unrepeated
<1>5. ASSUME NEW a \in PosAddresses, NEW s \in Statuses, setStatus(a, s) PROVE StakeInv'
  <2>1. /\ pos_status' = [pos_status EXCEPT ![a] = s]
        /\ left' = left \cup IF s = "active" THEN {} ELSE {a} \cap ToSet(forged)
        /\ UNCHANGED <<pos_validators, stake, forged>>
    BY <1>5 DEF setStatus
  <2>2. pos_status' \in [PosAddresses -> Statuses] BY <1>0, <2>1
  <2>3. ToSet(pos_validators) \subseteq PosAddresses BY <1>0 DEF ToSet
  <2>4. \A b \in PosAddresses : pos_status'[b] = IF b = a THEN s ELSE pos_status[b]
    BY <1>0, <2>1
  <2>5. \A b \in Present : b \in Present' \/ (b = a /\ s # "active")
    BY <2>1, <2>3, <2>4 DEF Present
  <2>6. ToSet(forged)' \ left' \subseteq Present'
    <3> SUFFICES ASSUME NEW b \in ToSet(forged) \ left' PROVE b \in Present' BY <2>1
    <3>1. b \in Present /\ ~(b = a /\ s # "active") BY <1>0, <2>1
    <3> QED BY <2>5, <3>1
  <2> QED BY <1>0, <2>1, <2>2, <2>6 DEF StakeInv, Unrepeated
<1>6. ASSUME NEW r \in 0 .. MaxStake * maxValidators, forgeBlock(r) PROVE StakeInv'
  <2> DEFINE act == getActiveValidators
             v == selectValidator(r)
  <2>1. /\ r < StakeOf(act) /\ forged' = Append(forged, v) /\ left' = left \ {v}
        /\ UNCHANGED <<pos_validators, stake, pos_status>>
    BY <1>6 DEF forgeBlock
  <2>2. r \in Nat OBVIOUS
  <2>3. act \in Seq(PosAddresses) /\ ToSet(act) = Present BY <1>0, ActiveArePresent
  <2>4. PICK P : Sums(act, P) BY <1>0, <2>3, StakesAddUp
  <2>5. \E j \in 1 .. Len(act) : v = act[j]
    BY <1>0, <2>1, <2>2, <2>3, <2>4, SelectedHasShare
  <2>6. v \in Present /\ v \in PosAddresses
    <3>1. DOMAIN act = 1 .. Len(act) BY <2>3
    <3> HIDE DEF v, act
    <3> QED BY <2>3, <2>5, <3>1 DEF ToSet
  <2> HIDE DEF v
  <2>7. forged' \in Seq(PosAddresses) /\ ToSet(forged') = ToSet(forged) \cup {v}
    BY <1>0, <2>1, <2>6, OneAppended
  <2>8. Present' = Present BY <2>1 DEF Present
  <2>9. ToSet(forged') \ left' \subseteq Present' BY <1>0, <2>1, <2>6, <2>7, <2>8
  <2> QED BY <1>0, <2>1, <2>7, <2>9 DEF StakeInv, Unrepeated
<1>7. ASSUME UNCHANGED stakeSelectionVars PROVE StakeInv'
  BY <1>0, <1>7 DEF stakeSelectionVars, StakeInv, Unrepeated, Present
<1> QED
  BY <1>1, <1>2, <1>3, <1>4, <1>5, <1>6, <1>7 DEF StakeSelectionNext

LEMMA StakeIsChoice ==
    ASSUME StakeInv PROVE SelectsByStake
<1>0. /\ pos_validators \in Seq(PosAddresses) /\ Unrepeated(pos_validators)
      /\ stake \in [PosAddresses -> Nat]
      /\ ToSet(forged) \ left \subseteq Present
  BY DEF StakeInv
<1>1. /\ getActiveValidators \in Seq(PosAddresses) /\ Unrepeated(getActiveValidators)
      /\ ToSet(getActiveValidators) = Present
  BY <1>0, ActiveArePresent
<1>2. ChosenInProportion BY <1>0, <1>1, SharesAre
<1>3. \A a \in ToSet(forged) \ left : validateForgedBy(a)
  BY <1>0, <1>1 DEF validateForgedBy
<1>4. ASSUME NEW n \in 0 .. maxValidators
      PROVE  LET list == select_validators(n)
                 eligible == {a \in ToSet(getActiveValidators) : stake[a] >= staking_threshold}
             IN  /\ Len(list) = Min({n, Cardinality(eligible)})
                 /\ \A i \in DOMAIN list : \A a \in eligible \ ToSet(SubSeq(list, 1, i)) :
                        stake[list[i]] >= stake[a]
  <2>1. n \in Nat OBVIOUS
  <2> QED BY <1>0, <2>1, SelectedFirst DEF Eligible
<1> QED BY <1>2, <1>3, <1>4 DEF SelectsByStake

-----------------------------------------------------------------------------
(* Mining *)

MinedBlocks == [difficulty : Int, zeros : Int]

MiningInv ==
    /\ last_set \in Nat /\ current_difficulty \in Nat \ {0}
    /\ last_set < 10 => current_difficulty <= last_set
    /\ mining_difficulty \in Int
    /\ mined \in Seq(MinedBlocks)
    /\ \A i \in DOMAIN mined : validateMined(mined[i], mined[i].difficulty)

LEMMA MiningInitial ==
    ASSUME MiningInit PROVE MiningInv
BY DEF MiningInit, MiningInv

LEMMA MiningStep ==
    ASSUME MiningInv, [MiningNext]_miningVars PROVE MiningInv'
<1> USE DEF MiningInv
<1>1. ASSUME NEW average, calculate_difficulty(average) PROVE MiningInv'
  <2>1. /\ Raised(current_difficulty) \in Nat \ {0}
        /\ current_difficulty < 10 => Raised(current_difficulty) = current_difficulty
        /\ Lowered(current_difficulty) \in Nat \ {0}
        /\ Lowered(current_difficulty) <= current_difficulty
    BY DEF Raised, Lowered
  <2>2. \/ current_difficulty' = Raised(current_difficulty)
        \/ current_difficulty' = Lowered(current_difficulty)
        \/ current_difficulty' = current_difficulty
    BY <1>1 DEF calculate_difficulty
  <2>3. UNCHANGED <<mining_difficulty, last_set, mined>> BY <1>1 DEF calculate_difficulty
  <2> QED BY <2>1, <2>2, <2>3 DEF validateMined
<1>2. ASSUME NEW d \in 1 .. MaxDifficulty, mineOneBlock(d) PROVE MiningInv'
  <2> DEFINE b == MinedBlock(mining_difficulty, d)
  <2>1. b \in MinedBlocks /\ validateMined(b, b.difficulty)
    BY <1>2 DEF MinedBlock, MinedBlocks, validateMined, mineOneBlock
  <2>2. /\ mined' = Append(mined, b)
        /\ UNCHANGED <<mining_difficulty, current_difficulty, last_set>>
    BY <1>2 DEF mineOneBlock
  <2> HIDE DEF b
  <2>3. /\ mined' \in Seq(MinedBlocks) /\ Len(mined') = Len(mined) + 1
        /\ mined'[Len(mined) + 1] = b /\ \A i \in 1 .. Len(mined) : mined'[i] = mined[i]
    BY <2>1, <2>2, OneAppended
  <2>4. ASSUME NEW i \in DOMAIN mined' PROVE validateMined(mined'[i], mined'[i].difficulty)
    <3>1. DOMAIN mined = 1 .. Len(mined) /\ (i \in 1 .. Len(mined) \/ i = Len(mined) + 1)
      BY <2>3
    <3> QED BY <2>1, <2>3, <3>1
  <2> QED BY <2>2, <2>3, <2>4 DEF validateMined
<1>3. ASSUME NEW d \in 1 .. MaxDifficulty, setDifficulty(d) PROVE MiningInv'
  BY <1>3 DEF setDifficulty, validateMined
<1>4. ASSUME NEW d \in 1 .. MaxDifficulty, ChainGrows(d) PROVE MiningInv'
  BY <1>4 DEF ChainGrows, validateMined
<1>5. ASSUME NEW d \in 1 .. MaxRaised, set_mining_difficulty(d) PROVE MiningInv'
  BY <1>5 DEF set_mining_difficulty, validateMined
<1>6. ASSUME UNCHANGED miningVars PROVE MiningInv' BY <1>6 DEF miningVars, validateMined
<1> QED BY <1>1, <1>2, <1>3, <1>4, <1>5, <1>6 DEF MiningNext

\* Every block is forged by a validator that the random value chooses in proportion to
\* its stake, the larger stakes are chosen first, and every block mined meets the
\* difficulty it names, whatever was set and removed before (pos.js, pow.js,
\* interface.js).
THEOREM BlocksByThoseChosen == ConsensusSpec => []BlocksAsChosen
<1>1. ConsensusInit => StakeInv /\ MiningInv
  BY StakeInitial, MiningInitial DEF ConsensusInit
<1>2. StakeInv /\ MiningInv /\ [ConsensusNext]_allVars => (StakeInv /\ MiningInv)'
  BY ConsensusPartsMove, StakeStep, MiningStep
<1>3. StakeInv /\ MiningInv => BlocksAsChosen
  BY StakeIsChoice DEF MiningInv, MinedMeetsDifficulty, BlocksAsChosen
<1> QED BY <1>1, <1>2, <1>3, PTL DEF ConsensusSpec
=============================================================================
