-------------------------- MODULE FinalitySystems --------------------------
(***************************************************************************)
(* consensus/finality.js, PBFTFinalitySystem and CasperFFG.                *)
(*                                                                         *)
(* processCommit asks the validators one after the other, all but the      *)
(* primary to prepare and then all to commit, and awaits every answer;     *)
(* another call may run meanwhile.  A validator belongs to the caller and  *)
(* answers or not.  What is committed to is not compared with what was     *)
(* prepared: of the prepare messages nothing is read here.                 *)
(***************************************************************************)
EXTENDS Integers, Sequences

CONSTANTS
    TotalValidators,  \* this.validators.length
    MaxCommits,       \* bound on the calls of processCommit
    MaxVoteEpoch      \* bound on the epochs of Casper FFG

ASSUME FinalitySystemsAssumption ==
    TotalValidators \in Nat \ {0} /\ MaxCommits \in Nat /\ MaxVoteEpoch \in Nat

VARIABLES
    commit_calls,   \* calls of processCommit: block index, validators asked, commits, answer
    committed,      \* this.committed: the index of the block, -1 for null
    lastExecuted,   \* this.lastExecuted
    justifiedEpoch, \* CasperFFG.justifiedEpoch
    finalizedEpoch  \* CasperFFG.finalizedEpoch

pbftVars == <<commit_calls, committed, lastExecuted>>
casperVars == <<justifiedEpoch, finalizedEpoch>>
finalitySystemsVars == <<pbftVars, casperVars>>

None_committed == -1
Unanswered == -2

FinalitySystemsInit ==
    /\ commit_calls = <<>> /\ committed = None_committed /\ lastExecuted = -1
    /\ justifiedEpoch = 0 /\ finalizedEpoch = 0

requiredQuorum == (TotalValidators * 2) \div 3 + 1

\* All but the primary are asked to prepare, then all of them to commit.
Asked == 2 * TotalValidators - 1
Preparing(k) == commit_calls[k].asked < TotalValidators - 1

processCommit(i) ==
    /\ Len(commit_calls) < MaxCommits
    /\ commit_calls' = Append(commit_calls,
           [index |-> i, asked |-> 0, commits |-> 0, answer |-> Unanswered])
    /\ UNCHANGED <<committed, lastExecuted, casperVars>>

\* The answer of the validator that was asked; only commits are counted.
ValidatorAnswers(k, ok) ==
    /\ commit_calls[k].asked < Asked
    /\ commit_calls' = [commit_calls EXCEPT
           ![k].asked = @ + 1,
           ![k].commits = IF ok /\ ~Preparing(k) THEN @ + 1 ELSE @]
    /\ UNCHANGED <<committed, lastExecuted, casperVars>>

\* Mutant: every call commits its block.
CommitEnds_NoQuorum(k) ==
    /\ commit_calls[k].asked = Asked /\ commit_calls[k].answer = Unanswered
    /\ committed' = commit_calls[k].index /\ lastExecuted' = commit_calls[k].index
    /\ commit_calls' = [commit_calls EXCEPT ![k].answer = committed']
    /\ UNCHANGED casperVars

\* A call without a quorum answers what was committed before, or by another.
CommitEnds(k) ==
    /\ commit_calls[k].asked = Asked /\ commit_calls[k].answer = Unanswered
    /\ IF commit_calls[k].commits >= requiredQuorum
       THEN committed' = commit_calls[k].index /\ lastExecuted' = commit_calls[k].index
       ELSE UNCHANGED <<committed, lastExecuted>>
    /\ commit_calls' = [commit_calls EXCEPT ![k].answer = committed']
    /\ UNCHANGED casperVars

\* The epoch that becomes final is the next one, justified or not.
processVote(source, target) ==
    /\ LET accepted == source >= justifiedEpoch /\ target > justifiedEpoch IN
       /\ justifiedEpoch' = IF accepted THEN target ELSE justifiedEpoch
       /\ finalizedEpoch' = IF justifiedEpoch' > finalizedEpoch + 1
                            THEN finalizedEpoch + 1 ELSE finalizedEpoch
    /\ UNCHANGED pbftVars

FinalitySystemsNext ==
    \/ \E i \in 0 .. MaxCommits : processCommit(i)
    \/ \E k \in DOMAIN commit_calls :
          (\E ok \in BOOLEAN : ValidatorAnswers(k, ok)) \/ CommitEnds(k)
    \/ \E s, t \in 0 .. MaxVoteEpoch : processVote(s, t)

FinalitySystemsSpec == FinalitySystemsInit /\ [][FinalitySystemsNext]_finalitySystemsVars

-----------------------------------------------------------------------------
(* Properties *)

\* A block that any call answers was committed to by a quorum of the validators,
\* in that call or in an overlapping one, and is the one counted as executed last
\* (processCommit); the epoch that is final stays below the justified one, however
\* the votes of Casper FFG skip epochs (processVote).
AnswersHaveQuorum ==
    /\ committed = lastExecuted
    /\ \A k \in DOMAIN commit_calls : commit_calls[k].answer >= 0 =>
          \E c \in DOMAIN commit_calls :
              /\ commit_calls[c].index = commit_calls[k].answer
              /\ 3 * commit_calls[c].commits > 2 * TotalValidators
    /\ \/ finalizedEpoch < justifiedEpoch
       \/ finalizedEpoch = 0 /\ justifiedEpoch = 0
=============================================================================
