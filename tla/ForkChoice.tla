----------------------------- MODULE ForkChoice -----------------------------
(***************************************************************************)
(* The fork choice rules of consensus/finality.js (applyForkChoice), as    *)
(* folds over the chains that compete, in the order they are given.        *)
(*                                                                         *)
(* Of a chain its length, the votes and the timestamp of its latest block  *)
(* and the sum of its difficulties are read.  The variable `competing`     *)
(* collects the chains one by one.  blockVotes is taken by block number,   *)
(* so a chain's votes do not depend on the other chains.                   *)
(***************************************************************************)
EXTENDS Integers, Sequences, SequencesExt

CONSTANTS
    Algorithms,   \* options.forkChoiceAlgorithm
    Scores,       \* lengths, votes, timestamps and difficulties
    MaxCompeting  \* bound on the chains that compete

ASSUME ForkChoiceAssumption == Scores \subseteq Nat /\ MaxCompeting \in Nat

VARIABLES
    algorithm,    \* this.forkChoiceAlgorithm
    competing     \* the chains handed to applyForkChoice

forkChoiceVars == <<algorithm, competing>>

None == [none |-> TRUE]

\* Mutant: the first one of two chains with the same number of votes is kept.
lmdGhostForkChoice_First(chains) ==
    FoldLeft(LAMBDA best, c : IF best = None \/ c.votes > best.votes THEN c ELSE best,
             None, chains)

lmdGhostForkChoice(chains) ==
    FoldLeft(LAMBDA best, c :
                 IF \/ best = None \/ c.votes > best.votes
                    \/ c.votes = best.votes /\ c.timestamp > best.timestamp
                 THEN c ELSE best,
             None, chains)

ghostForkChoice(chains) ==
    FoldLeft(LAMBDA best, c :
                 IF \/ best = None \/ c.length > best.length
                    \/ c.length = best.length /\ c.difficulty > best.difficulty
                 THEN c ELSE best,
             None, chains)

longestChainForkChoice(chains) ==
    FoldLeft(LAMBDA best, c : IF best = None \/ c.length > best.length THEN c ELSE best,
             None, chains)

\* An unknown algorithm is LMD-GHOST.
applyForkChoice(chains) ==
    CASE algorithm = "GHOST"        -> ghostForkChoice(chains)
      [] algorithm = "LongestChain" -> longestChainForkChoice(chains)
      [] OTHER                      -> lmdGhostForkChoice(chains)

ForkChoiceInit == algorithm \in Algorithms /\ competing = <<>>

ForkChoiceNext ==
    /\ Len(competing) < MaxCompeting
    /\ \E c \in [length : Scores, votes : Scores, timestamp : Scores, difficulty : Scores] :
          competing' = Append(competing, c)
    /\ UNCHANGED algorithm

ForkChoiceSpec == ForkChoiceInit /\ [][ForkChoiceNext]_forkChoiceVars

-----------------------------------------------------------------------------
(* Properties *)

\* What a rule weighs first and second.
Weight(c) ==
    CASE algorithm = "GHOST"        -> <<c.length, c.difficulty>>
      [] algorithm = "LongestChain" -> <<c.length, 0>>
      [] OTHER                      -> <<c.votes, c.timestamp>>

Outweighs(c, d) ==
    \/ Weight(c)[1] > Weight(d)[1]
    \/ Weight(c)[1] = Weight(d)[1] /\ Weight(c)[2] > Weight(d)[2]

\* The chain chosen is the first one that no other outweighs, whatever order
\* the chains come in (applyForkChoice).
ChoosesHeaviest ==
    competing # <<>> =>
        \E i \in DOMAIN competing :
            /\ applyForkChoice(competing) = competing[i]
            /\ \A j \in DOMAIN competing :
                  /\ ~Outweighs(competing[j], competing[i])
                  /\ j < i => Outweighs(competing[i], competing[j])
=============================================================================
