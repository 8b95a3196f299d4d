---------------------------- MODULE MCConsensus ----------------------------
(***************************************************************************)
(* The components of src/consensus other than FinalityManager, and         *)
(* core/fork.js, side by side: they do not call each other, and a          *)
(* behaviour is one of `part`, the others staying as they start.           *)
(***************************************************************************)
EXTENDS ValidatorSet, ForkChoice, FinalitySystems, StakeSelection,
        ForkResolution, TLC

VARIABLE part

allVars == <<part, validatorSetVars, forkChoiceVars, finalitySystemsVars,
             stakeSelectionVars, miningVars, forkResolutionVars>>

ConsensusInit ==
    /\ part \in {"validators", "choice", "systems", "stake", "mining", "fork"}
    /\ ValidatorSetInit /\ ForkChoiceInit /\ FinalitySystemsInit
    /\ StakeSelectionInit /\ MiningInit /\ ForkResolutionInit
    /\ part # "validators" => \A a \in Addresses : object[a].stake = CHOOSE s \in Stakes : TRUE
    /\ part # "choice" => algorithm = "GHOST"
    /\ part # "fork" => fork_threshold = 1 /\ resolution_strategy = "longest_chain"

ConsensusNext ==
    \/ /\ part = "validators" /\ ValidatorSetNext
       /\ UNCHANGED <<part, forkChoiceVars, finalitySystemsVars,
                      stakeSelectionVars, miningVars, forkResolutionVars>>
    \/ /\ part = "choice" /\ ForkChoiceNext
       /\ UNCHANGED <<part, validatorSetVars, finalitySystemsVars,
                      stakeSelectionVars, miningVars, forkResolutionVars>>
    \/ /\ part = "systems" /\ FinalitySystemsNext
       /\ UNCHANGED <<part, validatorSetVars, forkChoiceVars,
                      stakeSelectionVars, miningVars, forkResolutionVars>>
    \/ /\ part = "stake" /\ StakeSelectionNext
       /\ UNCHANGED <<part, validatorSetVars, forkChoiceVars, finalitySystemsVars,
                      miningVars, forkResolutionVars>>
    \/ /\ part = "mining" /\ MiningNext
       /\ UNCHANGED <<part, validatorSetVars, forkChoiceVars, finalitySystemsVars,
                      stakeSelectionVars, forkResolutionVars>>
    \/ /\ part = "fork" /\ ForkResolutionNext
       /\ UNCHANGED <<part, validatorSetVars, forkChoiceVars, finalitySystemsVars,
                      stakeSelectionVars, miningVars>>

ConsensusSpec == ConsensusInit /\ [][ConsensusNext]_allVars

\* Blocks are forged in proportion to stake and by those who are there, and mined at
\* the difficulty they name (pos.js, pow.js and interface.js).
BlocksAsChosen == SelectsByStake /\ MinedMeetsDifficulty

AddressSymmetry == Permutations(Addresses)
=============================================================================
