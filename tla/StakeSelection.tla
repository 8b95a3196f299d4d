--------------------------- MODULE StakeSelection ---------------------------
(***************************************************************************)
(* consensus/pos.js: the list of validators, the choice of the one that    *)
(* forges and the blocks forged; consensus/pow.js: blocks mined; and the   *)
(* choices by stake and the difficulty of consensus/interface.js, which    *)
(* differ.                                                                 *)
(*                                                                         *)
(* Stakes and the random value are whole numbers here; Math.random() below *)
(* one gives a value below the total.  A hash is its number of leading     *)
(* zeros.  `left` and `last_set` are kept for the properties.  Names,      *)
(* rewards and the counts of forged blocks are left out: no decision reads *)
(* them.  The timeout of mine cannot come before the search is over.       *)
(***************************************************************************)
EXTENDS Integers, FiniteSetsExt, SequencesExt

CONSTANTS
    PosAddresses,   \* addresses of validators
    MaxStake,       \* bound on a stake
    minStake,       \* options.minStake
    maxValidators,  \* options.maxValidators
    staking_threshold,
    difficulty_adjustment_blocks,
    MaxForged,      \* bound on the blocks forged, and on those mined
    MaxDifficulty,  \* bound on the difficulties of pow.js and of the chain
    MaxRaised,      \* bound on that of interface.js
    MaxMinedChain   \* bound on the length of the chain mined on

NoValidator == [none |-> TRUE]

ASSUME StakeSelectionAssumption ==
    /\ NoValidator \notin PosAddresses
    /\ {MaxStake, minStake, maxValidators, staking_threshold, MaxForged, MaxMinedChain} \subseteq Nat
    /\ {difficulty_adjustment_blocks, MaxDifficulty, MaxRaised} \subseteq Nat \ {0}

VARIABLES
    pos_validators, \* ValidatorManager.validators: addresses, in order
    stake,          \* the stake of each validator
    pos_status,     \* the status of each
    forged,         \* who forged each block
    left            \* forgers who were removed or not active at a time since

stakeSelectionVars == <<pos_validators, stake, pos_status, forged, left>>

Statuses == {"active", "inactive", "suspended"}

StakeSelectionInit ==
    /\ pos_validators = <<>>
    /\ stake = [a \in PosAddresses |-> minStake]
    /\ pos_status = [a \in PosAddresses |-> "active"]
    /\ forged = <<>> /\ left = {}

\* The elements of the list that are in s, in their order.
Filtered(list, s) == FoldLeft(LAMBDA r, a : IF a \in s THEN Append(r, a) ELSE r, <<>>, list)

addValidatorWithStake(a) ==
    /\ Len(pos_validators) < maxValidators
    /\ stake[a] >= minStake
    /\ \A i \in DOMAIN pos_validators : pos_validators[i] # a
    /\ pos_validators' = Append(pos_validators, a)
    /\ UNCHANGED <<stake, pos_status, forged, left>>

removeValidatorByAddress(a) ==
    /\ \E i \in DOMAIN pos_validators : pos_validators[i] = a
    /\ pos_validators' = Filtered(pos_validators, PosAddresses \ {a})
    /\ left' = left \cup ({a} \cap ToSet(forged))
    /\ UNCHANGED <<stake, pos_status, forged>>

increaseStake(a, amount) ==
    /\ stake[a] + amount <= MaxStake
    /\ stake' = [stake EXCEPT ![a] = @ + amount]
    /\ UNCHANGED <<pos_validators, pos_status, forged, left>>

\* A validator in the list may fall below the minimum, down to no stake.
decreaseStake(a, amount) ==
    /\ stake' = [stake EXCEPT ![a] = IF @ > amount THEN @ - amount ELSE 0]
    /\ UNCHANGED <<pos_validators, pos_status, forged, left>>

setStatus(a, s) ==
    /\ pos_status' = [pos_status EXCEPT ![a] = s]
    /\ left' = left \cup IF s = "active" THEN {} ELSE {a} \cap ToSet(forged)
    /\ UNCHANGED <<pos_validators, stake, forged>>

getActiveValidators == Filtered(pos_validators, {a \in PosAddresses : pos_status[a] = "active"})

StakeOf(list) == FoldLeft(LAMBDA sum, a : sum + stake[a], 0, list)

\* Mutant: a random value equal to the stake still chooses the validator.
selectValidator_AtMost(randomValue) ==
    FoldLeft(LAMBDA acc, a :
                 IF acc.chosen # NoValidator THEN acc
                 ELSE IF acc.left <= stake[a] THEN [acc EXCEPT !.chosen = a]
                 ELSE [acc EXCEPT !.left = @ - stake[a]],
             [left |-> randomValue, chosen |-> NoValidator], getActiveValidators).chosen

\* The stakes are taken off the random value one after the other.
selectValidator(randomValue) ==
    FoldLeft(LAMBDA acc, a :
                 IF acc.chosen # NoValidator THEN acc
                 ELSE IF acc.left < stake[a] THEN [acc EXCEPT !.chosen = a]
                 ELSE [acc EXCEPT !.left = @ - stake[a]],
             [left |-> randomValue, chosen |-> NoValidator], getActiveValidators).chosen

\* The first validator up to which the stakes sum to the random value.
select_validator_by_stake(list, random_value) ==
    FoldLeft(LAMBDA acc, a :
                 IF acc.chosen # NoValidator THEN acc
                 ELSE [cumulative |-> acc.cumulative + stake[a],
                       chosen |-> IF acc.cumulative + stake[a] >= random_value
                                  THEN a ELSE NoValidator],
             [cumulative |-> 0, chosen |-> NoValidator], list).chosen

\* The largest stake first, of two alike the one that comes first in the list.
SortedByStake(list) ==
    FoldLeft(LAMBDA s, a :
                 InsertAt(s, 1 + Cardinality({i \in DOMAIN s : stake[s[i]] >= stake[a]}), a),
             <<>>, list)

\* Those with enough stake, the largest first, as many as asked for.
select_validators(n) ==
    LET eligible == {a \in PosAddresses : stake[a] >= staking_threshold}
        sorted == SortedByStake(Filtered(getActiveValidators, eligible))
    IN  SubSeq(sorted, 1, IF n < Len(sorted) THEN n ELSE Len(sorted))

\* The block names its forger; nobody with stake: it fails.
forgeBlock(randomValue) ==
    /\ Len(forged) < MaxForged
    /\ randomValue < StakeOf(getActiveValidators)
    /\ LET validator == selectValidator(randomValue)
       IN  forged' = Append(forged, validator) /\ left' = left \ {validator}
    /\ UNCHANGED <<pos_validators, stake, pos_status>>

\* Whoever forged it must be there now.
validateForgedBy(a) == a \in ToSet(getActiveValidators)

StakeSelectionNext ==
    \/ \E a \in PosAddresses :
          \/ addValidatorWithStake(a) \/ removeValidatorByAddress(a)
          \/ \E n \in 1 .. MaxStake : increaseStake(a, n) \/ decreaseStake(a, n)
          \/ \E s \in Statuses : setStatus(a, s)
    \/ \E r \in 0 .. MaxStake * maxValidators : forgeBlock(r)

StakeSelectionSpec == StakeSelectionInit /\ [][StakeSelectionNext]_stakeSelectionVars

-----------------------------------------------------------------------------
(* Mining *)

VARIABLES
    chain_length, chain_difficulty,
    mining_difficulty,    \* ProofOfWork.difficulty of pow.js
    current_difficulty,   \* that of interface.js
    last_set,             \* the last value it was set to
    mined                 \* difficulty and hash of the blocks mined

miningVars == <<chain_length, chain_difficulty, mining_difficulty, current_difficulty, last_set, mined>>

\* Taken from the chain when it is made, not followed later.
MiningInit ==
    /\ chain_length = 1 /\ chain_difficulty = 1 /\ mining_difficulty = chain_difficulty
    /\ current_difficulty = 4 /\ last_set = 4 /\ mined = <<>>

MinedBlock(d, zeros) == [difficulty |-> d, zeros |-> zeros]
validateMined(block, d) == block.zeros >= d

\* Nonces one after the other until the hash fits, with more zeros perhaps.
mineOneBlock(zeros) ==
    /\ Len(mined) < MaxForged /\ zeros >= mining_difficulty
    /\ mined' = Append(mined, MinedBlock(mining_difficulty, zeros))
    /\ UNCHANGED <<chain_length, chain_difficulty, mining_difficulty, current_difficulty, last_set>>

setDifficulty(d) ==
    /\ mining_difficulty' = d
    /\ UNCHANGED <<chain_length, chain_difficulty, current_difficulty, last_set, mined>>

\* See Ledger.
ChainGrows(d) ==
    /\ chain_length < MaxMinedChain /\ chain_length' = chain_length + 1
    /\ chain_difficulty' = d
    /\ UNCHANGED <<mining_difficulty, current_difficulty, last_set, mined>>

set_mining_difficulty(d) ==
    /\ current_difficulty' = d /\ last_set' = d
    /\ UNCHANGED <<chain_length, chain_difficulty, mining_difficulty, mined>>

\* A tenth more, and a tenth less, rounded down.
Raised(d) == (d * 11) \div 10

\* Mutant: Math.max is missing.
Lowered_NoFloor(d) == (d * 9) \div 10

Lowered(d) == IF d = 1 THEN 1 ELSE (d * 9) \div 10

\* The timestamps of the last blocks, the average of which is compared with the
\* target for the time of a block, are abstracted to how it compares.
calculate_difficulty(average) ==
    /\ chain_length % difficulty_adjustment_blocks = 0
    /\ current_difficulty' = CASE average = "below" -> Raised(current_difficulty)
                               [] average = "above" -> Lowered(current_difficulty)
                               [] OTHER -> current_difficulty
    /\ current_difficulty' <= MaxRaised
    /\ UNCHANGED <<chain_length, chain_difficulty, mining_difficulty, last_set, mined>>

MiningNext ==
    \/ \E average \in {"below", "at", "above"} : calculate_difficulty(average)
    \/ \E d \in 1 .. MaxDifficulty : mineOneBlock(d) \/ setDifficulty(d) \/ ChainGrows(d)
    \/ \E d \in 1 .. MaxRaised : set_mining_difficulty(d)

MiningSpec == MiningInit /\ [][MiningNext]_miningVars

-----------------------------------------------------------------------------
(* Properties *)

\* Each active validator is chosen by as many of the equally likely random values
\* as it has stake, the one without stake by none, and no other validator ever
\* (selectValidator); select_validator_by_stake agrees, one value further on, and
\* at the value 0 takes the first validator, stake or not.
ChosenInProportion ==
    LET active == getActiveValidators
        total  == StakeOf(active)
    IN \A i \in DOMAIN active :
           /\ Cardinality({r \in 0 .. total - 1 : selectValidator(r) = active[i]})
                  = stake[active[i]]
           /\ Cardinality({r \in 1 .. total :
                               select_validator_by_stake(active, r) = active[i]})
                  = stake[active[i]]
           /\ select_validator_by_stake(active, 0) = active[1]

\* Of those with enough stake select_validators takes as many as asked for, and
\* nobody before one with more; a forged block is valid as long as its forger
\* neither was removed nor changed status, whatever its stake has become
\* (ProofOfStake.validateBlock).
SelectsByStake ==
    /\ ChosenInProportion
    /\ \A n \in 0 .. maxValidators :
          LET list == select_validators(n)
              eligible == {a \in ToSet(getActiveValidators) : stake[a] >= staking_threshold}
          IN  /\ Len(list) = Min({n, Cardinality(eligible)})
              /\ \A i \in DOMAIN list : \A a \in eligible \ ToSet(SubSeq(list, 1, i)) :
                     stake[list[i]] >= stake[a]
    /\ \A a \in ToSet(forged) \ left : validateForgedBy(a)

\* A mined block meets the difficulty it names, that of the miner and not of the
\* chain; the difficulty of interface.js never falls below one, and set below ten it
\* is never raised, a tenth of it being rounded off (mineBlock, calculate_difficulty).
MinedMeetsDifficulty ==
    /\ \A i \in DOMAIN mined : validateMined(mined[i], mined[i].difficulty)
    /\ current_difficulty >= 1
    /\ last_set < 10 => current_difficulty <= last_set
=============================================================================
