-------------------------- MODULE FeeDistribution --------------------------
(***************************************************************************)
(* runtime/fee_distribution.js: FeeDistributionSystem.  Each fee is split  *)
(* by percentages, every part rounded down; what has accumulated is        *)
(* distributed from time to time or by force.                              *)
(*                                                                         *)
(* Percentages are hundredths.  The code multiplies floating numbers, so a *)
(* part that should be whole may come out just below and lose one.         *)
(* `collected`, `distributed` and `most` are kept for the property.  Left  *)
(* out: statistics, and the distribution to all but the treasury, which    *)
(* does nothing.                                                           *)
(***************************************************************************)
EXTENDS Integers, FiniteSets, Functions

CONSTANTS
    FeeAmounts,
    Rewarded,               \* addresses of validators
    Settings,               \* arguments of set_fee_distribution, in hundredths
    minimum_distribution_amount, distribution_interval,
    MaxFees, MaxFeeTime     \* bounds on the fees collected and the clock

ASSUME FeeAssumption ==
    /\ FeeAmounts \subseteq Nat \ {0} /\ IsFiniteSet(Rewarded)
    /\ {minimum_distribution_amount, distribution_interval, MaxFees, MaxFeeTime} \subseteq Nat

Categories == {"validators", "treasury", "development", "community"}
NoAddress == "none"

VARIABLES
    fee_distribution,        \* hundredths of each category
    accumulated_fees,        \* per category
    validator_rewards,       \* per address
    last_distribution_time, feeTime,
    collected, distributed,  \* sums of all fees and of all distributions
    most                     \* the largest sum of hundredths so far

feeVars == <<fee_distribution, accumulated_fees, validator_rewards, last_distribution_time,
             feeTime, collected, distributed, most>>

DEFAULT_DISTRIBUTION ==
    [c \in Categories |-> CASE c = "validators" -> 70 [] c = "treasury" -> 20
                            [] c = "development" -> 10 [] OTHER -> 0]

NoFees == [c \in Categories |-> 0]
NoRewards == [v \in Rewarded |-> 0]

FeeInit ==
    /\ fee_distribution = DEFAULT_DISTRIBUTION
    /\ accumulated_fees = NoFees /\ validator_rewards = NoRewards
    /\ last_distribution_time = 0 /\ feeTime = 0
    /\ collected = 0 /\ distributed = 0
    /\ most = SumFunction(fee_distribution)

FeeTimePasses ==
    /\ feeTime < MaxFeeTime /\ feeTime' = feeTime + 1
    /\ UNCHANGED <<fee_distribution, accumulated_fees, validator_rewards, last_distribution_time,
                   collected, distributed, most>>

\* Mutant: a part is rounded to the nearest number.
Part_Nearest(fee, c) == (fee * fee_distribution[c] + 50) \div 100

Part(fee, c) == (fee * fee_distribution[c]) \div 100

\* Categories whose part is whole without being nothing or all: the product of
\* floating numbers may fall short of it.
MayFallShort(fee) ==
    {c \in Categories : fee_distribution[c] % 100 # 0 /\ (fee * fee_distribution[c]) % 100 = 0}

\* short: the categories whose part does fall short.
FeePart(fee, short, c) == Part(fee, c) - IF c \in short THEN 1 ELSE 0

collect_transaction_fee(fee, v, short) ==
    /\ collected + fee <= MaxFees
    /\ collected' = collected + fee
    /\ accumulated_fees' = [c \in Categories |-> accumulated_fees[c] + FeePart(fee, short, c)]
    /\ validator_rewards' = [x \in Rewarded |->
           validator_rewards[x] + IF x = v THEN FeePart(fee, short, "validators") ELSE 0]
    /\ UNCHANGED <<fee_distribution, last_distribution_time, feeTime, distributed, most>>

\* TreasuryManager has no add_balance: with anything for the treasury the
\* call throws there, and all stays as it is.
distribute_fees(force) ==
    /\ ~force => /\ SumFunction(accumulated_fees) >= minimum_distribution_amount
                 /\ feeTime - last_distribution_time >= distribution_interval
    /\ accumulated_fees["treasury"] = 0
    /\ distributed' = distributed + SumFunction(accumulated_fees)
    /\ accumulated_fees' = NoFees /\ validator_rewards' = NoRewards
    /\ last_distribution_time' = feeTime
    /\ UNCHANGED <<fee_distribution, feeTime, collected, most>>

\* The categories given sum up to about a hundred; the others keep theirs.
set_fee_distribution(setting) ==
    /\ SumFunction(setting) \in 99 .. 101
    /\ \A c \in DOMAIN setting : c \in Categories /\ setting[c] \in 0 .. 100
    /\ fee_distribution' =
           [c \in Categories |-> IF c \in DOMAIN setting THEN setting[c] ELSE fee_distribution[c]]
    /\ most' = LET sum == SumFunction(fee_distribution') IN IF sum > most THEN sum ELSE most
    /\ UNCHANGED <<accumulated_fees, validator_rewards, last_distribution_time, feeTime,
                   collected, distributed>>

FeeNext ==
    \/ FeeTimePasses
    \/ \E fee \in FeeAmounts, v \in Rewarded \cup {NoAddress} :
           \E short \in SUBSET MayFallShort(fee) : collect_transaction_fee(fee, v, short)
    \/ \E force \in BOOLEAN : distribute_fees(force)
    \/ \E setting \in Settings : set_fee_distribution(setting)

FeeSpec == FeeInit /\ [][FeeNext]_feeVars

-----------------------------------------------------------------------------

\* What has accumulated and what was distributed never exceed the fees collected
\* while the percentages have not exceeded the whole, and if they have, exceed
\* them by no more than the largest sum of percentages did; and the rewards of the
\* validators stay within their category whatever is set between two distributions
\* (collect_transaction_fee, distribute_fees, set_fee_distribution).
FeesAccounted ==
    /\ 100 * (SumFunction(accumulated_fees) + distributed) <= most * collected
    /\ SumFunction(validator_rewards) <= accumulated_fees["validators"]
=============================================================================
