-------------------------------- MODULE Gas --------------------------------
(***************************************************************************)
(* runtime/gas.js: GasEngine, the gas of transactions and of their block.  *)
(*                                                                         *)
(* Left out: the tables of costs, prices, and what GasPriceOracle and      *)
(* GasLimitCalculator compute of numbers.                                  *)
(***************************************************************************)
EXTENDS Integers, FiniteSets, Functions

CONSTANTS
    GasTransactions,
    GasLimits,       \* limits of transactions
    GasAmounts,      \* gas of one operation, and refunds
    blockGasLimit,
    MaxOver          \* bound on the gas over a limit

ASSUME GasAssumption ==
    /\ IsFiniteSet(GasTransactions) /\ GasLimits \subseteq Nat /\ GasAmounts \subseteq Nat \ {0}
    /\ blockGasLimit \in Nat /\ MaxOver \in Nat

VARIABLES
    currentBlockGasUsed,
    transactionGasRecords, \* gasLimit, gasUsed and gasRefund, or NoRecord
    lastFinalized          \* what the last finalizeTransaction returned

gasVars == <<currentBlockGasUsed, transactionGasRecords, lastFinalized>>

NoRecord == [gasLimit |-> -1, gasUsed |-> 0, gasRefund |-> 0]
Running == {t \in GasTransactions : transactionGasRecords[t] # NoRecord}

GasInit ==
    /\ currentBlockGasUsed = 0
    /\ transactionGasRecords = [t \in GasTransactions |-> NoRecord]
    /\ lastFinalized = [gasUsed |-> 0, effectiveGasUsed |-> 0]

\* A transaction that is started again begins at zero; the block keeps what
\* it used.
startTransaction(t, limit) ==
    /\ transactionGasRecords' = [transactionGasRecords EXCEPT ![t] =
           [gasLimit |-> limit, gasUsed |-> 0, gasRefund |-> 0]]
    /\ UNCHANGED <<currentBlockGasUsed, lastFinalized>>

\* What the block pays for n more gas of a transaction: nothing once its own
\* limit is passed.
Charged(t, n) ==
    IF transactionGasRecords[t].gasUsed + n > transactionGasRecords[t].gasLimit THEN 0 ELSE n

\* The gas is added before either limit is looked at, and stays when the call
\* then throws.
trackGasUsage(t, n) ==
    /\ t \in Running
    /\ transactionGasRecords[t].gasUsed + n <= transactionGasRecords[t].gasLimit + MaxOver
    /\ currentBlockGasUsed + Charged(t, n) <= blockGasLimit + MaxOver
    /\ transactionGasRecords' = [transactionGasRecords EXCEPT ![t].gasUsed = @ + n]
    /\ currentBlockGasUsed' = currentBlockGasUsed + Charged(t, n)
    /\ UNCHANGED lastFinalized

addGasRefund(t, n) ==
    /\ t \in Running
    /\ transactionGasRecords[t].gasRefund + n <= transactionGasRecords[t].gasLimit
    /\ transactionGasRecords' = [transactionGasRecords EXCEPT ![t].gasRefund = @ + n]
    /\ UNCHANGED <<currentBlockGasUsed, lastFinalized>>

\* At most half of the gas is given back.
Effective(r) ==
    r.gasUsed - IF r.gasRefund < r.gasUsed \div 2 THEN r.gasRefund ELSE r.gasUsed \div 2

finalizeTransaction(t) ==
    /\ t \in Running
    /\ lastFinalized' = [gasUsed |-> transactionGasRecords[t].gasUsed,
                         effectiveGasUsed |-> Effective(transactionGasRecords[t])]
    /\ transactionGasRecords' = [transactionGasRecords EXCEPT ![t] = NoRecord]
    /\ UNCHANGED currentBlockGasUsed

\* Mutant: the records of the last block stay.
Cleared_Kept == transactionGasRecords

\* Transactions still running are forgotten with the block.
Cleared == [t \in GasTransactions |-> NoRecord]

resetForNewBlock ==
    /\ currentBlockGasUsed' = 0
    /\ transactionGasRecords' = Cleared
    /\ UNCHANGED lastFinalized

GasNext ==
    \/ \E t \in GasTransactions :
           \/ \E limit \in GasLimits : startTransaction(t, limit)
           \/ \E n \in GasAmounts : trackGasUsage(t, n) \/ addGasRefund(t, n)
           \/ finalizeTransaction(t)
    \/ resetForNewBlock

GasSpec == GasInit /\ [][GasNext]_gasVars

-----------------------------------------------------------------------------

\* What a transaction has used, if that is within its limit.
WithinLimit(r) == IF r # NoRecord /\ r.gasUsed <= r.gasLimit THEN r.gasUsed ELSE 0

\* The block accounts for all the gas of the transactions that run within
\* their limits, through restarts, failures past a limit and new blocks, and
\* no refund gives back more than half of what was used (trackGasUsage,
\* finalizeTransaction, resetForNewBlock).
GasAccounted ==
    /\ SumFunction([t \in GasTransactions |-> WithinLimit(transactionGasRecords[t])])
         <= currentBlockGasUsed
    /\ 2 * lastFinalized.effectiveGasUsed >= lastFinalized.gasUsed
=============================================================================
