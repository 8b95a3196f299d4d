----------------------------- MODULE Execution ------------------------------
(***************************************************************************)
(* core/execution_pipeline.js (ExecutionPipeline): blocks processed, two   *)
(* at a time perhaps, with the receipts of core/receipt.js and the         *)
(* validation of core/transaction.js.                                      *)
(*                                                                         *)
(*   idle -> preProcessBlock -> next -> postProcessBlock -> done           *)
(*              next -> preProcess -> transition -> postProcess -> next    *)
(*                                                                         *)
(* A hook calls the plugins one after the other and awaits each; a plugin  *)
(* here has every hook, and one that fails is passed over like one that    *)
(* returns.  The list of plugins changes meanwhile.  Left out: logs,       *)
(* prices, contract addresses, and what plugins do to the receipt.         *)
(***************************************************************************)
EXTENDS Integers, FiniteSetsExt, SequencesExt

CONSTANTS
    ExecutionJobs,         \* calls of processBlock
    BlocksOfTxs,           \* the transactions of a block, in sequences
    PipelinePlugins,
    DefaultGas, DefaultFee,
    MaxPluginChanges       \* bound on the changes of the plugins

ASSUME ExecutionAssumption ==
    /\ DefaultGas \in Nat \ {0} /\ DefaultFee \in Nat \ {0} /\ MaxPluginChanges \in Nat
    /\ IsFiniteSet(PipelinePlugins)
    /\ BlocksOfTxs \subseteq Seq([amount : Int, fee : Int, gasLimit : Int])

VARIABLES
    pluginLists,      \* the arrays of plugins so far, the last one is current
    pluginChanges,
    jobs

executionVars == <<pluginLists, pluginChanges, jobs>>

\* What options say; 0 is what is not given, or is falsy.
Transaction(amount, fee, gasLimit) ==
    [amount |-> amount, fee |-> IF fee = 0 THEN DefaultFee ELSE fee, gasLimit |-> gasLimit]

\* Sender, receiver and time are taken to be there.
validate(tx) == tx.amount > 0 /\ tx.fee >= 0

GasLimit(tx) == IF tx.gasLimit = 0 THEN DefaultGas ELSE tx.gasLimit

\* Anything but a number below zero; what is no number is taken for one below.
setGasUsed(n) == n >= 0

TransactionReceipt(status, gasUsed, fee) ==
    [status |-> status, gasUsed |-> gasUsed, fee |-> fee, cumulativeGasUsed |-> 0]

Successful(tx) == TransactionReceipt("successful", GasLimit(tx), tx.fee * GasLimit(tx))
FailedReceipt == TransactionReceipt("failed", 0, 0)

TotalGas(receipts) == FoldLeft(LAMBDA sum, r : sum + r.gasUsed, 0, receipts)

\* `stays`, `skips` and `called` are those of the present hook, for the property:
\* the plugins that were in its list and stay there, whether the list moved up under
\* the walk, and who was called.  `applied` are the transitions that came about.
NoJob == [at |-> "idle", txs |-> <<>>, receipts |-> <<>>, applied |-> {},
          list |-> 1, index |-> 0, stays |-> {}, skips |-> FALSE, called |-> <<>>]

ExecutionInit ==
    /\ pluginLists = <<SetToSeq(PipelinePlugins)>>
    /\ pluginChanges = 0
    /\ jobs = [j \in ExecutionJobs |-> NoJob]

Plugins == Last(pluginLists)
Hooks == {"preProcessBlock", "preProcess", "postProcess", "postProcessBlock"}

\* Mutant: the last one is not called.
CallAt_ButLast(job, list, i) ==
    IF i >= Len(list) THEN [job EXCEPT !.index = 0]
    ELSE [job EXCEPT !.index = i, !.called = Append(@, list[i])]

\* The walk over a list is over when its index is 0.
CallAt(job, list, i) ==
    IF i > Len(list) THEN [job EXCEPT !.index = 0]
    ELSE [job EXCEPT !.index = i, !.called = Append(@, list[i])]

\* The array is the one of this moment, and is walked as it changes.
executePlugins(job, hook) ==
    CallAt([job EXCEPT !.at = hook, !.list = Len(pluginLists), !.stays = ToSet(Plugins),
                       !.skips = FALSE, !.called = <<>>], Plugins, 1)

Step(j, at, job) ==
    /\ jobs[j].at = at /\ jobs' = [jobs EXCEPT ![j] = job]
    /\ UNCHANGED <<pluginLists, pluginChanges>>

HookOver(j) == jobs[j].index = 0

processBlock(j, txs) ==
    Step(j, "idle", executePlugins([jobs[j] EXCEPT !.txs = txs], "preProcessBlock"))

\* A plugin returns or fails.
PluginReturns(j) ==
    /\ jobs[j].at \in Hooks /\ ~HookOver(j)
    /\ Step(j, jobs[j].at, CallAt(jobs[j], pluginLists[jobs[j].list], jobs[j].index + 1))

\* On to processTransactions.
BlockPrepared(j) == HookOver(j) /\ Step(j, "preProcessBlock", [jobs[j] EXCEPT !.at = "next"])

CurrentTx(job) == job.txs[Len(job.receipts) + 1]

\* Mutant: the gas of a receipt counts from the next one on.
WithReceipt_Before(job, receipt) ==
    [job EXCEPT !.at = "next",
                !.receipts = Append(@, [receipt EXCEPT !.cumulativeGasUsed = TotalGas(job.receipts)])]

WithReceipt(job, receipt) ==
    [job EXCEPT !.at = "next",
                !.receipts = Append(@, [receipt EXCEPT !.cumulativeGasUsed =
                                            TotalGas(job.receipts) + receipt.gasUsed])]

\* The transactions one by one, then the hook after the block.
processTransactions(j) ==
    LET job == jobs[j] IN
    Step(j, "next",
         IF Len(job.receipts) = Len(job.txs) THEN executePlugins(job, "postProcessBlock")
         ELSE IF validate(CurrentTx(job)) THEN executePlugins(job, "preProcess")
         ELSE WithReceipt(job, FailedReceipt))

executeTransaction(j) ==
    HookOver(j) /\ Step(j, "preProcess", [jobs[j] EXCEPT !.at = "transition"])

\* The state machine may fail.  A limit the receipt does not take is found out only
\* when the transition is done.
Transitioned(j, ok) ==
    LET job == jobs[j]
        done == [job EXCEPT !.applied = @ \cup {Len(job.receipts) + 1}]
    IN  Step(j, "transition",
             IF ~ok THEN WithReceipt(job, FailedReceipt)
             ELSE IF setGasUsed(GasLimit(CurrentTx(job))) THEN executePlugins(done, "postProcess")
             ELSE WithReceipt(done, FailedReceipt))

TransactionDone(j) ==
    HookOver(j) /\ Step(j, "postProcess", WithReceipt(jobs[j], Successful(CurrentTx(jobs[j]))))

BlockDone(j) == HookOver(j) /\ Step(j, "postProcessBlock", [jobs[j] EXCEPT !.at = "done"])

ChangesPlugins == pluginChanges < MaxPluginChanges /\ pluginChanges' = pluginChanges + 1

\* (A plugin is in the list once.)
addPlugin(p) ==
    /\ ChangesPlugins /\ ~Contains(Plugins, p)
    /\ pluginLists' = [pluginLists EXCEPT ![Len(pluginLists)] = Append(@, p)]
    /\ UNCHANGED jobs

\* What comes behind moves up, under the walks as well.
removePlugin(p) ==
    LET place == SelectInSeq(Plugins, LAMBDA q : q = p) IN
    /\ ChangesPlugins /\ place # 0
    /\ pluginLists' = [pluginLists EXCEPT ![Len(pluginLists)] = RemoveAt(@, place)]
    /\ jobs' = [j \in ExecutionJobs |->
           IF jobs[j].list # Len(pluginLists) THEN jobs[j]
           ELSE [jobs[j] EXCEPT !.stays = @ \ {p}, !.skips = @ \/ place <= jobs[j].index]]

\* Another array; walks go on over the old one.
clearPlugins ==
    /\ ChangesPlugins /\ Plugins # <<>>
    /\ pluginLists' = Append(pluginLists, <<>>) /\ UNCHANGED jobs

ExecutionNext ==
    \/ \E j \in ExecutionJobs :
          \/ \E txs \in BlocksOfTxs : processBlock(j, txs)
          \/ PluginReturns(j) \/ BlockPrepared(j) \/ processTransactions(j)
          \/ executeTransaction(j) \/ TransactionDone(j) \/ BlockDone(j)
          \/ \E ok \in BOOLEAN : Transitioned(j, ok)
    \/ \E p \in PipelinePlugins : addPlugin(p) \/ removePlugin(p)
    \/ clearPlugins

ExecutionSpec == ExecutionInit /\ [][ExecutionNext]_executionVars

-----------------------------------------------------------------------------
(* Properties *)

\* A block that is done has a receipt for each transaction, in their order; the gas
\* up to a receipt is the sum of those before, only what was applied is successful,
\* what failed used no gas and paid nothing, and was applied only for a limit no
\* receipt takes (processTransactions, processTransaction).
ReceiptsAddUp ==
    \A j \in ExecutionJobs :
        LET job == jobs[j] IN
        /\ job.at = "done" => Len(job.receipts) = Len(job.txs)
        /\ \A i \in DOMAIN job.receipts :
              LET r == job.receipts[i] IN
              /\ r.cumulativeGasUsed = TotalGas(SubSeq(job.receipts, 1, i))
              /\ r.status = "successful" => i \in job.applied /\ validate(job.txs[i])
              /\ r.status = "failed" =>
                     r.gasUsed = 0 /\ r.fee = 0 /\ (i \in job.applied => job.txs[i].gasLimit < 0)

\* A hook calls a plugin that stays in the list once at most, and exactly once unless
\* one at or before its place in the list is removed meanwhile, although plugins come
\* and go between the calls (executePlugins, addPlugin, removePlugin, clearPlugins).
HooksReachPlugins ==
    \A j \in ExecutionJobs : \A p \in jobs[j].stays :
        LET job == jobs[j]
            calls == Cardinality({i \in DOMAIN job.called : job.called[i] = p})
        IN  calls <= 1 /\ (job.at \in Hooks /\ job.index = 0 /\ ~job.skips => calls = 1)
=============================================================================
