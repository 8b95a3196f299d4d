-------------------------- MODULE BlockProduction ---------------------------
(***************************************************************************)
(* core/block_producer.js on top of Ledger, with the block execution of    *)
(* core/execution_pipeline.js: one BlockProducer works on the Blockchain   *)
(* of the node Home.  produceBlock is asynchronous and setInterval starts  *)
(* it anew whether or not the last run is over; blocks from elsewhere      *)
(* reach Home between any two of its steps.                                *)
(*                                                                         *)
(*   idle -> selected -> created -> validated -> added -> done             *)
(*                              \-> failed                                 *)
(*                                                                         *)
(* The producer's mempool is the one of the Blockchain.                    *)
(***************************************************************************)
EXTENDS Ledger, FiniteSets

CONSTANTS
    Home,                     \* the node whose producer this is
    Builders,                 \* the nodes where blocks are built by others
    Runs,                     \* the runs of produceBlock
    MaxOverlap,               \* runs in flight; 1: each is awaited
    MaxStarts,                \* bound on the calls of start()
    MaxTransactionsPerBlock   \* options.maxTransactionsPerBlock

ASSUME ProductionAssumption == Home \in Nodes /\ Builders \subseteq Nodes

VARIABLES
    run,        \* how far each run is, its selection and its block
    executed,   \* hashes of the blocks processBlock executed, in order
    intervals,  \* timers that setInterval left running
    running,    \* this.productionInterval is set
    starts      \* calls of start() so far

ledger == <<chain, mempool, difficulty, sealed, sent, clock, altered, replaced>>
timers == <<intervals, running, starts>>
allVars == <<ledger, run, executed, timers>>

NoBlock == Block(0, 0, {}, 0, 0)
Fresh == [phase |-> "idle", selection |-> {}, block |-> NoBlock]

Idle == {r \in Runs : run[r].phase = "idle"}
InFlight == {r \in Runs : run[r].phase \notin {"idle", "done", "failed"}}

ProductionInit ==
    /\ Init
    /\ run = [r \in Runs |-> Fresh]
    /\ executed = <<>>
    /\ intervals = 0 /\ running = FALSE /\ starts = 0

\* The runs are interchangeable: the next one to begin is any that is idle.
Begins(r) == Idle # {} /\ r = CHOOSE q \in Idle : TRUE

-----------------------------------------------------------------------------
(* produceBlock, one action for what it does between two awaits *)

\* Called by a timer; the best-paying transactions are taken, up to the limit.
selectTransactions(r) ==
    /\ intervals > 0
    /\ Begins(r) /\ Cardinality(InFlight) < MaxOverlap
    /\ \E s \in SUBSET mempool[Home] :
          /\ Cardinality(s) <= MaxTransactionsPerBlock
          /\ s # mempool[Home] => Cardinality(s) = MaxTransactionsPerBlock
          /\ run' = [run EXCEPT ![r].phase = "selected", ![r].selection = s]
    /\ UNCHANGED <<ledger, executed, timers>>

createNewBlock(r) ==
    /\ run[r].phase = "selected" /\ sealed < MaxBlocks
    /\ LET previous == getLatestBlock(Home)
       IN  run' = [run EXCEPT
                ![r].phase = "created",
                ![r].block = Block(previous.index + 1, clock, run[r].selection,
                                   previous.hash, sealed + 1)]
    /\ sealed' = sealed + 1
    /\ UNCHANGED <<chain, mempool, difficulty, sent, clock, altered, replaced,
                   executed, timers>>

\* Against the block that is now at the position before it.
validateBlock(r) ==
    /\ run[r].phase = "created"
    /\ LET b == run[r].block
       IN  run' = [run EXCEPT ![r].phase =
                      IF isValid(b, chain[Home][b.index]) THEN "validated" ELSE "failed"]
    /\ UNCHANGED <<ledger, executed, timers>>

\* The answer of addBlock is not looked at.
AddProduced(r) ==
    /\ run[r].phase = "validated"
    /\ run' = [run EXCEPT ![r].phase = "added"]
    /\ IF isValid(run[r].block, getLatestBlock(Home))
          THEN addBlock(Home, run[r].block)
          ELSE UNCHANGED ledger
    /\ UNCHANGED <<executed, timers>>

\* Mutant: only the latest block is executed.
processBlock_LatestOnly(r) ==
    /\ run[r].phase = "added"
    /\ run[r].block = getLatestBlock(Home)
    /\ run' = [run EXCEPT ![r].phase = "done"]
    /\ executed' = Append(executed, run[r].block.hash)
    /\ UNCHANGED <<ledger, timers>>

\* Failing transactions get a failed receipt and failing plugins are ignored:
\* processBlock returns receipts, and produceBlock reports success.
processBlock(r) ==
    /\ run[r].phase = "added"
    /\ run' = [run EXCEPT ![r].phase = "done"]
    /\ executed' = Append(executed, run[r].block.hash)
    /\ UNCHANGED <<ledger, timers>>

-----------------------------------------------------------------------------

\* A second start() forgets the first timer, which nothing clears any more.
start ==
    /\ starts < MaxStarts
    /\ starts' = starts + 1 /\ intervals' = intervals + 1 /\ running' = TRUE
    /\ UNCHANGED <<ledger, run, executed>>

stop ==
    /\ running
    /\ intervals' = intervals - 1 /\ running' = FALSE
    /\ UNCHANGED <<ledger, run, executed, starts>>

\* What reaches the nodes without this producer.
Elsewhere ==
    /\ \/ \E n \in Nodes, t \in Txs : addTransaction(n, t)
       \/ \E n \in Builders : \E s \in SUBSET mempool[n] : SealBlock(n, s)
       \/ \E n \in Nodes : \E b \in sent : addBlock(n, b)
       \/ \E m \in Nodes : replaceChain(Home, chain[m])
       \/ Tick
    /\ UNCHANGED <<run, executed, timers>>

Produce(r) == createNewBlock(r) \/ validateBlock(r) \/ AddProduced(r) \/ processBlock(r)

ProductionNext ==
    \/ \E r \in Runs : selectTransactions(r) \/ Produce(r)
    \/ start \/ stop
    \/ Elsewhere

ProductionSpec == ProductionInit /\ [][ProductionNext]_allVars

\* An awaited step of a run is resumed by the event loop.
FairProductionSpec == ProductionSpec /\ \A r \in Runs : WF_allVars(Produce(r))

-----------------------------------------------------------------------------
(* Properties *)

OfChain(n) == {chain[n][i].hash : i \in 1 .. Len(chain[n])}

\* A block the producer got into the chain is executed in the end, whatever
\* other runs and other nodes do in the meantime (produceBlock, processBlock).
ChainedIsExecuted ==
    \A r \in Runs :
        run[r].phase = "added" /\ run[r].block.hash \in OfChain(Home)
            ~> run[r].block.hash \in {executed[i] : i \in 1 .. Len(executed)}

\* Until a chain is taken over, what a run selected is never lost: a block
\* that came too late leaves its transactions pending, unless another block
\* confirmed them (addBlock filters the mempool only after it took the block).
SelectedNotLost ==
    replaced = 0 =>
        \A r \in Runs : run[r].selection \subseteq mempool[Home] \cup Confirmed(Home)

\* "Block N produced successfully" means that the chain was extended with it
\* (the message and the success flag produceBlock returns).
SuccessMeansChained ==
    \A r \in Runs : run[r].phase = "done" => run[r].block.hash \in OfChain(Home)
=============================================================================
