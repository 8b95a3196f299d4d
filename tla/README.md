# ChainForgeLedger in TLA+

A verification development for ChainForgeLedger, a JavaScript library (ES
modules under `src/src`, version of this commit) that offers the parts of a
blockchain framework: blocks and chains, a block producer, consensus, a
transactional state store, finality, plugins, networking, governance, tokens
and lending.  It contains TLA+ modules for the parts that keep state and change
it over several steps, TLC configurations that check them on small instances,
and TLAPS proofs of the main results for every instance.

`PROJECT.json` lists the components, the runs, the source lines each definition
translates (`map`), the hazards of the code, the mutants that show that each
property can fail, the findings and the theorems.

How to run, in this directory:

    tlc -config ledger.cfg Ledger          # any run: its cfg and its module
    tlapm LedgerProofs.tla                 # any module of proofs; the largest takes a quarter of an hour

## 1. Inventory

JavaScript runs one callback at a time: code without `await` is atomic, and
every `await` is a point where other calls, timers and messages run.  Most
classes of the library are synchronous, so what is hard about them is the order
of calls; the asynchronous ones (state machine, block producer, plugins, peers,
protocol, database, finality) can also be entered again while a call waits.
Apart from the state machine's backends nothing survives a restart.

| Component (src/src) | State it keeps | Operations that change it | What is hard | What makes it correct |
|---|---|---|---|---|
| `runtime/state_machine.js` | state, version, history, snapshots, transaction stack, backend | applyTransition, createSnapshot, restoreSnapshot, gc/deleteSnapshot, pruneHistory, clear, initialize | overlapping calls at every await, failures after half a commit, shallow copies, restart | a failed call leaves no trace; history, memory and backend agree; every call settles |
| `core/blockchain.js`, `core/block.js` | chain, mempool, difficulty | addTransaction, addBlock, replaceChain; Block.add/removeTransaction | blocks late, twice, altered, out of order; takeover of a chain | linked chains, forks only forward, no accepted transaction lost, difficulty a function of the chain |
| `core/block_producer.js` | timer, running flag, blocks in production | start, stop, produceBlock | setInterval does not wait; the chain moves between creation and addBlock | what is chained is executed, what was selected is not lost |
| `consensus/finality.js` | validators, checkpoints, votes, justified and finalized checkpoint | createCheckpoint, recordVote, add/removeValidator, handleFork | votes in any order, an await between justification and finalization, validators that come and go | the finalized height never drops, one block per final height |
| `consensus/validator.js`, `consensus/slashing.js` | validators, four status sets, penalties, slash events | register, promote, demote, jail, slash, unregister | sets beside a status field, jail times, objects that outlive their registration, unregistration by slashing | one set per validator; whoever stays active has the stake |
| `consensus/pos.js`, `pow.js`, `interface.js` | validator list, blocks forged and mined, difficulty | add/removeValidator, select, forge, mine, set and calculate difficulty | validators that leave or change after they forged; boundaries between stakes | chosen in proportion to stake; blocks by those chosen |
| `core/fork.js`, `core/light_client.js`, `core/merkle.js` | local chain; headers by height; trees | resolve_fork; processBlockHeader; getProof, verify | chains and headers in any order, strategies that change; odd levels of a tree | the local chain is whole; headers linked; proofs show their datum only |
| `core/bridge.js` | relayers, pending, completed and failed transfers | initiate, confirm, fail, timeout, relayers, threshold | confirmation against timeout, relayers that leave, ids used twice | a transfer completes once, by enough relayers, and never after it failed |
| `core/state.js`, `core/caching.js` | balances, snapshots; entries in order of use | applyBlock, revert; get, set, purge, configure | a revert makes the snapshot the live object; expiry and limits that change | balances follow the transactions; answers are fresh |
| `core/execution_pipeline.js`, `receipt.js`, `transaction.js` | plugins, receipts of the block in hand | processBlock, processTransaction, add/remove/clearPlugins | hooks await plugins one by one, the list changes meanwhile, blocks overlap | receipts add up; a hook reaches each plugin once |
| `networking/peer.js`, `node.js`, `protocol.js` | peers, connections, counters, open requests | connect, disconnect, ping, request, answer, timeout | awaits in connect and ping, answers that race timeouts | counters equal the sets; calls come back |
| `networking/rate_limiter.js`, `mempool.js` | buckets, blocked users; two maps and a count | consume, refill, block; add, expire, remove | refill and blocks over time; transactions without an id | never more than the capacity; the maps agree |
| `governance/*` | members, power, proposals, votes, cached results | delegate, vote, mint, burn, transfer, results | power that moves during a vote, results cached early, votes cast again | power adds up; the votes that stand are counted |
| `runtime/plugins.js` | registry, loaded and active plugins | register, load, start, stop, unload | every operation awaits the plugin | dependencies first; what is active was started |
| `runtime/events.js` | subscribers, queue, schemas, history | publish, subscribe, unsubscribe, register, clear | handlers that publish and (un)subscribe while maps are walked | delivered in order to whoever stays |
| `runtime/gas.js`, `fee_distribution.js` | gas per transaction and block, fee pools | start, track, refund, finalize; collect, distribute | limits checked after the addition, percentages that change | the block accounts for its gas; no fee is made |
| `runtime/lending.js`, `liquidity.js`, `staking.js` | positions, market totals, pools, stakes, delegations | deposit, borrow, repay, withdraw, liquidate; add, remove, swap; stake, unstake, delegate | checks after changes, totals beside positions, the order of two tokens | totals equal sums; debts covered when made; shares keep their worth |
| `runtime/sharding.js`, `state_pruning.js` | shards, cross-shard transactions; block states | route, process, shuffle; record, prune | delivery conditions, remainders, limits that change | nothing delivered twice or lost; no gap |
| `runtime/vm_context.js`, `smartcontracts/*` | a pseudo-random sequence; deployments, logs; registers | deploy, act, execute, reset | timers over what all share | names differ; an execution pays for itself |
| `crypto/multisig.js` | keys, threshold, transactions, signatures | keys, sign, execute | keys and threshold change while signatures are collected | executed with enough signers |
| `tokenomics/standards.js`, `tokenomics.js`, `supply.js` | balances, allowances, owners; supply and pools; lockups | transfer, approve, batches; mint, burn, reward | batches that stop half way, transfers to oneself | tokens conserved; the supply covers the pools |
| `storage/models.js`, `database.js` | records by kind; connection flag | convert, validate, find; connect, disconnect | values that are falsy; timers that overlap | what is recorded is found; who connects last is connected |
| `api/server.js` | server, routes, requests in hand | start, stop, handle | handlers that await, patterns of routes | what is answered was done |
| `core/difficulty.js`, `serialization.js`, `tokenomics/native.js`, `stablecoin.js`, `treasury.js`, `storage/leveldb.js`, `utils/*`, other `crypto/*`, `__main__.js` | figures, or none | setters, conversions, input and output | | see section 5 |

How they interact: a BlockProducer is constructed with a Blockchain, an
execution pipeline and any object with `getTransactions()` as its mempool (the
models give it a view of the Blockchain's); it reads the latest block and calls
`addBlock`.  The pipeline executes
a block against the state and the gas engine and calls plugins.  SlashingManager
calls into ValidatorManager (unregistration).  The API server and the command
line call Blockchain, ProofOfWork and ProofOfStake.  All other classes are used
on their own; the library's user wires them together.

## 2. The modules

### StateMachine (runtime/state_machine.js)

`applyTransition` is cut at its awaits into one action each: `beginTransaction`
pushes the entry for rollback, `Write` and `Throw` are the caller's transition,
`commitTransaction` pops an entry, raises the version, extends the history and
calls `setState`, `CommitRefused` is a commit that finds the stack empty,
`Settle` is everything after `setState`, `rollbackTransaction` the catch block.
`createSnapshot`, `deleteSnapshots`, `pruneHistory`, `clear`, the three steps of
`restoreSnapshot` and a restart (`initialize`) interleave with them.

A state is the set of the calls whose effect it shows.  JavaScript's
`{ ...state }` copies one level: what a transition writes inside a nested object
is kept in `shared`, which all copies see.  A transition that was handed
`this.state` before a restore or a rollback replaced that object writes into an
object nobody reads any more ("detached").

`AtomicStore` is what the store promises: a state and a version that change at
once, by one call, a restore, a clear or a restart.  `ActsAtomically` says that
StateMachine implements it under the mapping in its last section.

### Ledger (core/blockchain.js, core/block.js)

`chain`, `mempool` and `difficulty` of every node; `sent` holds the blocks in
circulation, which stay deliverable for ever, so that they can be late,
repeated, reordered or never arrive.  `SealBlock` builds a block on some node's
latest one, `AlterBlock` is `Block.addTransaction` and `removeTransaction` on a
sealed block, `addBlock` and `replaceChain` are the handlers with their guards.
Hashes are numbers given out once: a block's hash stands for the content it was
taken from, which the block remembers in `hashed`; a block is self-valid when
`hashed`, `txRoot` and `transactions` agree.  That hashes do not collide is the
only assumption about SHA-256.

`isChainValid` is checked on every chain handed to `replaceChain`: another node's
chain or its beginning, also with any block in circulation put on top of it, altered
ones and ones that do not fit included.  A chain taken over is a copy; the code
keeps the caller's array itself (blockchain.js:246).

### BlockProduction (core/block_producer.js, core/execution_pipeline.js)

Extends Ledger.  A run of `produceBlock` is `selectTransactions`,
`createNewBlock`, `validateBlock`, `AddProduced`, `processBlock`, one action
between two awaits; `start` and `stop` keep the timers, of which `start` twice
leaks one; `Elsewhere` is all that other nodes do.  `AddProduced` ignores the
answer of `addBlock`, as the code does.  Execution is abstracted to the fact
that the block is executed: failing transactions become receipts and failing
plugins are caught, so that `processBlock` does not fail as a whole.

### Finality (consensus/finality.js, FinalityManager)

The state after `initialize`: validators, the map of checkpoints, the votes for
each block number, the justified and the finalized checkpoint.  A checkpoint is an
object: `createCheckpoint` for a block number that has one puts another object
into the map and clears the votes, while the justified and the finalized
checkpoint may still be the old one, so checkpoints are numbered in `objects` and
referred to.  A block number is told by its epoch.  `recordVote` is the call up to
its only await, justification included; `Resume` is what follows, the attempt at
finality; `recordOtherVote` is a vote for a block that is no checkpoint, which
reaches the attempt without waiting.  Votes are counted whoever casts them, as the
code does, and remember in `on` the checkpoint they found: the code keeps no such
thing, the property is about it.  Calls before `initialize` (they fail), a second
`initialize` (it resets both checkpoints), timestamps and stakes (`slashValidator`
halves one, nothing here reads it) are left out; `handleFork` is there with what
it changes, for any latest block the fork choice may give it.

### The consensus group (MCConsensus)

Parts of `src/consensus` that do not call each other, checked side by side: a
behaviour of the run is one of `part`, the other variables staying as they start.

* `ValidatorSet` (validator.js, slashing.js): the registry, the four status sets
  beside the status field of each Validator object, jail times over a clock,
  penalties, changes of stake, and slashing with the unregistration it causes.  A
  Validator object belongs to its caller and may be registered again.
* `StakeSelection` (pos.js, pow.js, interface.js): the list of validators, the two
  ways of choosing by a random value, `select_validators`, blocks forged and
  validated, blocks mined and the two difficulties.
* `ForkChoice` (finality.js): the three rules as folds over the chains in the
  order given, against a definition that quantifies over all of them.
* `FinalitySystems` (finality.js): `PBFTFinalitySystem.processCommit`, one action
  per answer awaited, overlapping calls sharing what is committed and executed; and
  the epochs of `CasperFFG`.
* `ForkResolution` (fork.js): chains of peers compared with the local one and taken
  over by a strategy that changes.  Blocks carry the fields the handler reads;
  core/block.js spells them otherwise.

### The network group (MCNetwork)

* `Bridge` (bridge.js): transfers are objects, ids lead to them through three maps,
  and two transfers of one millisecond may share an id.
* `LightClient` (light_client.js, merkle.js): headers by height in any order; every
  Merkle tree up to a number of leaves, a hash being the value it was taken of.
* `Peers`, `Nodes` (peer.js, node.js): objects that are acted upon after an await in
  which they were removed, connected twice or added again; counters beside the sets.
* `Requests` (protocol.js): a request is registered, the transport is asked, and an
    answer, a timer and `initialize` compete for it.  A timer that rejects while nobody
  waits yet, or after the send failed, is a rejection without a handler, which ends the
  process (`ended`; Node 18 and later, which package.json asks for).
* `TransactionPool` (mempool.js): two maps and a count; a transaction without an id
  has a key of its own in one map and the key `undefined` in the other.

### The services group (MCServices)

* `AccountState`, `BlockCache` (state.js, caching.js): snapshots that a revert makes
  live objects (`alias`); a Map in the order of use.
* `Execution` (execution_pipeline.js, receipt.js, transaction.js): a walk over an
  array of plugins that changes under it, once per hook, blocks overlapping.
* `Plugins`, `Events` (plugins.js, events.js): callers inside an operation, a load as
  a stack of frames; the queue and the walk over a map of subscribers, which follows
  the changes of the map as the iteration of a JavaScript Map does.
* `Contracts` (vm_context.js, compiler.js, executor.js, vm.js): positions in the one
  pseudo-random sequence stand for the names drawn from it, by deployments, actions
  and the contracts the machine creates.
* `RateLimiter`, `Gas`, `FeeDistribution`, `Lending`, `Liquidity`, `Staking`,
  `Tokenomics`, `Governance`, `Multisig`, `Sharding`, `StatePruning`: synchronous
  classes, one action per method, in any order.  `Liquidity` counts in exact
  fractions.
* `Storage` (models.js, database.js): a field's value is NULL, falsy or another; the
  connection waits for timers, counted in tenths of a second.
* `Api` (server.js): requests in stages, routed by the patterns the code builds,
  several at a time wherever a handler awaits.

Several modules keep a variable for the property alone (what was paid in, who was
asked, which heights were replaced); each header names them.

## 3. What the runs check

| Run | Question | Bounds |
|---|---|---|
| `sm_awaited` | Do failed calls leave no trace, and do history, memory and database agree, when each call is awaited? Does the machine implement AtomicStore? | 3 calls one at a time, 2 snapshot names, history of 3, database backend with restarts |
| `sm_concurrent` | Do overlapping calls, failures of backend and hash, restores, clear and restarts leave the stack, the history and the calls in order? | 2 calls, up to 3 operations in flight, history of 2, no nested writes (those are `sm_nested`), so that `clear` interleaves |
| `sm_overlap`, `sm_nested` | The two ways in which a failed call leaves a trace (findings) | 2 calls |
| `ledger` | Do chains stay linked and fork forward only, does difficulty depend on the chain alone, is anything lost? | 2 nodes with one genesis, 3 blocks, 1 alteration, 2 takeovers, moments 1, 2 and 15 |
| `producer` | With two overlapping runs, another builder and a takeover: is no selection lost, is every chained block executed? | 2 nodes, 2 runs, 3 blocks, 1 takeover |
| `finality` | Does the finalized block number never drop, is each checkpoint final by votes cast for it, is no quorum overlooked? | 3 voters, 3 checkpoint blocks, 3 checkpoints made after genesis, 1 change of the validators, 2 votes in flight, default thresholds, each gadget |
| `producer_stale` | A run reports success for a block that is in no chain (finding) | 1 node, 2 runs |
| `consensus` | Is every validator in one set, does an active one have the stake after a slashing, is the heaviest chain chosen, has what PBFT answers a quorum, are blocks by those chosen, is the local chain whole? | 2 validators with 2 stakes around the minimum; 3 competing chains; 3 PBFT validators, 2 commits; 3 stakers with stakes up to 3; chains of 4 mined blocks; 5 blocks on 2 branches |
| `network` | Do transfers end once and by enough relayers, is the light client in sync but where a header was replaced, do proofs show their datum only, do counters agree with sets, does every call come back? | 2 relayers, 2 transfers, 2 ids; 4 headers up to height 2; trees of up to 5 leaves; 2 peers, nodes, requests; 4 pool transactions, 2 of them nameless |
| `requests_answer` | A request that was answered is rejected (finding) | 2 requests |
| `services` | Are limits kept, do books balance, are debts covered, do power and votes add up, is what was recorded found, do plugins load after what they need, do overlapping calls keep order, does a pool keep its worth, do wallets execute what enough keys signed? | two of nearly everything that acts, bounds on calls and amounts in `services.cfg` |

Why the bounds suffice: the retarget interval is 2 instead of 10, so that three
blocks cross it, and the moments 1, 2 and 15 give elapsed times below half,
around and above twice the expected time.  Two nodes and three blocks allow a
fork, the loser's later block and a takeover in either direction; one alteration
changes a block before or after either node took it.  Two overlapping calls of
the state machine already pop each other's entries; the third one in `sm_awaited`
makes the history of 3 shift.  Three checkpoint blocks let a justified checkpoint
fall behind a finalized one (block 2 final, block 1 justified late), and the third
checkpoint made may as well replace one of the other two.  With three validators
the default thresholds ask for two votes to justify and three to finalize.  The
voters are interchangeable, which the symmetry in the run uses.  What more nodes, blocks and calls could add is
covered by the proofs below, which do not depend on the bounds.

In `consensus` one stake is below the minimum of 350; of the other, 380, a penalty of
5 % leaves 361 and one of 10 % takes it to 342, so that a slashing leaves active,
unregisters who falls below, and unregisters who was below before; three stakes of 0 to 3
put every random value at every boundary between validators; two overlapping PBFT
commits of three validators can each fail or reach the quorum after the other.  In
`network` five leaves give odd levels at two heights of a tree, and heights up to 2
let a replaced header lie below a kept one.  In `services` two actors overlap in
every asynchronous part; two users, stakers or borrowers tell a sum from a part of
it; three keys with two at the start allow a removal, an addition and a signature
by a former key; three cached keys exceed a size of two; three events let two wait
while one is delivered; percentages of fees are hundredths, with settings that sum up to
99, to the whole and to 101; the fee and the tolerance of the pool are one half instead
of 0.003 and 0.005, which makes them matter for small whole amounts and keeps the
exact fractions within TLC's integers.  The
largest, `services`, has about 460,000 distinct states and takes three minutes with
two workers, `consensus` 650,000 and half of that.

Where parts do not interact, a property of a run is the conjunction of one property
per part (`WithinLimits`, `BooksBalance`, `PowerAndVotes`, `KeptAsRecorded`,
`OverlapsKeepOrder` in `MCServices`, `CountsAgree` in `MCNetwork`, `BlocksAsChosen`
in `MCConsensus`); each conjunct is stated in its own module.

Every property has a mutant in `PROJECT.json`: a change to one definition, such as
a dropped guard, under which TLC finds the property violated in the same run.  For
a conjunction that mutant is in one of the parts; the modules of the other parts have
one of their own beside the definition it changes, and the run finds those too.

Fairness: `CallsSettle` assumes weak fairness of the continuation of each call
(the event loop resumes an awaiting function once the awaited promise settles;
transitions and backends settle by assumption).  `ChainedIsExecuted` assumes the
same of each run of `produceBlock`.  `CallsComeBack` assumes that timers fire and
that sending comes back, answered or failed (`RequestsFairness`): Node.js runs its
timers as long as the process lives, and `setTimeout` is what register_request uses;
when a rejection that nobody handles ends the process, nothing comes back any more, and
the property says so.
Nothing is assumed of callers, of answers, of other nodes or of the clock.

Deadlock checking is off where the bounds let the system stop: all calls made,
all blocks sealed, and in `requests_answer` where the process has ended.

### Findings

* `sm_overlap`: `commitTransaction` and `rollbackTransaction` pop the newest
  entry of the stack, whichever call pushed it.
* `sm_nested`: rollback restores a copy one level deep; writes inside nested
  objects survive it.
* `producer_stale`: `produceBlock` ignores that `addBlock` refused the block,
  executes it and reports success.
* `requests_answer`: `handle_generic_response` throws where it clears the timer of
  the request, which is then rejected although it was answered.

Disagreements found on the way and kept in the models without a run of their own:

* When `setState` or the hash fails, the catch block pops another call's entry or
  none; the new version and the history entry stay.
* After `restoreSnapshot` the version is rewound and later commits reuse numbers
  the history still holds, so `getStateByVersion` answers with the older entry.
* `addTransaction` (blockchain.js:87) looks in the mempool only: a confirmed
  transaction is accepted and confirmed again.
* `replaceChain` (blockchain.js:246) leaves mempool and difficulty as they were:
  transactions of the dropped branch are gone, those of the new one still
  pending, and the difficulty is that of the old chain.  `SameChainSameDifficulty`
  and `SelectedNotLost` are therefore stated for nodes that took over no chain.
* A late vote justifies an old checkpoint again (finality.js:192): the justified
  block number may drop below the finalized one, after which nothing becomes final
  until a later checkpoint is justified once more.
* A finalized checkpoint can be replaced by `createCheckpoint` (finality.js:114) and
  another one become final for the same block number.  `FinalizedNeverDrops` is
  therefore about the number, not the block.
* The quorum is taken of the validators there are at the moment: under PBFT, after a
  removal, the justified checkpoint may become final although it was replaced,
  by votes for its replacement.  `FinalizedByItsVotes` and `NothingLeftToFinalize`
  state when the validators have to stay the same.
* Votes that arrive before `createCheckpoint` are dropped by it; `recordVote` checks
  neither that the voter is a validator nor what block hash the vote is for.
* `start()` twice leaks a timer that `stop()` cannot clear: production goes on
  while `isRunning()` is false.

Consensus:

* PBFT: the prepare messages decide nothing; a call without a quorum answers the
  block of an overlapping one that had it.  Casper FFG finalizes epochs that were
  never justified when votes skip some.
* `check_validator_inactivity` divides by the whole window, also before it is full, and
  its penalty asks `blockchain.get_height()` (slashing.js:129), which core/blockchain.js
  does not have, so that with that blockchain, or none, it throws before anybody is
  slashed: the run assumes one that has it (`TellsHeight`);
  `can_unbond` looks for penalties that are never recorded and is always true.
* interface.js takes the first validator, stake or not, at the random value 0;
  `forge_block` always throws; `calculate_difficulty` compares the target with the
  average of timestamps instead of that of times between blocks, and below ten it can
  only fall, as the tenth it adds is rounded off.  The timeout of `mine` cannot fire
  during its loop; the difficulty is captured by the miner once, and validation of a block never looks at it.
* fork.js reads snake_case fields that core/block.js does not have; a chain that is
  merely ahead is no fork and is not adopted.

Bridge, light client, network:

* `fail_transfer` fails completed transfers too; confirmations of removed relayers
  count; lowering the threshold completes nothing; two transfers of one kind in one
  millisecond share an id.
* A header for an old height replaces the stored one.  The last node of an odd level
  has no step in a proof.  `verifyTransactionProof` expects `{hash, position}` where
  `getProof` gives `{left}` or `{right}`, and `verifyBatchProofs` calls functions that
  are not defined.
* `connect_peer` overlapping itself counts a connection twice; a removed peer may
  become an active connection; the counter may fall below zero.  A node that restarts
  forgets the number of its connections, and one of two roles stays after removal.
* Requests wait for ever after `initialize`; the timer of a request that is still being
  sent, or whose send failed, rejects a promise nobody handles and so ends the process.
  Whitelisted users are still charged tokens.  Nameless transactions of the pool share one key and are miscounted.

Services:

* Lending: a refused withdrawal takes the collateral anyway; `liquidate` does not
  give back to the reserves.  Staking: `undelegate` keeps registrations, and a stake
  can become negative.  Liquidity: amounts given in the other order of tokens are
  credited to the wrong one; `calculate_slippage` changes the pool; swaps with an
  emptied pool take tokens for nothing; liquidity within the tolerance dilutes
  shares.
* Governance: delegation cannot be taken back and power becomes negative after a
  transfer; a vote cast again is counted twice by its method; results are those of
  the first time they were asked for; the default voting system has no minimum
  period, so that its dates are invalid.
* Multisig: `verify_transaction_signatures` is always true, and removing keys below
  the required number blocks every transaction.
* state.js: after a revert, later changes change the snapshot.  caching.js evicts the
  least recently used although others have expired.
* Tokens: a batch of ERC1155 stops half way and keeps what it moved.  Fees:
  `set_fee_distribution` accepts sums from 0.99 to 1.01, and as categories that are not
  given keep theirs, may exceed the whole by far more; TreasuryManager has no `add_balance`.
* Gas is added before the limits are checked, so that a block may exceed its own;
  `startTransaction` ignores `canFitTransaction`.
* Events: subscribers of '*' get an event of type '*' twice; `clearSubscribers` does
  not stop a delivery; `registerHandlers` always throws; the block events
  'finalized' and the transaction events 'created' of the dispatcher lack fields their
  schema asks for and always throw.
* Plugins: overlapping loads initialise twice and the replaced object stays active;
  `unloadPlugin` ignores dependents; `startAllPlugins` throws on system plugins, which
  never load.
* Execution pipeline: a gas limit the receipt refuses fails a transaction that was
  applied; it calls `stateMachine.transition`, which no class of `src` has; removing a
  plugin during a walk skips the next one.
* Sharding compares block numbers with seconds, leaves the remainder of validators
  without a shard, and routes a confirmed transaction again.  state_pruning:
  `enabled || true` cannot be false, the interval is never applied, and a block that was
  pruned may be recorded again, with the states after it still missing:
  `PruningLeavesNoGap` is about the blocks that were recorded in their turn.
* Contracts: after `resetVMContext` names repeat; deploying an unknown contract
  answers an address with nothing there; overlapping executions report each other's
  gas; the sandbox always fails.
* Storage: falsy values become NULL, and the genesis block, whose number is 0, is not
  found.  Database: a disconnect during the first connect is ignored;
  `test_connection` disconnects everybody.
* API: a route with a parameter matches only the name of the parameter, so that no
  real id is found; POST of blocks and transactions always answers 500; `mineBlock`
  and `forgeBlock` answer success although `addBlock` refused; `start` twice leaves
  the first server listening without a handle.

## 4. What is proved

The proofs hold for every value of the constants that satisfies the assumptions named
in the modules (`ConstantsAssumption`, `LedgerAssumption`, `VotingAssumption` and so
on), which TLC evaluates in the runs: mostly that bounds are natural numbers and sets
finite.  A theorem that needs more names it in its own `ASSUME`.  `PROJECT.json` lists
the theorems; here is the argument of each.  Where nothing else is said the property is
a conjunct of an inductive invariant whose other conjuncts are given.

`StateMachineProofs`
* `TypeCorrect`, `HistoryCurrent` (one invariant, `HistoryInv`): the history is never
  too long and its newest entry is that of the current version, through commits,
  restores, clear and restart.
* `StackBalanced`: there are never more entries on the transaction stack than
  calls that will still pop one; the invariant counts those calls.
* `AwaitedHistory`, for callers that await each call (`MaxInFlight = 1`): with at most
  one call in flight (`Alone`) the stack holds its entry or nothing (`OneEntry`), and
  the newest history entry is what a rollback would bring back (`HistoryShowsBase`).
* `AwaitedAtomicity`, when also no nested object is written (`Nested = {}`) and
  nothing fails but the transitions themselves (`Faults = {}`): what has not committed
  is in no state that shows or may come back: memory, backend, the state being saved,
  snapshots (`NoTrace`).  The findings `sm_overlap` and `sm_nested` show what happens
  without the first two assumptions, and the disagreements of section 3 why a
  rejected commit is excluded.
* `AwaitedDurability`, when the backend rejects no write: the backend holds what a
  rollback would bring back, except while a write is on its way (`DurableInv`).
* `Refinement`, for awaited calls that write no nested object, whatever backend and
  failures: from the same invariants each action is a step of `AtomicStore` or a
  stutter, one lemma per action (`StepRefines`).

`LedgerProofs`
* `TypeCorrect`: chains are non-empty, and difficulty never reaches zero.
* `Linked`: inductive with the types.  A step changes a chain only by appending a
  block that fits its latest one, or by the beginning of another node's chain
  (lemma `ChainStep`).
* `HeightKept`, `NothingLost`: two action properties, from the types and
  `ChainStep`.
* `ForksGoForward`: chains that share a block share all before it.  The property
  is not inductive.  `ForkInv` adds that every hash in circulation was given out
  to one content (`HashesUnique`), that a chain is a genesis block followed by
  self-valid blocks sealed like one in circulation (`ChainsSealed`), and that
  chains that agree on a hash at some height agree below (`PrefixShared`).  Lemma
  `HashTells` concludes that a hash tells the block; in the step that appends a
  block, both chains then name the same predecessor, and `PrefixShared` before the
  step gives the rest.  Alterations keep seals but not self-validity, which is
  why seals and blocks are kept apart.
* `DifficultyAgreed`: a trace of a chain is the sequence of difficulties that its
  blocks lead through.  A chain has one trace (`OneTrace`: two would differ first
  where equal ones precede), and until a takeover every node went through one of its
  own chain (`DifficultyTraced`).
* `ProducedLinked`, `SelectionKept`, of the ledger with a producer beside it: a step of
  both is a step of the ledger, the sealing of a block, or the block of a run handed
  to its node (`ProductionInv`).  The selection of a run is in the mempool or in the
  chain from the moment it is selected, whatever becomes of the run.

`FinalityProofs` (every property of the run `finality`)
* `TypeCorrect`: in particular, what is justified or final is one of the
  checkpoints made.
* `NeverDrops`: from the types and `Placed`: the checkpoint in the map at a block
  number is one for that number.  Casper FFG finalizes the predecessor of the
  justified checkpoint, found through the map, so this is what bounds it.
* `ByItsVotes`: `Placed` also says that the votes at a block number were cast for
  the checkpoint the map holds.  PBFT finalizes the justified checkpoint, which may
  have been replaced; `Replaced` says that its replacement then lacks the votes to be
  justified, and therefore those to be final (lemma `QuorumOrder`).  This needs the
  threshold of justification to be at most that of finality, which the code's
  defaults satisfy and the constructor does not check: it is an assumption of the
  theorem, not of the module.
* `NothingLeft`: one attempt at finality leaves nothing to finalize
  (`AttemptLeavesNothing`), and a new checkpoint only takes votes away.

`ConsensusProofs`
* `OneSetForEach`: inductive with the types of the Validator objects
  (`ValidatorsInv`), through the unregistration that a slashing causes.
* `SlashedHaveStake`: an action property from that invariant.
* `QuorumsAnswered`: `committed` is shared by the calls, so `SystemsInv` adds that what
  it holds was committed to by a quorum in some call; the arithmetic of the rounded
  threshold is a lemma.
* `HeaviestChain`: the folds of the three rules are taken apart by induction over the
  competing chains: after each the one in hand is the first that none so far outweighs.
* `ForksLeaveWholeChain`: blocks form a tree (`BlocksWell`), the chain of a block
  exists and is unique, and what the strategies put together is that of the last
  block, all valid (`ForkInv`).
* `BlocksByThoseChosen`: the validators in the list are apart and those who forged are
  among the present, but for who left (`StakeInv`).  The loop that subtracts stakes from a
  random value stops at the validator within whose interval of the running sums the value
  lies; the intervals are apart and as long as the stakes, so that a validator is chosen
  by as many values as it has stake.  A block that was mined meets the difficulty it names
  (`MiningInv`).

`NetworkProofs`
* `CountsKept`: `PoolInv`, `NodesInv` and `PeersInv`, one for each place that keeps
  counts beside sets.
* `BooksKept`, `RelayersComplete`: the maps of the bridge lead to transfers of their
  id, the pending one to the last of that id (`MapsLead`), and a transfer has one
  confirmation of each relayer (`ConfirmedOnce`), so that the number of confirmations
  is the number of relayers.
* `SyncedUnlessReplaced`: there is a header at every height up to the client's, but
  for the first one it may begin without (`HeadersInv`).
* `ProofsShow`: by the least level at which the hash climbed to would not be the one the
  tree has above the datum (`ClimbsToRoot`).  The levels are values of a recursive function
  on sequences, each half as long as the one below, so that it is determined by the length
  (`Recursion` in `Induction`).

`ServicesProofs`
* `BooksAgree`: an invariant for each of lending, staking, tokens, supply, fees and the
  execution of blocks (`BooksInv`).  A total is a sum over a function, and each
  operation changes one or two places of it; the lemmas on sums in `Induction` turn
  that into a change of the total.  Lending adds that who has pledged nothing owes
  nothing; execution, which transactions of the job in hand are applied but have no
  receipt yet (`AtRight`).
* `SignersExecute`: a wallet's transaction is pending and among the completed nowhere,
  or executed and there once (`WalletInv`).
* `PowerFollowsTokens`: `DaoInv`, `VotesInv` (a method that has votes was cast, what
  stands was counted, results are those of an earlier count) and `ManagerInv`.
* `LimitsHold`: `LimiterInv` bounds what a user spent by the capacity and the flow since
  the start; `GasInv`; `CacheInv` adds that no key is there twice.
* `RecordsKept`: `AccountInv` says of every state, snapshots included, that balances
  are what the recorded transactions make of them, because a revert makes any of them
  the live one; `StorageInv`, `PruningInv` and `ShardingInv`.
* `PoolWorthKept`: the greatest common divisor divides, so that every operation on
  fractions gives what the operation on numbers would (`PlusIs`, `TimesIs` and so on);
  products are then compared in whole numbers (`ProductGrows` for a swap, `AddHolds` and
  `RemoveHolds` for liquidity).  `PoolInv` adds to the property what makes it inductive:
  a pool with shares has something of both tokens, an emptied one nothing unless tokens
  went astray, and the product kept is that of the reserves there are.

`OverlapsProofs`
* `OverlapsInOrder`: one invariant for each place where calls overlap.  Events:
  what is published is taken from the queue, in it or in delivery (`QueueInv`), nobody
  got an event out of turn (`ReceivedInv`), who is owed one has it or is still ahead of
  the walk (`OwedInv`), the history ends with the newest (`HistoryInv`).  Deployments:
  names drawn are apart, whoever draws them (`DeploymentsInv`); executions: one that is alone sees its own
  gas (`MachineInv`); hooks: plugins before the place of the walk were called, those
  after it are still ahead, whatever the list has become (`HooksInv`); the server:
  answers agree with the chain (`ApiInv`); the database: a disconnect that may still
  come is followed by a connect (`DatabaseInv`).
* `LoadedInOrder`: `PluginsInv` says that whatever was initialized has all it depends on
  initialized (`Closed`), that in a stack of loads the dependencies each waits for are
  initialized or in the frames still to come (`Covered`), and that every object is of one
  plugin (`Owned`), so that stopping one does not leave another as active that is not.
  The dependencies may have cycles: the recursion of `resolveDependencies` ends because
  each call has fewer registered plugins off its path (`OffPath`), and the order it gives,
  where it gives one, has every plugin after all it depends on (`Ordered`), so that a load
  that descends adds two frames at most (`TwoLevels`).

`Induction` holds the lemmas these proofs cite.  The library's induction theorems
take an operator, which the provers cannot instantiate; `Least` and `LeastSubset` say
instead that a set of numbers, or a set of finite sets, that is not empty has a least
member, so that an induction over data is an argument about the set of
counterexamples.  From it: the folds of the community modules are unique, and sums
do not depend on the order (`SumAnyOrder`), change with one place (`SumChange`),
are monotone, and so on.

Only model-checked: liveness (`CallsSettle`, `ChainedIsExecuted`, `CallsComeBack`), which
is out of the prover's reach, and the runs that find a violation.  Every invariant and
every action property of the passing runs is proved, `ActsAtomically` and the properties
of `sm_awaited` under the assumptions named above.

## 5. What is not modelled, and why

In the modelled parts: callbacks and loggers (their errors are caught), the file
backend (its constructor calls `require`, which an ES module does not have),
`StateValidator`, statistics, scores and figures derived from the state, interest and
rewards that are answered and not booked, texts and headers of answers, and maps that
nothing fills.  Each module's header says what it leaves out.

Not modelled at all: `core/difficulty.js` (nothing calls it, and its
`validate_difficulty` throws at every adjustment height), `core/serialization.js` and
`crypto/*` but multisig (pure conversions), `tokenomics/native.js`, `stablecoin.js`
and `treasury.js` (setters that replace figures, and percentages of them; no operation
depends on what an earlier one did), `storage/leveldb.js` (it stores nothing and reads
answer random data), `utils/*` and `__main__.js`.  Some parts cannot run as they are,
and a model of their working would be a model of something else: the sandbox's
`execute_code` always fails (a variable is used before its declaration), the
`DAOManager` constructor throws.

The parts that one run checks side by side are not composed: in `src` they do not
call each other.  Those that do are composed: StateMachine with its backends, Ledger
with BlockProduction, validators with slashing, the API with its chain.

## 6. What may follow

* Replays and questions of the event history, the statistics of sharding, and the
  contexts given to plugins, if something comes to depend on them.
* A model of the native token and the stablecoin, once their operations depend on one
  another, and of LevelDB, once it stores something.
