---------------------------- MODULE StateMachine ----------------------------
(***************************************************************************)
(* runtime/state_machine.js: the transactional state store.                *)
(*                                                                         *)
(* applyTransition is asynchronous: callers that do not wait for one       *)
(* another interleave at every await.  A call is followed from             *)
(* beginTransaction to the moment its promise settles:                     *)
(*                                                                         *)
(*   idle -> running -> written -> saving -> done                          *)
(*              \          \          \                                    *)
(*               +----------+----------+--> aborting -> failed             *)
(*                                                                         *)
(* A running call is "detached" once this.state is another object than the *)
(* one its transition was handed; a restart makes the calls in flight      *)
(* "lost".                                                                 *)
(*                                                                         *)
(* Every transition adds its own name to the state, so a state is the set  *)
(* of the calls whose effect it shows.  JavaScript's {...state} copies one *)
(* level only: what a transition writes inside a nested object is kept     *)
(* apart, in "shared", which every copy of the state sees.                 *)
(***************************************************************************)
EXTENDS Integers, FiniteSets, Sequences

CONSTANTS
    Calls,             \* the calls of applyTransition; each is made once
    Nested,            \* those whose transition writes inside a nested object
    Names,             \* snapshot names
    NoSnapshot,        \* no snapshot under this name
    MaxHistoryLength,  \* options.maxHistoryLength
    MaxInFlight,       \* calls the callers keep in flight; 1: each is awaited
    Backend,           \* "memory": setState is done when it returns;
                       \* "database": it lands later and survives a restart
    Faults             \* what may reject a commit: "write", setState;
                       \* "hash", calculateStateHash (no global crypto)

ASSUME ConstantsAssumption ==
    /\ IsFiniteSet(Calls)
    /\ Nested \subseteq Calls
    /\ MaxHistoryLength \in Nat \ {0}
    /\ MaxInFlight \in Nat \ {0}
    /\ Backend \in {"memory", "database"}
    /\ Faults \subseteq {"write", "hash"}
    /\ Backend = "memory" => "write" \notin Faults

VARIABLES
    state,      \* this.state: effects in its own fields
    shared,     \* effects inside the objects nested in it
    version,    \* this.stateVersion
    history,    \* this.stateHistory
    stack,      \* this.transactionStack, as the previousState of each entry
    snapshots,  \* this.snapshots
    backend,    \* what the backend holds
    pc,         \* how far each call is
    save,       \* the copy a call waits for the backend to store
    reset       \* the restoreSnapshot or clear call in flight

machine == <<state, shared, version, history, stack, snapshots, backend>>
vars == <<state, shared, version, history, stack, snapshots, backend,
          pc, save, reset>>

Effects == SUBSET Calls
Snapshot == [version : Nat, state : Effects]
Idle == [phase |-> "none", snap |-> NoSnapshot]

InFlight ==
    {c \in Calls : pc[c] \in {"running", "detached", "written", "saving", "aborting"}}
Busy == Cardinality(InFlight) + (IF reset.phase = "none" THEN 0 ELSE 1)
Quiescent == Busy = 0

\* What a reader of the state sees, and what a reader of the backend would.
Visible == state \cup shared
BackendView == IF Backend = "memory" THEN backend \cup shared ELSE backend

\* this.state becomes another object: running transitions keep the old one.
Detach == [c \in Calls |-> IF pc[c] = "running" THEN "detached" ELSE pc[c]]

\* The in-memory backend has stored a state when setState returns.
Stored(s) == IF Backend = "memory" THEN s ELSE backend

\* Mutants: the oldest entry is never shifted out; the entry is taken before
\* this.state is assigned.
addStateHistory_Unbounded(v, s) == Append(history, [version |-> v, state |-> s])
addStateHistory_Early(v, s) ==
    LET longer == Append(history, [version |-> v, state |-> state])
    IN  IF Len(longer) > MaxHistoryLength THEN Tail(longer) ELSE longer

addStateHistory(v, s) ==
    LET longer == Append(history, [version |-> v, state |-> s])
    IN  IF Len(longer) > MaxHistoryLength THEN Tail(longer) ELSE longer
Init ==
    /\ state = {} /\ shared = {} /\ version = 0
    /\ history = <<[version |-> 0, state |-> {}]>>
    /\ stack = <<>>
    /\ snapshots = [n \in Names |-> NoSnapshot]
    /\ backend = {}
    /\ pc = [c \in Calls |-> "idle"]
    /\ save = [c \in Calls |-> {}]
    /\ reset = Idle

-----------------------------------------------------------------------------
(* applyTransition *)

\* beginTransaction, then the transition is handed this.state.
beginTransaction(c) ==
    /\ pc[c] = "idle" /\ Busy < MaxInFlight
    /\ stack' = Append(stack, state)
    /\ pc' = [pc EXCEPT ![c] = "running"]
    /\ UNCHANGED <<state, shared, version, history, snapshots, backend, save, reset>>

\* The transition assigns to the object it was handed.
Write(c) ==
    /\ pc[c] \in {"running", "detached"}
    /\ pc' = [pc EXCEPT ![c] = "written"]
    /\ state' = IF c \notin Nested /\ pc[c] = "running" THEN state \cup {c} ELSE state
    /\ shared' = IF c \in Nested THEN shared \cup {c} ELSE shared
    /\ UNCHANGED <<version, history, stack, snapshots, backend, save, reset>>

\* The transition throws, before or after it wrote.
Throw(c) ==
    /\ pc[c] \in {"running", "detached", "written"}
    /\ pc' = [pc EXCEPT ![c] = "aborting"]
    /\ UNCHANGED <<machine, save, reset>>

\* commitTransaction with an entry to pop: the newest, whichever call's it is.
commitTransaction(c) ==
    /\ pc[c] = "written" /\ stack # <<>>
    /\ stack' = SubSeq(stack, 1, Len(stack) - 1)
    /\ version' = version + 1
    /\ history' = addStateHistory(version + 1, state)
    /\ backend' = Stored(state)
    /\ save' = [save EXCEPT ![c] = Visible]
    /\ pc' = [pc EXCEPT ![c] = "saving"]
    /\ UNCHANGED <<state, shared, snapshots, reset>>

\* commitTransaction throws "No active transaction".
CommitRefused(c) ==
    /\ pc[c] = "written" /\ stack = <<>>
    /\ pc' = [pc EXCEPT ![c] = "aborting"]
    /\ UNCHANGED <<machine, save, reset>>

\* backend.setState settles, then the result is built.
Settle(c) ==
    /\ pc[c] = "saving"
    /\ \E outcome \in {"ok"} \cup Faults :
          /\ backend' = IF Backend = "database" /\ outcome # "write"
                           THEN save[c] ELSE backend
          /\ pc' = [pc EXCEPT ![c] = IF outcome = "ok" THEN "done" ELSE "aborting"]
    /\ save' = [save EXCEPT ![c] = {}]
    /\ UNCHANGED <<state, shared, version, history, stack, snapshots, reset>>

\* Mutants: rollback leaves the entry on the stack; leaves the state as it is;
\* waits for an entry instead of throwing.
rollbackTransaction_KeepsEntry(c) ==
    /\ pc[c] = "aborting"
    /\ pc' = [Detach EXCEPT ![c] = "failed"]
    /\ state' = IF stack = <<>> THEN state ELSE stack[Len(stack)]
    /\ UNCHANGED <<shared, version, history, stack, snapshots, backend, save, reset>>
rollbackTransaction_KeepsState(c) ==
    /\ pc[c] = "aborting"
    /\ pc' = [pc EXCEPT ![c] = "failed"]
    /\ stack' = IF stack = <<>> THEN stack ELSE SubSeq(stack, 1, Len(stack) - 1)
    /\ UNCHANGED <<state, shared, version, history, snapshots, backend, save, reset>>
rollbackTransaction_Waits(c) ==
    /\ pc[c] = "aborting" /\ stack # <<>>
    /\ pc' = [Detach EXCEPT ![c] = "failed"]
    /\ state' = stack[Len(stack)]
    /\ stack' = SubSeq(stack, 1, Len(stack) - 1)
    /\ UNCHANGED <<shared, version, history, snapshots, backend, save, reset>>

\* The catch block: rollbackTransaction pops an entry if there is one, and
\* otherwise throws in its turn; the caller sees an error either way.
rollbackTransaction(c) ==
    /\ pc[c] = "aborting"
    /\ IF stack = <<>>
       THEN /\ pc' = [pc EXCEPT ![c] = "failed"]
            /\ UNCHANGED <<state, stack>>
       ELSE /\ pc' = [Detach EXCEPT ![c] = "failed"]
            /\ state' = stack[Len(stack)]
            /\ stack' = SubSeq(stack, 1, Len(stack) - 1)
    /\ UNCHANGED <<shared, version, history, snapshots, backend, save, reset>>

-----------------------------------------------------------------------------
(* Snapshots, history and reset *)

createSnapshot(n) ==
    /\ Busy < MaxInFlight
    /\ snapshots' = [snapshots EXCEPT ![n] = [version |-> version, state |-> state]]
    /\ UNCHANGED <<state, shared, version, history, stack, backend, pc, save, reset>>

\* deleteSnapshot, and gcSnapshots for the set of names that grew too old.
deleteSnapshots(old) ==
    /\ \E n \in old : snapshots[n] # NoSnapshot
    /\ snapshots' = [n \in Names |-> IF n \in old THEN NoSnapshot ELSE snapshots[n]]
    /\ UNCHANGED <<state, shared, version, history, stack, backend, pc, save, reset>>

\* Mutant: a missing snapshot is not noticed.
RestoreStart_Unchecked(n) ==
    /\ reset.phase = "none" /\ Busy < MaxInFlight
    /\ reset' = [phase |-> "captured", snap |-> snapshots[n]]
    /\ UNCHANGED <<machine, pc, save>>

\* restoreSnapshot looks the snapshot up and awaits the callbacks ...
RestoreStart(n) ==
    /\ snapshots[n] # NoSnapshot
    /\ reset.phase = "none" /\ Busy < MaxInFlight
    /\ reset' = [phase |-> "captured", snap |-> snapshots[n]]
    /\ UNCHANGED <<machine, pc, save>>

\* Mutant: the version is not rewound.
RestoreApply_KeepsVersion ==
    /\ reset.phase = "captured"
    /\ state' = reset.snap.state
    /\ history' = addStateHistory(reset.snap.version, reset.snap.state)
    /\ backend' = Stored(reset.snap.state)
    /\ pc' = Detach
    /\ reset' = [reset EXCEPT !.phase = "restoring", !.snap.state = @ \cup shared]
    /\ UNCHANGED <<shared, version, stack, snapshots, save>>

\* ... installs a copy of it and awaits the backend ...
RestoreApply ==
    /\ reset.phase = "captured"
    /\ state' = reset.snap.state
    /\ version' = reset.snap.version
    /\ history' = addStateHistory(reset.snap.version, reset.snap.state)
    /\ backend' = Stored(reset.snap.state)
    /\ pc' = Detach
    /\ reset' = [reset EXCEPT !.phase = "restoring", !.snap.state = @ \cup shared]
    /\ UNCHANGED <<shared, stack, snapshots, save>>

\* Mutant: the restored state is not stored.
RestoreSettle_Unsaved ==
    /\ reset.phase = "restoring" /\ reset' = Idle
    /\ UNCHANGED <<machine, pc, save>>

\* ... which stores it, or rejects and leaves the restored state in place.
RestoreSettle ==
    /\ reset.phase = "restoring"
    /\ \E outcome \in {"ok"} \cup (Faults \ {"hash"}) :
          backend' = IF Backend = "database" /\ outcome = "ok"
                        THEN reset.snap.state ELSE backend
    /\ reset' = Idle
    /\ UNCHANGED <<state, shared, version, history, stack, snapshots, pc, save>>

pruneHistory(maxVersions) ==
    /\ Len(history) > maxVersions
    /\ history' = SubSeq(history, Len(history) - maxVersions + 1, Len(history))
    /\ UNCHANGED <<state, shared, version, stack, snapshots, backend, pc, save, reset>>

\* clear empties the machine and awaits the backend.  A cleared state has no
\* nested object to write in: clear is modelled for Nested = {} only.
clear ==
    /\ Nested = {} /\ reset.phase = "none" /\ Busy < MaxInFlight
    /\ state' = {} /\ version' = 0
    /\ history' = <<>> /\ stack' = <<>>
    /\ snapshots' = [n \in Names |-> NoSnapshot]
    /\ backend' = Stored({})
    /\ pc' = Detach
    /\ reset' = [phase |-> "clearing", snap |-> NoSnapshot]
    /\ UNCHANGED <<shared, save>>

ClearSettle ==
    /\ reset.phase = "clearing"
    /\ \E outcome \in {"ok"} \cup (Faults \ {"hash"}) :
          backend' = IF Backend = "database" /\ outcome = "ok" THEN {} ELSE backend
    /\ reset' = Idle
    /\ UNCHANGED <<state, shared, version, history, stack, snapshots, pc, save>>

\* The process dies and a new StateMachine is initialized from the backend.
initialize ==
    /\ Backend = "database"
    /\ state' = backend /\ shared' = {} /\ version' = 0
    /\ history' = <<[version |-> 0, state |-> backend]>>
    /\ stack' = <<>>
    /\ snapshots' = [n \in Names |-> NoSnapshot]
    /\ pc' = [c \in Calls |-> IF c \in InFlight THEN "lost" ELSE pc[c]]
    /\ save' = [c \in Calls |-> {}]
    /\ reset' = Idle
    /\ UNCHANGED backend

-----------------------------------------------------------------------------

\* What a call in flight does next: the event loop runs it.
Step(c) == Write(c) \/ Throw(c) \/ commitTransaction(c) \/ CommitRefused(c)
           \/ Settle(c) \/ rollbackTransaction(c)

Next ==
    \/ \E c \in Calls : beginTransaction(c) \/ Step(c)
    \/ \E n \in Names : createSnapshot(n) \/ RestoreStart(n)
    \/ \E old \in SUBSET Names : deleteSnapshots(old)
    \/ RestoreApply \/ RestoreSettle
    \/ \E m \in 0 .. MaxHistoryLength : pruneHistory(m)
    \/ clear \/ ClearSettle
    \/ initialize

Spec == Init /\ [][Next]_vars

\* A promise that can settle does: the transitions terminate and the event
\* loop starves no continuation.
Fairness == /\ \A c \in Calls : WF_vars(Step(c))
            /\ WF_vars(RestoreApply) /\ WF_vars(RestoreSettle) /\ WF_vars(ClearSettle)

FairSpec == Spec /\ Fairness

-----------------------------------------------------------------------------
(* Properties *)

\* Every variable keeps the shape its field has in the code: entries of the
\* history and snapshots are (version, state) pairs (constructor and
\* addStateHistory).
TypeOK ==
    /\ state \in Effects /\ shared \in Effects /\ backend \in Effects
    /\ version \in Nat
    /\ history \in Seq(Snapshot)
    /\ stack \in Seq(Effects)
    /\ snapshots \in [Names -> Snapshot \cup {NoSnapshot}]
    /\ pc \in [Calls -> {"idle", "running", "detached", "written", "saving",
                         "aborting", "done", "failed", "lost"}]
    /\ save \in [Calls -> Effects]
    /\ \/ reset = Idle
       \/ reset = [phase |-> "clearing", snap |-> NoSnapshot]
       \/ reset \in [phase : {"captured", "restoring"}, snap : Snapshot]

\* The calls that may still pop an entry of the transaction stack.
Open == {c \in Calls : pc[c] \in {"running", "detached", "written", "aborting"}}

\* However calls, failures, clear() and restarts interleave, no entry outlives
\* the calls: a stranded entry would one day roll the state back to a point
\* long past (transactionStack, pushed in beginTransaction and popped in
\* commitTransaction and rollbackTransaction).
NoStrandedEntry == Len(stack) <= Cardinality(Open)

\* The history stays within its bound, and its newest entry is the one of the
\* current version, whatever commits, restores, pruning and clear() did
\* (addStateHistory is called after the version moves, in commitTransaction
\* and in restoreSnapshot).
HistoryFollowsVersion ==
    /\ Len(history) <= MaxHistoryLength
    /\ history # <<>> => history[Len(history)].version = version

\* When callers await each call, the newest history entry is the state itself
\* once the call is over, also after a rollback (rollbackTransaction).
HistoryFollowsState ==
    Quiescent /\ history # <<>> => history[Len(history)].state = state

\* When callers await each call and nothing fails, memory and backend agree
\* between calls: a commit, a restore and a rollback each leave the backend
\* with what a restart should find.
DurableInSync == Quiescent => BackendView = Visible

\* A call that reported failure has left no trace in the state ("Atomic
\* operations", the header of state_machine.js).
FailedLeavesNoTrace ==
    Quiescent => \A c \in Calls : pc[c] = "failed" => c \notin Visible

\* Every call that was begun settles, whatever the others do to the stack in
\* the meantime (commitTransaction and rollbackTransaction throw rather than
\* wait when they find it empty).
CallsSettle ==
    \A c \in Calls : c \in InFlight ~> pc[c] \in {"done", "failed", "lost"}

-----------------------------------------------------------------------------
(* What the store promises *)

\* The store is what the caller whose transaction is open started from.
Promise == INSTANCE AtomicStore WITH
    Changes <- Calls,
    store <- IF stack # <<>> THEN stack[1] ELSE state,
    durable <- backend,
    saved <- {snapshots[n] : n \in {m \in Names : snapshots[m] # NoSnapshot}}
             \cup (IF reset.phase = "captured" THEN {reset.snap} ELSE {})

\* Callers that await each call see an atomic store: a transition shows as a
\* whole or not at all, a restart finds a state the store once had, a restore
\* returns to a point that was saved (applyTransition, restoreSnapshot).
ActsAtomically == Promise!Spec
=============================================================================
