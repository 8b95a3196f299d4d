---------------------------- MODULE AtomicStore -----------------------------
(***************************************************************************)
(* What a transactional store promises callers that await each call: a     *)
(* transition happens as a whole and moves the version by one, or not at   *)
(* all; what is durable was the store at some moment; a restore returns to *)
(* a point that was saved, and a restart to what is durable.               *)
(***************************************************************************)
EXTENDS Naturals

CONSTANTS Changes   \* the changes a transition can make, each at most once

VARIABLES store,    \* the changes the store shows
          version,  \* how many transitions it went through
          durable,  \* the store a restart finds
          saved     \* the points a restore can return to

vars == <<store, version, durable, saved>>

Init == store = {} /\ version = 0 /\ durable = {} /\ saved = {}

\* A transition, which may be durable at once or only after Flush.
Apply == \E c \in Changes \ store :
    /\ store' = store \cup {c}
    /\ version' = version + 1
    /\ durable' \in {durable, store'}
    /\ UNCHANGED saved

Flush == durable' = store /\ UNCHANGED <<store, version, saved>>

\* Points are saved as they are, and dropped.
Save == /\ \E keep \in SUBSET saved :
              saved' = keep \cup {[version |-> version, state |-> store]}
        /\ UNCHANGED <<store, version, durable>>
Drop == saved' \in SUBSET saved /\ UNCHANGED <<store, version, durable>>

Restore == \E s \in saved :
    /\ store' = s.state /\ version' = s.version
    /\ durable' \in {durable, s.state}
    /\ saved' \in SUBSET saved

Clear == /\ store' = {} /\ version' = 0 /\ saved' = {}
         /\ durable' \in {durable, {}}

Restart == store' = durable /\ version' = 0 /\ saved' = {} /\ UNCHANGED durable

Next == Apply \/ Flush \/ Save \/ Drop \/ Restore \/ Clear \/ Restart

Spec == Init /\ [][Next]_vars
=============================================================================
