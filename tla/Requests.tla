------------------------------ MODULE Requests ------------------------------
(***************************************************************************)
(* networking/protocol.js (Protocol): requests that wait for an answer and *)
(* their timeouts.                                                         *)
(*                                                                         *)
(* The transport belongs to the caller: it is there or not, its send may   *)
(* take its time, and its errors are caught.  Timers are those of Node.js; *)
(* `close()` or the function clearTimeout would stop one, a method of that *)
(* name it has not.  A rejection that nobody waits for ends the process    *)
(* (package.json asks for Node.js 18), and with it everything here.        *)
(* `answered` and `forgotten` are kept for the properties.                 *)
(*                                                                         *)
(* Left out: the handlers of received messages, which only log, and the    *)
(* senders whose message type is not in message_types, which throw.        *)
(***************************************************************************)
EXTENDS FiniteSets

CONSTANT RequestIds   \* ids of requests, each sent once

VARIABLES
    transport_layer,  \* there is one
    requests,         \* the keys of this.requests
    timers,           \* requests whose timer is running
    promise,          \* the promise of register_request_with_timeout
    caller,           \* what send_message_and_wait_for_response has come to
    answered,         \* requests that an answer found open
    forgotten,        \* requests that initialize found open
    ended             \* a rejection that nobody handled has ended the process

requestsVars ==
    <<transport_layer, requests, timers, promise, caller, answered, forgotten, ended>>

RequestsInit ==
    /\ transport_layer = FALSE /\ ended = FALSE
    /\ requests = {} /\ timers = {} /\ answered = {} /\ forgotten = {}
    /\ promise = [r \in RequestIds |-> "none"]
    /\ caller = [r \in RequestIds |-> "none"]

SetTransport ==
    /\ ~ended /\ ~transport_layer /\ transport_layer' = TRUE
    /\ UNCHANGED <<requests, timers, promise, caller, answered, forgotten, ended>>

\* The requests are forgotten; their timers run on.
Protocol_initialize ==
    /\ ~ended
    /\ transport_layer' = FALSE /\ requests' = {} /\ forgotten' = forgotten \cup requests
    /\ UNCHANGED <<timers, promise, caller, answered, ended>>

register_request_with_timeout(r) ==
    /\ requests' = requests \cup {r}
    /\ timers' = timers \cup {r}
    /\ promise' = [promise EXCEPT ![r] = "pending"]

\* Without a transport the call fails, with its request registered.
send_message_and_wait_for_response(r) ==
    /\ ~ended /\ caller[r] = "none"
    /\ register_request_with_timeout(r)
    /\ caller' = [caller EXCEPT ![r] = IF transport_layer THEN "sending" ELSE "failed"]
    /\ UNCHANGED <<transport_layer, answered, forgotten, ended>>

\* The transport has sent, or failed to: the call now waits for the promise.
Sent(r) ==
    /\ ~ended /\ caller[r] = "sending"
    /\ caller' = [caller EXCEPT ![r] = "waiting"]
    /\ UNCHANGED <<transport_layer, requests, timers, promise, answered, forgotten, ended>>

\* An answer finds the request and fails where it stops the timer.
handle_generic_response(r) ==
    /\ ~ended /\ caller[r] \in {"sending", "waiting"} /\ r \in requests
    /\ answered' = answered \cup {r}
    /\ UNCHANGED <<transport_layer, requests, timers, promise, caller, forgotten, ended>>

\* Mutant: the request is taken away and nobody told.
Timeout_Silent(r) ==
    /\ ~ended /\ r \in timers /\ timers' = timers \ {r}
    /\ requests' = requests \ {r}
    /\ UNCHANGED <<transport_layer, promise, caller, answered, forgotten, ended>>

\* An open request is rejected.  Only a call that waits takes the rejection: while
\* its transport is still sending, or after the call failed without one, nobody
\* has a hold of the promise yet, and the process ends.
Timeout(r) ==
    /\ ~ended /\ r \in timers /\ timers' = timers \ {r}
    /\ requests' = requests \ {r}
    /\ IF r \in requests
       THEN /\ promise' = [promise EXCEPT ![r] = "rejected"]
            /\ caller' = [caller EXCEPT ![r] = IF @ = "waiting" THEN "rejected" ELSE @]
            /\ ended' = (caller[r] # "waiting")
       ELSE UNCHANGED <<promise, caller, ended>>
    /\ UNCHANGED <<transport_layer, answered, forgotten>>

RequestsNext ==
    \/ SetTransport \/ Protocol_initialize
    \/ \E r \in RequestIds :
          \/ send_message_and_wait_for_response(r) \/ Sent(r)
          \/ handle_generic_response(r) \/ Timeout(r)

\* As long as the process lives, timers fire and a transport that
\* was asked to send comes back.
RequestsFairness == \A r \in RequestIds : WF_requestsVars(Timeout(r)) /\ WF_requestsVars(Sent(r))

RequestsSpec == RequestsInit /\ [][RequestsNext]_requestsVars /\ RequestsFairness

-----------------------------------------------------------------------------
(* Properties *)

\* Every call comes back, answered or not, in the time its timer takes, unless
\* initialize forgot its request, after which it waits for ever, or the process
\* ended on a rejection that came before anyone waited for it
\* (register_request_with_timeout, initialize).
CallsComeBack ==
    \A r \in RequestIds :
        caller[r] \in {"sending", "waiting"} ~> caller[r] = "rejected" \/ r \in forgotten \/ ended

\* "Promise that resolves with response" (protocol.js:314): a request for which
\* there was an answer while it was open is not rejected.
AnswersResolve == \A r \in answered : promise[r] # "rejected"
=============================================================================
