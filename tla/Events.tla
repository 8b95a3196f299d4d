------------------------------- MODULE Events -------------------------------
(***************************************************************************)
(* runtime/events.js: EventSystem.  publish queues an event and, unless    *)
(* the queue is being worked off already, delivers all that is queued      *)
(* before it returns; subscribers that are called meanwhile publish,       *)
(* subscribe, unsubscribe and clear.  The maps of subscribers are walked   *)
(* while they change.                                                      *)
(*                                                                         *)
(* Events are numbered as they are published, their data is the set of     *)
(* fields that have a value of the right type.  `owed`, `received` and     *)
(* `asked` are kept for the property.  Left out: questions, replays among  *)
(* them, and types without a schema but '*'.                               *)
(***************************************************************************)
EXTENDS Integers, Sequences, SequencesExt, TLC

CONSTANTS
    EventTypes,      \* types that are subscribed to
    Dispatches,      \* type and data of the events dispatched
    Registrations,   \* type and schema of the types registered
    Subscribers,     \* subscriber ids, each used once
    maxHistorySize,
    MaxEvents        \* bound on the events published

ASSUME EventsAssumption ==
    "*" \notin EventTypes /\ maxHistorySize \in Nat \ {0} /\ MaxEvents \in Nat

VARIABLES
    subscribers,     \* per type, the ids in the order of the map
    eventSchemas,    \* per type, the fields asked for
    eventHistory,
    eventQueue,
    processingQueue,
    visit,           \* the walk over one map of subscribers: NoVisit, or its event, whether it is
                     \* the walk over '*', the ids ahead and whether the map is still the registered one
    inCallback,      \* a subscriber is being called
    unused,          \* ids not given out yet
    published,       \* number of events so far
    owed,            \* per event, who was subscribed to it when it was published and has stayed
    received,        \* per id, the events it was called with
    asked            \* per event, the fields its type asked for when it was published

eventVars == <<subscribers, eventSchemas, eventHistory, eventQueue, processingQueue, visit,
               inCallback, unused, published, owed, received, asked>>
keptVars == <<eventSchemas, eventHistory, asked>>

Wildcard == "*"
Topics == EventTypes \cup {Wildcard}
NoVisit == [event |-> [id |-> 0, type |-> Wildcard, data |-> {}], any |-> FALSE, ahead |-> <<>>, registered |-> FALSE]
Subscribed(type) == ToSet(subscribers[type])

setupDefaultSchemas ==
    LET Block == {"blockNumber", "blockHash"}
        Tx == {"transactionId"}
        Contract == {"contractAddress", "transactionId"}
    IN     "block.created" :> Block \cup {"timestamp", "transactionCount"}
        @@ "block.added" :> Block \cup {"previousHash", "timestamp", "transactionCount"}
        @@ "block.finalized" :> Block \cup {"timestamp", "confirmationCount"}
        @@ "transaction.created" :> Tx \cup {"from", "to", "value", "gasLimit", "gasPrice"}
        @@ "transaction.added" :> Tx \cup Block \cup {"index"}
        @@ "transaction.processed" :> Tx \cup {"status", "gasUsed", "cumulativeGasUsed", "logs"}
        @@ "transaction.confirmed" :> Tx \cup Block \cup {"confirmationCount"}
        @@ "transaction.failed" :> Tx \cup Block \cup {"error"}
        @@ "contract.created" :> Contract \cup {"creator", "bytecode", "blockNumber"}
        @@ "contract.executed" :> Contract \cup {"functionName", "args", "returnValue", "gasUsed"}
        @@ "contract.stopped" :> Contract \cup {"reason", "blockNumber"}
        @@ "contract.storage.updated" :> Contract \cup {"key", "value", "previousValue"}

\* What EventDispatcher passes on.  A Transaction has a sender and a receiver, no
\* `from` and `to`, and no gas of its own.
dispatchBlockEvent(type) ==
    [type |-> type,
     data |-> {"blockNumber", "blockHash", "previousHash", "timestamp", "transactionCount"}]
dispatchTransactionEvent(type, additionalData) ==
    [type |-> type, data |-> {"transactionId", "value"} \cup additionalData]

\* A type without a schema asks for nothing.
Asked(type) == IF type \in DOMAIN eventSchemas THEN eventSchemas[type] ELSE {}
validateEventData(type, data) == Asked(type) \subseteq data

EventsInit ==
    /\ eventSchemas = setupDefaultSchemas /\ eventHistory = <<>> /\ asked = <<>>
    /\ subscribers = [t \in Topics |-> <<>>]
    /\ eventQueue = <<>> /\ processingQueue = FALSE
    /\ visit = NoVisit /\ inCallback = FALSE
    /\ unused = Subscribers /\ published = 0 /\ owed = <<>>
    /\ received = [s \in Subscribers |-> <<>>]

\* Code runs outside of a delivery or inside a callback.
CodeRuns == ~processingQueue \/ inCallback

\* The walk is over the map of this type, as it is registered.
Walking(type) ==
    /\ visit # NoVisit /\ visit.registered
    /\ type = IF visit.any THEN Wildcard ELSE visit.event.type

\* One that subscribes while its map is walked still gets the event.
subscribe(type, s) ==
    /\ CodeRuns /\ s \in unused
    /\ subscribers' = [subscribers EXCEPT ![type] = Append(@, s)]
    /\ visit' = IF Walking(type) THEN [visit EXCEPT !.ahead = Append(@, s)] ELSE visit
    /\ unused' = unused \ {s}
    /\ UNCHANGED <<keptVars, eventQueue, processingQueue, inCallback, published, owed, received>>

\* A map without the id, which it has once at most.
Deleted(map, s) ==
    LET place == SelectInSeq(map, LAMBDA x : x = s)
    IN  IF place = 0 THEN map ELSE RemoveAt(map, place)

\* The last one takes the map along: the walk goes on over a map of its own.
unsubscribe(type, s) ==
    /\ CodeRuns /\ s \in Subscribed(type)
    /\ subscribers' = [subscribers EXCEPT ![type] = Deleted(@, s)]
    /\ visit' = IF Walking(type)
                THEN [visit EXCEPT !.ahead = Deleted(@, s),
                                   !.registered = subscribers'[type] # <<>>]
                ELSE visit
    /\ owed' = [e \in DOMAIN owed |-> owed[e] \ {s}]
    /\ UNCHANGED <<keptVars, eventQueue, processingQueue, inCallback, unused, published, received>>

\* The maps are dropped, not emptied: a walk goes on to its end.
clearSubscribers ==
    /\ CodeRuns
    /\ subscribers' = [t \in Topics |-> <<>>]
    /\ visit' = IF visit = NoVisit THEN NoVisit ELSE [visit EXCEPT !.registered = FALSE]
    /\ owed' = [e \in DOMAIN owed |-> {}]
    /\ UNCHANGED <<keptVars, eventQueue, processingQueue, inCallback, unused, published, received>>

\* Mutant: an event is delivered before those already waiting.
Queued_First(event) == <<event>> \o eventQueue

Queued(event) == Append(eventQueue, event)

\* Refused, and nothing has changed, when a field is missing.
publish(type, data) ==
    /\ CodeRuns /\ published < MaxEvents /\ validateEventData(type, data)
    /\ published' = published + 1
    /\ LET event == [id |-> published', type |-> type, data |-> data]
           history == Append(eventHistory, event)
       IN  /\ eventQueue' = Queued(event)
           /\ eventHistory' = IF Len(history) > maxHistorySize THEN Tail(history) ELSE history
    /\ owed' = Append(owed, (IF type \in EventTypes THEN Subscribed(type) ELSE {}) \cup Subscribed(Wildcard))
    /\ asked' = Append(asked, Asked(type))
    /\ processingQueue' = TRUE
    /\ UNCHANGED <<eventSchemas, subscribers, visit, inCallback, unused, received>>

\* The schema takes the place of one there was.
registerEventType(type, schema) ==
    /\ CodeRuns /\ eventSchemas' = (type :> schema @@ eventSchemas)
    /\ UNCHANGED <<eventHistory, asked, subscribers, eventQueue, processingQueue, visit,
                   inCallback, unused, published, owed, received>>

clearHistory ==
    /\ CodeRuns /\ eventHistory' = <<>>
    /\ UNCHANGED <<eventSchemas, asked, subscribers, eventQueue, processingQueue, visit,
                   inCallback, unused, published, owed, received>>

Walk(event, any) ==
    [event |-> event, any |-> any, registered |-> TRUE,
     ahead |-> IF any THEN subscribers[Wildcard]
               ELSE IF event.type \in Topics THEN subscribers[event.type] ELSE <<>>]

\* processQueue: the next event, first to the subscribers of its type ...
TakeEvent ==
    /\ processingQueue /\ visit = NoVisit /\ eventQueue # <<>>
    /\ visit' = Walk(Head(eventQueue), FALSE) /\ eventQueue' = Tail(eventQueue)
    /\ UNCHANGED <<keptVars, subscribers, processingQueue, inCallback, unused, published, owed, received>>

invokeCallback ==
    /\ visit # NoVisit /\ visit.ahead # <<>>
    /\ received' = [received EXCEPT ![Head(visit.ahead)] = Append(@, visit.event.id)]
    /\ visit' = [visit EXCEPT !.ahead = Tail(@)]
    /\ inCallback' = TRUE
    /\ UNCHANGED <<keptVars, subscribers, eventQueue, processingQueue, unused, published, owed>>

\* ... then to those of '*', who get an event of type '*' twice.
EndWalk ==
    /\ visit # NoVisit /\ visit.ahead = <<>>
    /\ visit' = IF visit.any THEN NoVisit ELSE Walk(visit.event, TRUE)
    /\ inCallback' = FALSE
    /\ UNCHANGED <<keptVars, subscribers, eventQueue, processingQueue, unused, published, owed, received>>

EndQueue ==
    /\ processingQueue /\ visit = NoVisit /\ eventQueue = <<>>
    /\ processingQueue' = FALSE
    /\ UNCHANGED <<keptVars, subscribers, eventQueue, visit, inCallback, unused, published, owed, received>>

EventsNext ==
    \/ \E d \in Dispatches : publish(d.type, d.data)
    \/ \E r \in Registrations : registerEventType(r.type, r.schema)
    \/ \E type \in Topics, s \in Subscribers : subscribe(type, s) \/ unsubscribe(type, s)
    \/ clearHistory \/ clearSubscribers \/ TakeEvent \/ invokeCallback \/ EndWalk \/ EndQueue

EventsSpec == EventsInit /\ [][EventsNext]_eventVars

-----------------------------------------------------------------------------

\* Events of a type reach a subscriber in the order they were published, and
\* whoever was subscribed when an event was published and has not left since
\* has got it by the time the queue is worked off, whatever the subscribers do
\* while they are called (publish, processQueue, unsubscribe).  The history has the
\* latest events, none missing between them, with all that was asked of them
\* whatever schema came later (validateEventData, registerEventType).
EventsDelivered ==
    /\ \A s \in Subscribers : \A i, j \in DOMAIN received[s] :
           i < j => received[s][i] <= received[s][j]
    /\ ~processingQueue =>
           \A e \in DOMAIN owed : \A s \in owed[e] : e \in ToSet(received[s])
    /\ \A i \in DOMAIN eventHistory :
           /\ eventHistory[i].id = published - Len(eventHistory) + i
           /\ asked[eventHistory[i].id] \subseteq eventHistory[i].data
=============================================================================
