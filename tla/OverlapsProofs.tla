--------------------------- MODULE OverlapsProofs ---------------------------
(***************************************************************************)
(* What holds of the services whose calls overlap, whatever the order of   *)
(* their steps and however many there are.                                 *)
(***************************************************************************)
EXTENDS MCServices, Induction, TLAPS

-----------------------------------------------------------------------------
(* Events *)

\* Deleting one id leaves the others.
LEMMA DeletedIs ==
    ASSUME NEW S, NEW s \in Seq(S), NEW x
    PROVE  /\ Deleted(s, x) \in Seq(S)
           /\ \A y : y \in ToSet(s) /\ y # x => y \in ToSet(Deleted(s, x))
<1> DEFINE place == SelectInSeq(s, LAMBDA y : y = x)
           r == RemoveAt(s, place)
<1>1. Deleted(s, x) = IF place = 0 THEN s ELSE r BY DEF Deleted
<1>2. place # 0 => place \in DOMAIN s /\ s[place] = x BY SelectedIs
<1>3. place \in DOMAIN s =>
          /\ r \in Seq(S) /\ Len(r) = Len(s) - 1
          /\ \A k \in DOMAIN r : r[k] = IF k < place THEN s[k] ELSE s[k + 1]
  <2> SUFFICES ASSUME place \in DOMAIN s
               PROVE  /\ r \in Seq(S) /\ Len(r) = Len(s) - 1
                      /\ \A k \in DOMAIN r : r[k] = IF k < place THEN s[k] ELSE s[k + 1]
    OBVIOUS
  <2> HIDE DEF place
  <2>1. place \in 1 .. Len(s) OBVIOUS
  <2>2. /\ r \in Seq(S) /\ Len(r) = Len(s) - 1
        /\ \A k \in 1 .. Len(s) - 1 : r[k] = IF k < place THEN s[k] ELSE s[k + 1]
    BY <2>1, RemovedAt
  <2>3. DOMAIN r = 1 .. Len(s) - 1 BY <2>2
  <2> QED BY <2>2, <2>3
<1> HIDE DEF place, r
<1>4. CASE place = 0 BY <1>1, <1>4
<1>5. CASE place # 0
  <2>1. r \in Seq(S) /\ DOMAIN r = 1 .. Len(s) - 1 /\ DOMAIN s = 1 .. Len(s) /\ Len(s) \in Nat
    BY <1>2, <1>3, <1>5
  <2>2. ASSUME NEW y \in ToSet(s), y # x PROVE y \in ToSet(r)
    <3>1. PICK k \in DOMAIN s : s[k] = y BY DEF ToSet
    <3>2. k # place /\ place \in 1 .. Len(s) BY <1>2, <1>5, <2>1, <2>2, <3>1
    <3>3. CASE k < place
      <4>1. k \in DOMAIN r BY <2>1, <3>2, <3>3
      <4> QED BY <1>2, <1>3, <1>5, <3>1, <3>3, <4>1 DEF ToSet
    <3>4. CASE k > place
      <4>1. k - 1 \in DOMAIN r /\ ~(k - 1 < place) /\ k - 1 + 1 = k BY <2>1, <3>2, <3>4
      <4> QED BY <1>2, <1>3, <1>5, <3>1, <4>1 DEF ToSet
    <3> QED BY <2>1, <3>2, <3>3, <3>4
  <2> QED BY <1>1, <1>5, <2>1, <2>2
<1> QED BY <1>4, <1>5

\* Which events are in the queue, which one is being delivered.
PublishedEvents == [id : Nat, type : {d.type : d \in Dispatches}, data : {d.data : d \in Dispatches}]
VisitFields == {"event", "any", "ahead", "registered"}
Taken == published - Len(eventQueue)
QueueInv ==
    /\ published \in Nat /\ eventQueue \in Seq(PublishedEvents) /\ Len(eventQueue) <= published
    /\ \A k \in DOMAIN eventQueue : eventQueue[k].id = Taken + k
    /\ DOMAIN visit = VisitFields /\ visit.ahead \in Seq(Subscribers)
    /\ visit # NoVisit => visit.event \in PublishedEvents /\ visit.event.id = Taken /\ Taken > 0
    /\ ~processingQueue => eventQueue = <<>> /\ visit = NoVisit
    /\ DOMAIN subscribers = Topics
    /\ \A t \in Topics : subscribers[t] \in Seq(Subscribers)

\* Nobody got an event that is still to come, nor one out of turn.
ReceivedInv ==
    /\ DOMAIN received = Subscribers
    /\ \A s \in Subscribers :
          /\ received[s] \in Seq(Nat)
          /\ \A i \in DOMAIN received[s] : received[s][i] <= Taken
          /\ \A i, j \in DOMAIN received[s] : i < j => received[s][i] <= received[s][j]

\* Whoever is owed an event has it or is still ahead of it.
Ahead(e, s) ==
    \/ \E k \in DOMAIN eventQueue :
          /\ e = Taken + k
          /\ \/ eventQueue[k].type \in EventTypes /\ s \in Subscribed(eventQueue[k].type)
             \/ s \in Subscribed(Wildcard)
    \/ /\ visit # NoVisit /\ e = Taken
       /\ s \in ToSet(visit.ahead) \/ (~visit.any /\ s \in Subscribed(Wildcard))
OwedInv ==
    /\ owed \in [1 .. published -> SUBSET Subscribers]
    /\ \A e \in 1 .. published : \A s \in owed[e] : e \in ToSet(received[s]) \/ Ahead(e, s)

HistoryInv ==
    /\ asked = [e \in 1 .. published |-> asked[e]]
    /\ eventHistory \in Seq(PublishedEvents) /\ Len(eventHistory) <= published
    /\ \A i \in DOMAIN eventHistory :
          /\ eventHistory[i].id = published - Len(eventHistory) + i
          /\ asked[eventHistory[i].id] \subseteq eventHistory[i].data

EventsInv == QueueInv /\ ReceivedInv /\ OwedInv /\ HistoryInv

LEMMA EventsInitial ==
    ASSUME EventsInit PROVE EventsInv
<1>1. /\ eventHistory = <<>> /\ asked = <<>> /\ subscribers = [t \in Topics |-> <<>>]
      /\ eventQueue = <<>> /\ processingQueue = FALSE /\ visit = NoVisit /\ published = 0
      /\ owed = <<>> /\ received = [s \in Subscribers |-> <<>>]
  BY DEF EventsInit
<1>2. \A S : <<>> \in Seq(S) /\ Len(<<>>) = 0 /\ DOMAIN <<>> = {} OBVIOUS
<1>3. DOMAIN NoVisit = VisitFields /\ NoVisit.ahead = <<>> BY DEF NoVisit, VisitFields
<1>4. Taken = 0
  <2>1. Len(eventQueue) = 0 BY <1>1, <1>2
  <2>2. published = 0 BY <1>1
  <2> QED BY ONLY <2>1, <2>2 DEF Taken
<1>5. QueueInv BY <1>1, <1>2, <1>3 DEF QueueInv
<1>6. ReceivedInv BY <1>1, <1>2 DEF ReceivedInv
<1>7. 1 .. 0 = {} OBVIOUS
<1>8. OwedInv BY <1>1, <1>7 DEF OwedInv
<1>9. HistoryInv
  <2>1. asked = [e \in 1 .. published |-> asked[e]] BY <1>1, <1>7
  <2> QED BY <1>1, <1>2, <2>1 DEF HistoryInv
<1> QED BY <1>5, <1>6, <1>8, <1>9 DEF EventsInv

LEMMA EventsThen ==
    ASSUME EventsInv PROVE EventsDelivered
<1>1. ASSUME NEW e \in DOMAIN owed, NEW s \in owed[e], ~processingQueue
      PROVE  e \in ToSet(received[s])
  <2>1. eventQueue = <<>> /\ visit = NoVisit BY <1>1 DEF EventsInv, QueueInv
  <2>2. ~Ahead(e, s) BY <2>1 DEF Ahead
  <2> QED BY <1>1, <2>2 DEF EventsInv, OwedInv
<1> QED BY <1>1 DEF EventsInv, ReceivedInv, HistoryInv, EventsDelivered

\* What publish and the delivery do to the queue.
LEMMA PublishQueues ==
    ASSUME QueueInv, NEW d \in Dispatches, publish(d.type, d.data)
    PROVE  \E e \in PublishedEvents :
              /\ e.id = published + 1 /\ e.type = d.type /\ e.data = d.data
              /\ published' = published + 1 /\ Taken' = Taken
              /\ Taken + (Len(eventQueue) + 1) = published + 1
              /\ eventQueue' \in Seq(PublishedEvents) /\ Len(eventQueue') = Len(eventQueue) + 1
              /\ DOMAIN eventQueue' = DOMAIN eventQueue \cup {Len(eventQueue) + 1}
              /\ \A k \in DOMAIN eventQueue : eventQueue'[k] = eventQueue[k]
              /\ eventQueue'[Len(eventQueue) + 1] = e
<1> DEFINE e == [id |-> published + 1, type |-> d.type, data |-> d.data]
           q == Append(eventQueue, e)
<1>0. published \in Nat /\ eventQueue \in Seq(PublishedEvents) /\ Len(eventQueue) <= published
  BY DEF QueueInv
<1>1. published' = published + 1 /\ eventQueue' = q BY DEF publish, Queued
<1>2. /\ e \in PublishedEvents /\ e.id = published + 1 /\ e.type = d.type /\ e.data = d.data
  BY <1>0 DEF PublishedEvents
<1> HIDE DEF e
<1>3. /\ q \in Seq(PublishedEvents) /\ Len(q) = Len(eventQueue) + 1
      /\ DOMAIN q = DOMAIN eventQueue \cup {Len(eventQueue) + 1}
      /\ \A k \in DOMAIN eventQueue : q[k] = eventQueue[k]
      /\ q[Len(eventQueue) + 1] = e
  BY <1>0, <1>2
<1> HIDE DEF q
<1>4. Taken' = Taken /\ Taken + (Len(eventQueue) + 1) = published + 1
  <2>1. Taken' = published' - Len(eventQueue') BY DEF Taken
  <2>2. published' = published + 1 /\ Len(eventQueue') = Len(eventQueue) + 1 BY <1>1, <1>3
  <2>3. published \in Nat /\ Len(eventQueue) \in Nat BY <1>0
  <2> QED BY ONLY <2>1, <2>2, <2>3 DEF Taken
<1> QED BY <1>1, <1>2, <1>3, <1>4

LEMMA TakeQueues ==
    ASSUME QueueInv, TakeEvent
    PROVE  /\ processingQueue /\ visit = NoVisit /\ 1 \in DOMAIN eventQueue
           /\ visit' = Walk(eventQueue[1], FALSE) /\ eventQueue[1] \in PublishedEvents
           /\ UNCHANGED <<published, processingQueue, subscribers, owed, received, eventHistory, asked>>
           /\ eventQueue' \in Seq(PublishedEvents) /\ DOMAIN eventQueue' = 1 .. Len(eventQueue) - 1
           /\ Len(eventQueue') = Len(eventQueue) - 1
           /\ \A k \in 1 .. Len(eventQueue) - 1 : eventQueue'[k] = eventQueue[k + 1]
           /\ Taken' = Taken + 1
<1>0. /\ published \in Nat /\ eventQueue \in Seq(PublishedEvents)
      /\ Len(eventQueue) <= published /\ Len(eventQueue) \in Nat
  BY DEF QueueInv
<1>1. /\ processingQueue /\ visit = NoVisit /\ eventQueue # <<>>
      /\ visit' = Walk(Head(eventQueue), FALSE) /\ eventQueue' = Tail(eventQueue)
      /\ UNCHANGED <<published, processingQueue, subscribers, owed, received, eventHistory, asked>>
  BY DEF TakeEvent, keptVars
<1>2. /\ Head(eventQueue) = eventQueue[1] /\ 1 \in DOMAIN eventQueue
      /\ eventQueue[1] \in PublishedEvents
      /\ eventQueue' \in Seq(PublishedEvents) /\ Len(eventQueue') = Len(eventQueue) - 1
      /\ DOMAIN eventQueue' = 1 .. Len(eventQueue) - 1
      /\ \A k \in 1 .. Len(eventQueue) - 1 : eventQueue'[k] = eventQueue[k + 1]
  BY <1>0, <1>1
<1>3. Taken' = Taken + 1
  <2>1. Taken' = published' - Len(eventQueue') BY DEF Taken
  <2>2. published' = published /\ Len(eventQueue') = Len(eventQueue) - 1 BY <1>1, <1>2
  <2>3. published \in Nat /\ Len(eventQueue) \in Nat BY <1>0
  <2> QED BY ONLY <2>1, <2>2, <2>3 DEF Taken
<1> QED BY <1>1, <1>2, <1>3

\* Calling a subscriber, or nothing at all, leaves the queue in order.
LEMMA QueueStep ==
    ASSUME QueueInv, [EventsNext]_eventVars PROVE QueueInv'
<1>0. /\ published \in Nat /\ eventQueue \in Seq(PublishedEvents) /\ Len(eventQueue) <= published
      /\ \A k \in DOMAIN eventQueue : eventQueue[k].id = Taken + k
      /\ DOMAIN visit = VisitFields /\ visit.ahead \in Seq(Subscribers)
      /\ visit # NoVisit => visit.event \in PublishedEvents /\ visit.event.id = Taken /\ Taken > 0
      /\ ~processingQueue => eventQueue = <<>> /\ visit = NoVisit
      /\ DOMAIN subscribers = Topics
      /\ \A t \in Topics : subscribers[t] \in Seq(Subscribers)
      /\ Len(eventQueue) \in Nat /\ DOMAIN eventQueue = 1 .. Len(eventQueue)
  BY DEF QueueInv
<1>n. /\ DOMAIN NoVisit = VisitFields /\ NoVisit.ahead = <<>> /\ <<>> \in Seq(Subscribers)
      /\ NoVisit.event.id = 0
  BY DEF NoVisit, VisitFields
<1>t. Taken \in Nat BY <1>0 DEF Taken
\* The walk goes on, over what is ahead of it, or is over.
<1>v. ASSUME UNCHANGED <<published, eventQueue, processingQueue, subscribers>>,
             DOMAIN visit' = VisitFields, visit'.ahead \in Seq(Subscribers),
             visit' # NoVisit => visit # NoVisit /\ visit'.event = visit.event
      PROVE  QueueInv'
  BY <1>0, <1>v DEF QueueInv, Taken
<1>1. ASSUME NEW d \in Dispatches, publish(d.type, d.data) PROVE QueueInv'
  <2>1. processingQueue' = TRUE /\ UNCHANGED <<subscribers, visit>> BY <1>1 DEF publish
  <2>2. PICK e \in PublishedEvents :
              /\ e.id = published + 1 /\ e.type = d.type /\ e.data = d.data
              /\ published' = published + 1 /\ Taken' = Taken
              /\ Taken + (Len(eventQueue) + 1) = published + 1
              /\ eventQueue' \in Seq(PublishedEvents) /\ Len(eventQueue') = Len(eventQueue) + 1
              /\ DOMAIN eventQueue' = DOMAIN eventQueue \cup {Len(eventQueue) + 1}
              /\ \A k \in DOMAIN eventQueue : eventQueue'[k] = eventQueue[k]
              /\ eventQueue'[Len(eventQueue) + 1] = e
    BY <1>1, PublishQueues
  <2>3. \A k \in DOMAIN eventQueue' : eventQueue'[k].id = Taken' + k BY <1>0, <2>2
  <2>4. published' \in Nat /\ Len(eventQueue') <= published' BY <1>0, <2>2
  <2> QED BY <1>0, <2>1, <2>2, <2>3, <2>4 DEF QueueInv
<1>2. ASSUME NEW r \in Registrations, registerEventType(r.type, r.schema) PROVE QueueInv'
  BY <1>0, <1>2, <1>v DEF registerEventType
<1>3. ASSUME NEW t \in Topics, NEW s \in Subscribers, subscribe(t, s) PROVE QueueInv'
  <2>1. /\ subscribers' = [subscribers EXCEPT ![t] = Append(@, s)]
        /\ visit' = IF Walking(t) THEN [visit EXCEPT !.ahead = Append(@, s)] ELSE visit
        /\ UNCHANGED <<published, eventQueue, processingQueue>>
    BY <1>3 DEF subscribe
  <2>2. /\ DOMAIN subscribers' = Topics
        /\ \A x \in Topics : subscribers'[x] \in Seq(Subscribers)
    <3>1. Append(subscribers[t], s) \in Seq(Subscribers) BY <1>0
    <3> QED BY <1>0, <2>1, <3>1
  <2>3. /\ DOMAIN visit' = VisitFields /\ visit'.ahead \in Seq(Subscribers)
        /\ visit' # NoVisit => visit # NoVisit /\ visit'.event = visit.event
    <3>1. Append(visit.ahead, s) \in Seq(Subscribers) BY <1>0
    <3>2. Walking(t) => visit # NoVisit BY DEF Walking
    <3> QED BY <1>0, <2>1, <3>1, <3>2 DEF VisitFields
  <2> QED BY <1>0, <2>1, <2>2, <2>3 DEF QueueInv, Taken
<1>4. ASSUME NEW t \in Topics, NEW s \in Subscribers, unsubscribe(t, s) PROVE QueueInv'
  <2>1. /\ subscribers' = [subscribers EXCEPT ![t] = Deleted(@, s)]
        /\ visit' = IF Walking(t)
                    THEN [visit EXCEPT !.ahead = Deleted(@, s),
                                       !.registered = subscribers'[t] # <<>>]
                    ELSE visit
        /\ UNCHANGED <<published, eventQueue, processingQueue>>
    BY <1>4 DEF unsubscribe
  <2>2. /\ DOMAIN subscribers' = Topics
        /\ \A x \in Topics : subscribers'[x] \in Seq(Subscribers)
    <3>1. Deleted(subscribers[t], s) \in Seq(Subscribers) BY <1>0, DeletedIs
    <3> QED BY <1>0, <2>1, <3>1
  <2>3. /\ DOMAIN visit' = VisitFields /\ visit'.ahead \in Seq(Subscribers)
        /\ visit' # NoVisit => visit # NoVisit /\ visit'.event = visit.event
    <3>1. Deleted(visit.ahead, s) \in Seq(Subscribers) BY <1>0, DeletedIs
    <3>2. Walking(t) => visit # NoVisit BY DEF Walking
    <3> QED BY <1>0, <2>1, <3>1, <3>2 DEF VisitFields
  <2> QED BY <1>0, <2>1, <2>2, <2>3 DEF QueueInv, Taken
<1>5. ASSUME clearHistory PROVE QueueInv' BY <1>0, <1>5, <1>v DEF clearHistory
<1>6. ASSUME clearSubscribers PROVE QueueInv'
  <2>1. /\ subscribers' = [x \in Topics |-> <<>>]
        /\ visit' = IF visit = NoVisit THEN NoVisit ELSE [visit EXCEPT !.registered = FALSE]
        /\ UNCHANGED <<published, eventQueue, processingQueue>>
    BY <1>6 DEF clearSubscribers
  <2>2. /\ DOMAIN visit' = VisitFields /\ visit'.ahead \in Seq(Subscribers)
        /\ visit' # NoVisit => visit # NoVisit /\ visit'.event = visit.event
    BY <1>0, <1>n, <2>1 DEF VisitFields
  <2>3. /\ DOMAIN subscribers' = Topics
        /\ \A x \in Topics : subscribers'[x] \in Seq(Subscribers)
    BY <1>n, <2>1
  <2> QED BY <1>0, <2>1, <2>2, <2>3 DEF QueueInv, Taken
<1>7. ASSUME TakeEvent PROVE QueueInv'
  <2>1. /\ processingQueue /\ 1 \in DOMAIN eventQueue
        /\ visit' = Walk(eventQueue[1], FALSE) /\ eventQueue[1] \in PublishedEvents
        /\ UNCHANGED <<published, processingQueue, subscribers>>
        /\ eventQueue' \in Seq(PublishedEvents) /\ DOMAIN eventQueue' = 1 .. Len(eventQueue) - 1
        /\ Len(eventQueue') = Len(eventQueue) - 1
        /\ \A k \in 1 .. Len(eventQueue) - 1 : eventQueue'[k] = eventQueue[k + 1]
        /\ Taken' = Taken + 1
    BY <1>7, TakeQueues
  <2> DEFINE e == eventQueue[1]
  <2>2. e \in PublishedEvents /\ e.id = Taken + 1 BY <1>0, <2>1
  <2> HIDE DEF e
  <2>3. /\ DOMAIN Walk(e, FALSE) = VisitFields /\ Walk(e, FALSE).event = e
        /\ Walk(e, FALSE).ahead \in Seq(Subscribers)
    BY <1>0, <1>n DEF Walk, VisitFields
  <2>4. visit' = Walk(e, FALSE) BY <2>1 DEF e
  <2>5. ASSUME NEW k \in DOMAIN eventQueue' PROVE eventQueue'[k].id = Taken' + k
    <3>1. k \in 1 .. Len(eventQueue) - 1 /\ k + 1 \in DOMAIN eventQueue BY <1>0, <2>1
    <3>2. eventQueue'[k].id = Taken + (k + 1) BY <1>0, <2>1, <3>1
    <3>3. Taken' = Taken + 1 BY <2>1
    <3> QED BY ONLY <1>t, <3>1, <3>2, <3>3
  <2>6. Taken' > 0 /\ Len(eventQueue') <= published' BY <1>0, <1>t, <2>1
  <2> QED BY <1>0, <2>1, <2>2, <2>3, <2>4, <2>5, <2>6 DEF QueueInv
<1>8. ASSUME invokeCallback PROVE QueueInv'
  <2>1. /\ visit # NoVisit /\ visit.ahead # <<>>
        /\ visit' = [visit EXCEPT !.ahead = Tail(@)]
        /\ UNCHANGED <<published, eventQueue, processingQueue, subscribers>>
    BY <1>8 DEF invokeCallback
  <2>2. Tail(visit.ahead) \in Seq(Subscribers) BY <1>0, <2>1
  <2> QED BY <1>0, <1>v, <2>1, <2>2 DEF VisitFields
<1>9. ASSUME EndWalk PROVE QueueInv'
  <2>1. /\ visit # NoVisit /\ visit' = IF visit.any THEN NoVisit ELSE Walk(visit.event, TRUE)
        /\ UNCHANGED <<published, eventQueue, processingQueue, subscribers>>
    BY <1>9 DEF EndWalk
  <2>2. /\ DOMAIN Walk(visit.event, TRUE) = VisitFields
        /\ Walk(visit.event, TRUE).event = visit.event
        /\ Walk(visit.event, TRUE).ahead \in Seq(Subscribers)
    BY <1>0 DEF Walk, VisitFields, Topics
  <2> QED BY <1>0, <1>n, <1>v, <2>1, <2>2
<1>10. ASSUME EndQueue PROVE QueueInv'
  BY <1>0, <1>10 DEF EndQueue, QueueInv, Taken
<1>11. ASSUME UNCHANGED eventVars PROVE QueueInv'
  BY <1>0, <1>11 DEF eventVars, keptVars, QueueInv, Taken
<1> QED
  BY <1>1, <1>2, <1>3, <1>4, <1>5, <1>6, <1>7, <1>8, <1>9, <1>10, <1>11 DEF EventsNext

\* Only a call adds to what a subscriber got, the event being delivered, which is the
\* last one taken from the queue.
LEMMA ReceivedStep ==
    ASSUME QueueInv, ReceivedInv, [EventsNext]_eventVars PROVE ReceivedInv'
<1>0. /\ published \in Nat /\ eventQueue \in Seq(PublishedEvents)
      /\ DOMAIN received = Subscribers
      /\ \A s \in Subscribers :
            /\ received[s] \in Seq(Nat)
            /\ \A i \in DOMAIN received[s] : received[s][i] <= Taken
            /\ \A i, j \in DOMAIN received[s] : i < j => received[s][i] <= received[s][j]
  BY DEF QueueInv, ReceivedInv
<1>t. Taken \in Nat BY DEF QueueInv, Taken
<1>k. ASSUME received' = received, Taken' = Taken \/ Taken' = Taken + 1 PROVE ReceivedInv'
  <2>1. ASSUME NEW s \in Subscribers, NEW i \in DOMAIN received[s]
        PROVE  received[s][i] <= Taken'
    <3>1. received[s][i] \in Nat /\ received[s][i] <= Taken BY <1>0
    <3> QED BY ONLY <1>k, <1>t, <3>1
  <2> QED BY <1>0, <1>k, <2>1 DEF ReceivedInv
<1>1. ASSUME NEW d \in Dispatches, publish(d.type, d.data) PROVE ReceivedInv'
  <2>1. Taken' = Taken BY <1>1, PublishQueues
  <2> QED BY <1>1, <1>k, <2>1 DEF publish
<1>2. ASSUME TakeEvent PROVE ReceivedInv'
  <2>1. Taken' = Taken + 1 /\ received' = received BY <1>2, TakeQueues
  <2> QED BY <1>k, <2>1
<1>3. ASSUME invokeCallback PROVE ReceivedInv'
  <2> DEFINE s == Head(visit.ahead)
             e == visit.event.id
             got == Append(received[s], e)
  <2>1. /\ visit # NoVisit /\ visit.ahead # <<>> /\ visit.ahead \in Seq(Subscribers)
        /\ received' = [received EXCEPT ![s] = got]
        /\ UNCHANGED <<published, eventQueue>>
    BY <1>3 DEF invokeCallback, QueueInv
  <2>2. s \in Subscribers BY <2>1
  <2>3. e = Taken BY <2>1 DEF QueueInv
  <2>4. Taken' = Taken BY <2>1 DEF Taken
  <2> HIDE DEF s, e
  <2>5. /\ got \in Seq(Nat) /\ DOMAIN got = DOMAIN received[s] \cup {Len(received[s]) + 1}
        /\ \A i \in DOMAIN received[s] : got[i] = received[s][i]
        /\ got[Len(received[s]) + 1] = Taken
    BY <1>0, <1>t, <2>2, <2>3
  <2>6. DOMAIN received[s] = 1 .. Len(received[s]) /\ Len(received[s]) \in Nat
    BY <1>0, <2>2
  <2> HIDE DEF got
  <2>7. \A i \in DOMAIN got : got[i] <= Taken BY <1>0, <1>t, <2>2, <2>5
  <2>8. ASSUME NEW i \in DOMAIN got, NEW j \in DOMAIN got, i < j PROVE got[i] <= got[j]
    <3>1. CASE j = Len(received[s]) + 1 BY <2>5, <2>7, <3>1
    <3>2. CASE j # Len(received[s]) + 1
      <4>1. j \in DOMAIN received[s] BY <2>5, <3>2
      <4>2. i \in DOMAIN received[s] BY <2>5, <2>6, <2>8, <4>1
      <4> QED BY <1>0, <2>2, <2>5, <2>8, <4>1, <4>2
    <3> QED BY <3>1, <3>2
  <2>9. DOMAIN received' = Subscribers /\ received'[s] = got
        /\ \A x \in Subscribers : x # s => received'[x] = received[x]
    BY <1>0, <2>1, <2>2
  <2> QED BY <1>0, <2>4, <2>5, <2>7, <2>8, <2>9 DEF ReceivedInv
<1>4. CASE ~invokeCallback /\ ~TakeEvent /\ ~(\E d \in Dispatches : publish(d.type, d.data))
  <2>1. UNCHANGED <<received, published, eventQueue>>
    BY <1>4 DEF EventsNext, eventVars, registerEventType, subscribe, unsubscribe,
                clearHistory, clearSubscribers, EndWalk, EndQueue, keptVars
  <2> QED BY <1>k, <2>1 DEF Taken
<1> QED BY <1>1, <1>2, <1>3, <1>4

\* The history has the latest events, with what was asked of them then.
LEMMA HistoryStep ==
    ASSUME EventsAssumption, QueueInv, HistoryInv, [EventsNext]_eventVars PROVE HistoryInv'
<1>0. /\ published \in Nat /\ asked = [e \in 1 .. published |-> asked[e]]
      /\ eventHistory \in Seq(PublishedEvents) /\ Len(eventHistory) <= published
      /\ \A i \in DOMAIN eventHistory :
            /\ eventHistory[i].id = published - Len(eventHistory) + i
            /\ asked[eventHistory[i].id] \subseteq eventHistory[i].data
      /\ DOMAIN eventHistory = 1 .. Len(eventHistory) /\ Len(eventHistory) \in Nat
  <2>1. /\ published \in Nat /\ asked = [e \in 1 .. published |-> asked[e]]
        /\ eventHistory \in Seq(PublishedEvents) /\ Len(eventHistory) <= published
    BY DEF QueueInv, HistoryInv
  <2>2. \A i \in DOMAIN eventHistory :
            /\ eventHistory[i].id = published - Len(eventHistory) + i
            /\ asked[eventHistory[i].id] \subseteq eventHistory[i].data
    BY DEF HistoryInv
  <2> QED BY <2>1, <2>2
<1>1. ASSUME NEW d \in Dispatches, publish(d.type, d.data) PROVE HistoryInv'
  <2> DEFINE e == [id |-> published + 1, type |-> d.type, data |-> d.data]
             h == Append(eventHistory, e)
             m == published + 1
             n == Len(eventHistory)
  <2>1. /\ published' = m /\ asked' = Append(asked, Asked(d.type)) /\ Asked(d.type) \subseteq d.data
        /\ eventHistory' = IF Len(h) > maxHistorySize THEN Tail(h) ELSE h
    BY <1>1 DEF publish, validateEventData
  <2>2. e \in PublishedEvents /\ e.id = m /\ e.data = d.data BY <1>0 DEF PublishedEvents
  <2> HIDE DEF e
  <2>3. /\ h \in Seq(PublishedEvents) /\ Len(h) = n + 1 /\ DOMAIN h = 1 .. n + 1
        /\ \A i \in DOMAIN eventHistory : h[i] = eventHistory[i]
        /\ h[n + 1] = e
    BY <1>0, <2>2
  <2>4. /\ asked' = [k \in 1 .. m |-> asked'[k]]
        /\ \A k \in 1 .. published : asked'[k] = asked[k]
        /\ asked'[m] = Asked(d.type)
    <3> DEFINE S == {asked[k] : k \in 1 .. published} \cup {Asked(d.type)}
    <3>1. \A k \in 1 .. published : asked[k] \in S OBVIOUS
    <3>2. Asked(d.type) \in S OBVIOUS
    <3> HIDE DEF S
    <3>3. asked \in [1 .. published -> S] BY ONLY <1>0, <3>1
    <3>4. asked \in Seq(S) /\ Len(asked) = published BY ONLY <1>0, <3>3
    <3> QED BY ONLY <1>0, <2>1, <3>2, <3>4
  <2> HIDE DEF h
  <2>5. ASSUME NEW i \in 1 .. n + 1
        PROVE  /\ h[i].id = m - (n + 1) + i /\ asked'[h[i].id] \subseteq h[i].data
    <3>1. CASE i = n + 1
      <4>1. h[i] = e /\ m - (n + 1) + i = m BY <1>0, <2>3, <3>1
      <4> QED BY <2>1, <2>2, <2>4, <4>1
    <3>2. CASE i \in 1 .. n
      <4>1. h[i] = eventHistory[i] /\ i \in DOMAIN eventHistory BY <1>0, <2>3, <3>2
      <4>2. /\ eventHistory[i].id = published - n + i
            /\ asked[eventHistory[i].id] \subseteq eventHistory[i].data
        BY <1>0, <4>1
      <4>3. published - n + i = m - (n + 1) + i /\ published - n + i \in 1 .. published
        BY ONLY <1>0, <3>2
      <4> QED BY <2>4, <4>1, <4>2, <4>3
    <3> QED BY ONLY <1>0, <3>1, <3>2
  <2>6. CASE ~(Len(h) > maxHistorySize)
    <3>1. eventHistory' = h /\ Len(h) <= m BY <1>0, <2>1, <2>3, <2>6
    <3> QED BY <1>0, <2>1, <2>3, <2>4, <2>5, <3>1 DEF HistoryInv
  <2>7. CASE Len(h) > maxHistorySize
    <3> DEFINE r == Tail(h)
    <3>1. /\ r \in Seq(PublishedEvents) /\ Len(r) = n /\ DOMAIN r = 1 .. n
          /\ \A i \in 1 .. n : r[i] = h[i + 1]
      BY <1>0, <2>3
    <3> HIDE DEF r
    <3>2. ASSUME NEW i \in 1 .. n
          PROVE  r[i].id = m - n + i /\ asked'[r[i].id] \subseteq r[i].data
      <4>1. i + 1 \in 1 .. n + 1 /\ m - (n + 1) + (i + 1) = m - n + i
        BY ONLY <1>0
      <4>2. r[i] = h[i + 1] BY <3>1
      <4> QED BY <2>5, <4>1, <4>2
    <3>3. n <= m BY <1>0
    <3>4. eventHistory' = r BY <2>1, <2>7 DEF r
    <3> QED BY <2>1, <2>4, <3>1, <3>2, <3>3, <3>4 DEF HistoryInv
  <2> QED BY <2>6, <2>7
<1>2. ASSUME clearHistory PROVE HistoryInv'
  <2>1. eventHistory' = <<>> /\ published' = published /\ asked' = asked
    BY <1>2 DEF clearHistory
  <2>2. <<>> \in Seq(PublishedEvents) /\ Len(<<>>) = 0 /\ DOMAIN <<>> = {} OBVIOUS
  <2> QED BY <1>0, <2>1, <2>2 DEF HistoryInv
<1>3. CASE ~clearHistory /\ ~(\E d \in Dispatches : publish(d.type, d.data))
  <2>1. UNCHANGED <<published, eventHistory, asked>>
    BY <1>3 DEF EventsNext, eventVars, registerEventType, subscribe, unsubscribe,
                clearSubscribers, TakeEvent, invokeCallback, EndWalk, EndQueue, keptVars
  <2> QED BY <1>0, <2>1 DEF HistoryInv
<1> QED BY <1>1, <1>2, <1>3

\* Whoever is owed an event keeps it ahead until called: the queue keeps its order, a
\* map that is walked loses only who leaves, and the walk over '*' comes after the other.
LEMMA OwedStep ==
    ASSUME EventsAssumption, QueueInv, ReceivedInv, OwedInv, [EventsNext]_eventVars
    PROVE  OwedInv'
<1>0. /\ published \in Nat /\ owed \in [1 .. published -> SUBSET Subscribers]
      /\ \A e \in 1 .. published : \A s \in owed[e] : e \in ToSet(received[s]) \/ Ahead(e, s)
      /\ \A t \in Topics : subscribers[t] \in Seq(Subscribers)
      /\ DOMAIN subscribers = Topics /\ Wildcard \in Topics /\ EventTypes \subseteq Topics
      /\ DOMAIN visit = VisitFields /\ visit.ahead \in Seq(Subscribers)
      /\ Taken \in Nat
  BY DEF OwedInv, QueueInv, Taken, Topics
\* An event is one's own: nobody is called with that of NoVisit.
<1>n. /\ visit # NoVisit => visit.event.id > 0
      /\ \A v : v.event.id > 0 => v # NoVisit
  <2>1. NoVisit.event.id = 0 BY DEF NoVisit
  <2>2. visit # NoVisit => visit.event.id > 0 BY DEF QueueInv
  <2> QED BY <2>1, <2>2
<1>g. ASSUME published' = published, owed' \in [1 .. published -> SUBSET Subscribers],
             \A e \in 1 .. published : owed'[e] \subseteq owed[e],
             \A s \in Subscribers : ToSet(received[s]) \subseteq ToSet(received'[s]),
             \A e \in 1 .. published : \A s \in owed'[e] :
                 Ahead(e, s) => e \in ToSet(received'[s]) \/ Ahead(e, s)'
      PROVE  OwedInv'
  <2>1. ASSUME NEW e \in 1 .. published, NEW s \in owed'[e]
        PROVE  e \in ToSet(received'[s]) \/ Ahead(e, s)'
    <3>1. s \in owed[e] /\ s \in Subscribers BY <1>g
    <3>2. e \in ToSet(received[s]) \/ Ahead(e, s) BY <1>0, <3>1
    <3> QED BY <1>g, <3>1, <3>2
  <2> QED BY <1>g, <2>1 DEF OwedInv
<1>k. ASSUME UNCHANGED <<published, owed, received>>,
             \A e \in 1 .. published : \A s \in owed[e] : Ahead(e, s) => Ahead(e, s)'
      PROVE  OwedInv'
  BY <1>0, <1>g, <1>k
<1>1. ASSUME NEW d \in Dispatches, publish(d.type, d.data) PROVE OwedInv'
  <2> DEFINE new == (IF d.type \in EventTypes THEN Subscribed(d.type) ELSE {}) \cup Subscribed(Wildcard)
             n == Len(eventQueue) + 1
             m == published + 1
  <2>1. owed' = Append(owed, new) /\ UNCHANGED <<subscribers, visit, received>> /\ published' = m
    BY <1>1 DEF publish
  <2>2. PICK ev \in PublishedEvents :
              /\ ev.type = d.type /\ Taken' = Taken /\ Taken + n = m
              /\ DOMAIN eventQueue' = DOMAIN eventQueue \cup {n}
              /\ \A k \in DOMAIN eventQueue : eventQueue'[k] = eventQueue[k]
              /\ eventQueue'[n] = ev
    BY <1>1, PublishQueues
  <2>3. new \subseteq Subscribers
    <3>1. \A t \in Topics : Subscribed(t) \subseteq Subscribers BY <1>0 DEF Subscribed, ToSet
    <3> QED BY <1>0, <3>1
  <2>4. /\ owed' \in [1 .. m -> SUBSET Subscribers]
        /\ \A e \in 1 .. published : owed'[e] = owed[e]
        /\ owed'[m] = new
    <3> HIDE DEF new
    <3>1. owed \in Seq(SUBSET Subscribers) /\ Len(owed) = published BY <1>0
    <3>2. new \in SUBSET Subscribers BY <2>3
    <3>3. published \in Nat /\ owed' = Append(owed, new) BY <1>0, <2>1
    <3>4. /\ owed' \in Seq(SUBSET Subscribers) /\ Len(owed') = published + 1
          /\ \A e \in 1 .. published : owed'[e] = owed[e]
          /\ owed'[published + 1] = new
      BY ONLY <3>1, <3>2, <3>3
    <3> DEFINE S == SUBSET Subscribers
    <3>5. owed' \in Seq(S) /\ Len(owed') = published + 1 BY <3>4
    <3> HIDE DEF S
    <3>6. owed' \in [1 .. m -> S]
      <4>1. owed' \in [1 .. Len(owed') -> S] BY <3>5, LenProperties
      <4>2. Len(owed') = m BY <3>5
      <4> QED BY <4>1, <4>2
    <3> QED BY <3>4, <3>6 DEF S
  <2>5. ASSUME NEW e \in 1 .. published, NEW s \in owed[e], Ahead(e, s) PROVE Ahead(e, s)'
    <3>1. CASE visit # NoVisit /\ e = Taken
                 /\ (s \in ToSet(visit.ahead) \/ (~visit.any /\ s \in Subscribed(Wildcard)))
      BY <2>1, <2>2, <3>1 DEF Ahead, Subscribed
    <3>2. CASE \E k \in DOMAIN eventQueue :
                  /\ e = Taken + k
                  /\ \/ eventQueue[k].type \in EventTypes /\ s \in Subscribed(eventQueue[k].type)
                     \/ s \in Subscribed(Wildcard)
      <4>1. PICK k \in DOMAIN eventQueue :
                  /\ e = Taken + k
                  /\ \/ eventQueue[k].type \in EventTypes /\ s \in Subscribed(eventQueue[k].type)
                     \/ s \in Subscribed(Wildcard)
        BY <3>2
      <4>2. k \in DOMAIN eventQueue' /\ eventQueue'[k] = eventQueue[k] BY <2>2
      <4> QED BY <2>1, <2>2, <4>1, <4>2 DEF Ahead, Subscribed
    <3> QED BY <2>5, <3>1, <3>2 DEF Ahead
  <2>6. ASSUME NEW e, e = m, NEW s \in new PROVE Ahead(e, s)'
    <3>1. \/ d.type \in EventTypes /\ s \in Subscribed(d.type)
          \/ s \in Subscribed(Wildcard)
      OBVIOUS
    <3> HIDE DEF new, n, m
    <3>2. n \in DOMAIN eventQueue' /\ e = Taken' + n /\ eventQueue'[n].type = d.type BY <2>2, <2>6
    <3>3. \/ eventQueue'[n].type \in EventTypes /\ s \in ToSet(subscribers'[eventQueue'[n].type])
          \/ s \in ToSet(subscribers'[Wildcard])
      BY <2>1, <3>1, <3>2 DEF Subscribed
    <3> QED BY ONLY <3>2, <3>3 DEF Ahead, Subscribed
  <2>7. ASSUME NEW e \in 1 .. m, NEW s \in owed'[e]
        PROVE  e \in ToSet(received'[s]) \/ Ahead(e, s)'
    <3>1. CASE e = m BY <2>4, <2>6, <2>7, <3>1
    <3>2. CASE e \in 1 .. published
      <4>1. s \in owed[e] BY <2>4, <3>2
      <4>2. e \in ToSet(received[s]) \/ Ahead(e, s) BY <1>0, <3>2, <4>1
      <4> QED BY <2>1, <2>5, <3>2, <4>1, <4>2
    <3> QED BY ONLY <1>0, <2>7, <3>1, <3>2
  <2> QED BY <2>1, <2>4, <2>7 DEF OwedInv
<1>2. ASSUME NEW t \in Topics, NEW p \in Subscribers, subscribe(t, p) PROVE OwedInv'
  <2>1. /\ subscribers' = [subscribers EXCEPT ![t] = Append(@, p)]
        /\ visit' = IF Walking(t) THEN [visit EXCEPT !.ahead = Append(@, p)] ELSE visit
        /\ UNCHANGED <<published, eventQueue, owed, received>>
    BY <1>2 DEF subscribe
  <2>2. \A S : \A q \in Seq(S) : \A x \in S : ToSet(q) \subseteq ToSet(Append(q, x))
    <3> TAKE S
    <3> TAKE q \in Seq(S)
    <3> TAKE x \in S
    <3>1. /\ DOMAIN q \subseteq DOMAIN Append(q, x)
          /\ \A k \in DOMAIN q : Append(q, x)[k] = q[k]
      OBVIOUS
    <3> QED BY <3>1 DEF ToSet
  <2>3. \A x \in Topics : Subscribed(x) \subseteq Subscribed(x)'
    <3>1. \A x \in Topics : subscribers'[x] = IF x = t THEN Append(subscribers[t], p) ELSE subscribers[x]
      BY <1>0, <2>1
    <3>2. ToSet(subscribers[t]) \subseteq ToSet(Append(subscribers[t], p)) BY <1>0, <2>2
    <3> QED BY <3>1, <3>2 DEF Subscribed
  <2>4. visit # NoVisit =>
           /\ visit' # NoVisit /\ visit'.any = visit.any
           /\ ToSet(visit.ahead) \subseteq ToSet(visit'.ahead)
    <3>1. ToSet(visit.ahead) \subseteq ToSet(Append(visit.ahead, p)) BY <1>0, <2>2
    <3>2. CASE Walking(t)
      <4>1. visit' = [visit EXCEPT !.ahead = Append(visit.ahead, p)] BY <2>1, <3>2
      <4>2. visit'.any = visit.any /\ visit'.ahead = Append(visit.ahead, p) /\ visit'.event = visit.event
        BY <1>0, <4>1 DEF VisitFields
      <4> QED BY <1>n, <3>1, <4>2
    <3> QED BY <2>1, <3>2
  <2>5. Taken' = Taken BY <2>1 DEF Taken
  <2>6. ASSUME NEW e \in 1 .. published, NEW s \in owed[e], Ahead(e, s) PROVE Ahead(e, s)'
    BY <1>0, <2>1, <2>3, <2>4, <2>5, <2>6 DEF Ahead
  <2> QED BY <1>k, <2>1, <2>6
<1>3. ASSUME NEW t \in Topics, NEW p \in Subscribers, unsubscribe(t, p) PROVE OwedInv'
  <2>1. /\ subscribers' = [subscribers EXCEPT ![t] = Deleted(@, p)]
        /\ visit' = IF Walking(t)
                    THEN [visit EXCEPT !.ahead = Deleted(@, p),
                                       !.registered = subscribers'[t] # <<>>]
                    ELSE visit
        /\ owed' = [e \in DOMAIN owed |-> owed[e] \ {p}]
        /\ UNCHANGED <<published, eventQueue, received>>
    BY <1>3 DEF unsubscribe
  <2>2. \A x \in Topics : Subscribed(x) \ {p} \subseteq Subscribed(x)'
    <3>1. \A x \in Topics : subscribers'[x] = IF x = t THEN Deleted(subscribers[t], p) ELSE subscribers[x]
      BY <1>0, <2>1
    <3>2. ToSet(subscribers[t]) \ {p} \subseteq ToSet(Deleted(subscribers[t], p)) BY <1>0, DeletedIs
    <3> QED BY <3>1, <3>2 DEF Subscribed
  <2>3. visit # NoVisit =>
           /\ visit' # NoVisit /\ visit'.any = visit.any
           /\ ToSet(visit.ahead) \ {p} \subseteq ToSet(visit'.ahead)
    <3>1. ToSet(visit.ahead) \ {p} \subseteq ToSet(Deleted(visit.ahead, p)) BY <1>0, DeletedIs
    <3>2. CASE Walking(t)
      <4>1. visit' = [visit EXCEPT !.ahead = Deleted(visit.ahead, p),
                                   !.registered = subscribers'[t] # <<>>]
        BY <2>1, <3>2
      <4>2. visit'.any = visit.any /\ visit'.ahead = Deleted(visit.ahead, p) /\ visit'.event = visit.event
        BY <1>0, <4>1 DEF VisitFields
      <4> QED BY <1>n, <3>1, <4>2
    <3> QED BY <2>1, <3>2
  <2>4. Taken' = Taken BY <2>1 DEF Taken
  <2>5. ASSUME NEW e \in 1 .. published, NEW s \in owed'[e], Ahead(e, s) PROVE Ahead(e, s)'
    <3>1. s # p BY <1>0, <2>1
    <3> QED BY <1>0, <2>1, <2>2, <2>3, <2>4, <2>5, <3>1 DEF Ahead
  <2> QED BY <1>0, <1>g, <2>1, <2>5
<1>4. ASSUME clearSubscribers PROVE OwedInv'
  <2>1. owed' = [e \in DOMAIN owed |-> {}] /\ UNCHANGED <<published, received>>
    BY <1>4 DEF clearSubscribers
  <2> QED BY <1>0, <1>g, <2>1
<1>5. ASSUME TakeEvent PROVE OwedInv'
  <2> DEFINE ev == eventQueue[1]
  <2>1. /\ visit = NoVisit /\ visit' = Walk(ev, FALSE)
        /\ UNCHANGED <<published, subscribers, owed, received>>
        /\ DOMAIN eventQueue' = 1 .. Len(eventQueue) - 1
        /\ \A k \in 1 .. Len(eventQueue) - 1 : eventQueue'[k] = eventQueue[k + 1]
        /\ Taken' = Taken + 1 /\ 1 \in DOMAIN eventQueue
    BY <1>5, TakeQueues
  <2>2. ev.id = Taken + 1 /\ DOMAIN eventQueue = 1 .. Len(eventQueue) /\ Len(eventQueue) \in Nat
    BY <2>1 DEF QueueInv
  <2> HIDE DEF ev
  <2>3. /\ visit'.event = ev /\ visit'.any = FALSE
        /\ visit'.ahead = IF ev.type \in Topics THEN subscribers[ev.type] ELSE <<>>
    BY <2>1 DEF Walk
  <2>4. visit' # NoVisit BY <1>0, <1>n, <2>2, <2>3
  <2>5. ASSUME NEW e \in 1 .. published, NEW s \in owed[e], Ahead(e, s) PROVE Ahead(e, s)'
    <3>1. PICK k \in DOMAIN eventQueue :
              /\ e = Taken + k
              /\ \/ eventQueue[k].type \in EventTypes /\ s \in Subscribed(eventQueue[k].type)
                 \/ s \in Subscribed(Wildcard)
      BY <2>1, <2>5 DEF Ahead
    <3>2. CASE k = 1
      <4>1. s \in ToSet(visit'.ahead) \/ (~visit'.any /\ s \in Subscribed(Wildcard)')
        BY <1>0, <2>1, <2>3, <3>1, <3>2 DEF Subscribed, ev
      <4>2. e = Taken' BY <2>1, <3>1, <3>2
      <4> QED BY <2>4, <4>1, <4>2 DEF Ahead
    <3>3. CASE k # 1
      <4> DEFINE i == k - 1
      <4>1. i \in 1 .. Len(eventQueue) - 1 /\ i + 1 = k BY ONLY <2>2, <3>3
      <4>2. e = Taken' + i
        <5>1. Taken' = Taken + 1 /\ e = Taken + k /\ Taken \in Nat /\ k \in Int BY <1>0, <2>1, <2>2, <3>1
        <5> QED BY ONLY <5>1
      <4> HIDE DEF i
      <4>3. i \in DOMAIN eventQueue' /\ eventQueue'[i] = eventQueue[k] BY <2>1, <4>1
      <4> QED BY <2>1, <3>1, <4>2, <4>3 DEF Ahead, Subscribed
    <3> QED BY <3>2, <3>3
  <2> QED BY <1>k, <2>1, <2>5
<1>6. ASSUME invokeCallback PROVE OwedInv'
  <2> DEFINE p == Head(visit.ahead)
             id == visit.event.id
             got == Append(received[p], id)
             rest == Tail(visit.ahead)
  <2>1. /\ visit # NoVisit /\ visit.ahead # <<>>
        /\ received' = [received EXCEPT ![p] = got]
        /\ visit' = [visit EXCEPT !.ahead = rest]
        /\ UNCHANGED <<published, eventQueue, subscribers, owed>>
    BY <1>6 DEF invokeCallback
  <2>2. /\ p \in Subscribers /\ rest \in Seq(Subscribers)
        /\ visit.ahead[1] = p /\ DOMAIN rest = 1 .. Len(visit.ahead) - 1
        /\ \A k \in 1 .. Len(visit.ahead) - 1 : rest[k] = visit.ahead[k + 1]
    BY <1>0, <2>1
  <2>3. id = Taken /\ DOMAIN received = Subscribers /\ received[p] \in Seq(Nat)
    BY <2>1, <2>2 DEF QueueInv, ReceivedInv
  <2> HIDE DEF p, id, rest
  <2>4. /\ DOMAIN got = DOMAIN received[p] \cup {Len(received[p]) + 1}
        /\ \A i \in DOMAIN received[p] : got[i] = received[p][i]
        /\ got[Len(received[p]) + 1] = Taken
    BY <1>0, <2>3
  <2> HIDE DEF got
  <2>5. ToSet(received[p]) \subseteq ToSet(got) /\ Taken \in ToSet(got) BY <2>4 DEF ToSet
  <2>6. received'[p] = got /\ \A s \in Subscribers : s # p => received'[s] = received[s]
    BY <2>1, <2>2, <2>3
  <2>7. \A s \in ToSet(visit.ahead) : s = p \/ s \in ToSet(rest)
    <3> SUFFICES ASSUME NEW k \in DOMAIN visit.ahead
                 PROVE  visit.ahead[k] = p \/ visit.ahead[k] \in ToSet(rest)
      BY DEF ToSet
    <3>1. CASE k = 1 BY <2>2, <3>1
    <3>2. CASE k # 1
      <4> DEFINE i == k - 1
                 m == Len(visit.ahead)
      <4>1. m \in Nat /\ k \in 1 .. m BY <1>0
      <4>2. i \in 1 .. m - 1 /\ i + 1 = k BY ONLY <3>2, <4>1
      <4>3. i \in DOMAIN rest /\ rest[i] = visit.ahead[i + 1] BY <2>2, <4>2
      <4> QED BY <4>2, <4>3 DEF ToSet
    <3> QED BY <3>1, <3>2
  <2>8. visit' # NoVisit /\ visit'.any = visit.any /\ visit'.ahead = rest
    <3>1. visit'.any = visit.any /\ visit'.ahead = rest /\ visit'.event = visit.event
      BY <1>0, <2>1 DEF VisitFields
    <3> QED BY <1>n, <2>1, <3>1
  <2>9. Taken' = Taken BY <2>1 DEF Taken
  <2>10. ASSUME NEW e \in 1 .. published, NEW s \in owed[e], Ahead(e, s)
         PROVE  e \in ToSet(received'[s]) \/ Ahead(e, s)'
    <3>1. CASE s = p /\ e = Taken BY <2>5, <2>6, <3>1
    <3>2. CASE ~(s = p /\ e = Taken) BY <2>1, <2>7, <2>8, <2>9, <2>10, <3>2 DEF Ahead, Subscribed
    <3> QED BY <3>1, <3>2
  <2>11. \A s \in Subscribers : ToSet(received[s]) \subseteq ToSet(received'[s]) BY <2>5, <2>6
  <2> QED BY <1>0, <1>g, <2>1, <2>10, <2>11
<1>7. ASSUME EndWalk PROVE OwedInv'
  <2>1. /\ visit # NoVisit /\ visit.ahead = <<>>
        /\ visit' = IF visit.any THEN NoVisit ELSE Walk(visit.event, TRUE)
        /\ UNCHANGED <<published, eventQueue, subscribers, owed, received>>
    BY <1>7 DEF EndWalk
  <2>2. Taken' = Taken /\ ToSet(visit.ahead) = {} BY <2>1 DEF Taken, ToSet
  <2>3. CASE visit.any
    <3>1. ASSUME NEW e \in 1 .. published, NEW s \in owed[e], Ahead(e, s) PROVE Ahead(e, s)'
      BY <2>1, <2>2, <2>3, <3>1 DEF Ahead, Subscribed
    <3> QED BY <1>k, <2>1, <3>1
  <2>4. CASE ~visit.any
    <3>1. visit' = Walk(visit.event, TRUE) BY <2>1, <2>4
    <3>2. visit'.event = visit.event /\ visit'.ahead = subscribers[Wildcard] BY <3>1 DEF Walk
    <3>3. visit' # NoVisit BY <1>n, <2>1, <3>2
    <3>4. ASSUME NEW e \in 1 .. published, NEW s \in owed[e], Ahead(e, s) PROVE Ahead(e, s)'
      BY <2>1, <2>2, <3>2, <3>3, <3>4 DEF Ahead, Subscribed
    <3> QED BY <1>k, <2>1, <3>4
  <2> QED BY <2>3, <2>4
<1>8. ASSUME UNCHANGED <<published, eventQueue, visit, subscribers, received, owed>> PROVE OwedInv'
  <2>1. Taken' = Taken BY <1>8 DEF Taken
  <2>2. \A e, s : Ahead(e, s) => Ahead(e, s)' BY <1>8, <2>1 DEF Ahead, Subscribed
  <2> QED BY <1>8, <1>k, <2>2
<1>9. CASE \/ \E r \in Registrations : registerEventType(r.type, r.schema)
           \/ clearHistory \/ EndQueue \/ UNCHANGED eventVars
  BY <1>8, <1>9 DEF registerEventType, clearHistory, EndQueue, eventVars, keptVars
<1> QED BY <1>1, <1>2, <1>3, <1>4, <1>5, <1>6, <1>7, <1>9 DEF EventsNext

LEMMA EventsStep ==
    ASSUME EventsAssumption, EventsInv, [EventsNext]_eventVars PROVE EventsInv'
<1>1. QueueInv' BY QueueStep DEF EventsInv
<1>2. ReceivedInv' BY ReceivedStep DEF EventsInv
<1>3. OwedInv' BY OwedStep DEF EventsInv
<1>4. HistoryInv' BY HistoryStep DEF EventsInv
<1> QED BY <1>1, <1>2, <1>3, <1>4 DEF EventsInv

-----------------------------------------------------------------------------
(* The hooks of the pipeline *)

JobFields == {"at", "txs", "receipts", "applied", "list", "index", "stays", "skips", "called"}

\* A list of plugins has each once.
PluginList(L) ==
    /\ L \in Seq(PipelinePlugins)
    /\ \A k, l \in DOMAIN L : L[k] = L[l] => k = l

\* Who was called by a walk over L that has come to place i.
WalkRight(job, L, i) ==
    \A p \in job.stays :
        /\ p \in ToSet(L)
        /\ \A k \in DOMAIN L :
              L[k] = p => /\ p \in ToSet(job.called) => k <= i
                          /\ ~job.skips /\ k <= i => p \in ToSet(job.called)

CalledOnce(job) ==
    \A p \in job.stays : \A k, l \in DOMAIN job.called :
        job.called[k] = p /\ job.called[l] = p => k = l

HookInv(job, lists) ==
    /\ DOMAIN job = JobFields
    /\ job.list \in 1 .. Len(lists) /\ job.index \in Nat
    /\ job.called \in Seq(PipelinePlugins) /\ CalledOnce(job)
    /\ job.index > 0 => WalkRight(job, lists[job.list], job.index)
    /\ job.at \in Hooks /\ job.index = 0 /\ ~job.skips => job.stays \subseteq ToSet(job.called)

HooksInv ==
    /\ pluginLists \in Seq(Seq(PipelinePlugins)) /\ Len(pluginLists) > 0
    /\ \A n \in DOMAIN pluginLists : PluginList(pluginLists[n])
    /\ DOMAIN jobs = ExecutionJobs
    /\ \A j \in ExecutionJobs : HookInv(jobs[j], pluginLists)

\* The next call of a walk.
LEMMA CallIsRight ==
    ASSUME NEW job, DOMAIN job = JobFields, job.called \in Seq(PipelinePlugins),
           CalledOnce(job), NEW L, PluginList(L), NEW i \in Nat, WalkRight(job, L, i),
           NEW lists, job.list \in 1 .. Len(lists), lists[job.list] = L
    PROVE  HookInv(CallAt(job, L, i + 1), lists)
<1> DEFINE k == CallAt(job, L, i + 1)
           n == Len(L)
<1>0. n \in Nat /\ DOMAIN L = 1 .. n /\ L \in Seq(PipelinePlugins)
      /\ \A x, y \in DOMAIN L : L[x] = L[y] => x = y
  BY DEF PluginList
<1>1. CASE i + 1 > n
  <2>1. k = [job EXCEPT !.index = 0] BY <1>1 DEF CallAt
  <2>2. /\ DOMAIN k = JobFields /\ k.index = 0 /\ k.list = job.list /\ k.called = job.called /\ k.stays = job.stays
        /\ k.skips = job.skips
    BY <2>1 DEF JobFields
  <2>3. ASSUME ~job.skips, NEW p \in job.stays PROVE p \in ToSet(job.called)
    <3>1. PICK x \in DOMAIN L : L[x] = p BY DEF WalkRight, ToSet
    <3>2. x <= i BY <1>0, <1>1, <3>1
    <3> QED BY <2>3, <3>1, <3>2 DEF WalkRight
  <2> HIDE DEF k
  <2>4. CalledOnce(k) BY <2>2 DEF CalledOnce
  <2>5. ~k.skips => k.stays \subseteq ToSet(k.called) BY <2>2, <2>3
  <2>6. k.index \in Nat /\ ~(k.index > 0) BY <2>2
  <2> QED BY <2>2, <2>4, <2>5, <2>6 DEF HookInv, k
<1>2. CASE ~(i + 1 > n)
  <2> DEFINE q == L[i + 1]
             c == Append(job.called, q)
             m == Len(job.called)
  <2>1. k = [job EXCEPT !.index = i + 1, !.called = c]
    <3>1. CallAt(job, L, i + 1) = [job EXCEPT !.index = i + 1, !.called = Append(@, L[i + 1])]
      BY <1>2 DEF CallAt
    <3> QED BY <3>1
  <2>2. /\ DOMAIN k = JobFields /\ k.index = i + 1 /\ k.list = job.list /\ k.called = c /\ k.stays = job.stays
        /\ k.skips = job.skips
    BY <2>1 DEF JobFields
  <2>3. i + 1 \in DOMAIN L /\ q \in PipelinePlugins BY <1>0, <1>2
  <2> HIDE DEF k, q
  <2>4. /\ c \in Seq(PipelinePlugins) /\ DOMAIN c = DOMAIN job.called \cup {m + 1}
        /\ m + 1 \notin DOMAIN job.called
        /\ \A x \in DOMAIN job.called : c[x] = job.called[x]
        /\ c[m + 1] = q
    BY <2>3
  <2> HIDE DEF c, m
  <2>5. \A p : p \in ToSet(c) <=> p \in ToSet(job.called) \/ p = q BY <2>4 DEF ToSet
\* The one called now was not called before: it has no other place.
  <2>6. q \in job.stays => q \notin ToSet(job.called)
    <3> SUFFICES ASSUME q \in job.stays, q \in ToSet(job.called) PROVE FALSE OBVIOUS
    <3>1. i + 1 <= i BY <2>3 DEF WalkRight, q
    <3> QED BY ONLY <3>1, i \in Nat
  <2>7. CalledOnce(k)
    <3> SUFFICES ASSUME NEW p \in job.stays, NEW x \in DOMAIN c, NEW y \in DOMAIN c,
                        c[x] = p, c[y] = p
                 PROVE  x = y
      BY <2>2 DEF CalledOnce
    <3>1. CASE x \in DOMAIN job.called /\ y \in DOMAIN job.called
      BY <2>4, <3>1 DEF CalledOnce
    <3>2. CASE x = m + 1 /\ y = m + 1 BY <3>2
    <3>3. CASE p = q
      <4>1. x \notin DOMAIN job.called /\ y \notin DOMAIN job.called
        BY <2>4, <2>6, <3>3 DEF ToSet
      <4> QED BY <2>4, <4>1
    <3> QED BY <2>4, <3>1, <3>2, <3>3
  <2>8. WalkRight(k, L, i + 1)
    <3> SUFFICES ASSUME NEW p \in job.stays, NEW x \in DOMAIN L, L[x] = p
                 PROVE  /\ p \in ToSet(c) => x <= i + 1
                        /\ ~job.skips /\ x <= i + 1 => p \in ToSet(c)
      BY <2>2 DEF WalkRight
    <3>1. /\ p \in ToSet(job.called) => x <= i
          /\ ~job.skips /\ x <= i => p \in ToSet(job.called)
      BY DEF WalkRight
    <3>2. p = q <=> x = i + 1 BY <1>0, <2>3 DEF q
    <3>3. x \in Int /\ (x <= i + 1 <=> x <= i \/ x = i + 1) BY <1>0
    <3>4. x <= i => x <= i + 1 BY <3>3
    <3> QED BY ONLY <2>5, <3>1, <3>2, <3>3, <3>4
  <2>9. k.index \in Nat /\ k.index > 0 /\ k.index # 0 BY <2>2
  <2> QED BY <2>2, <2>4, <2>7, <2>8, <2>9 DEF HookInv, k
<1> QED BY <1>1, <1>2

\* A hook begins with the plugins of this moment.
LEMMA HookIsRight ==
    ASSUME HooksInv, NEW job, DOMAIN job = JobFields, NEW hook
    PROVE  HookInv(executePlugins(job, hook), pluginLists)
<1> DEFINE k == [job EXCEPT !.at = hook, !.list = Len(pluginLists), !.stays = ToSet(Plugins),
                            !.skips = FALSE, !.called = <<>>]
           n == Len(pluginLists)
<1>1. /\ DOMAIN k = JobFields /\ k.list = n /\ k.stays = ToSet(Plugins) /\ ~k.skips
      /\ k.called = <<>>
  BY DEF JobFields
<1>2. executePlugins(job, hook) = CallAt(k, Plugins, 0 + 1) BY DEF executePlugins
<1> HIDE DEF k
<1>3. n \in 1 .. n /\ n \in DOMAIN pluginLists /\ Plugins = pluginLists[n]
  BY DEF HooksInv, Plugins, Last
<1>4. PluginList(Plugins) BY <1>3 DEF HooksInv
<1>5. k.called \in Seq(PipelinePlugins) /\ DOMAIN k.called = {} /\ ToSet(k.called) = {}
  BY <1>1 DEF ToSet
<1>6. CalledOnce(k) BY <1>5 DEF CalledOnce
<1>7. WalkRight(k, Plugins, 0)
  <2>1. \A x \in DOMAIN Plugins : ~(x <= 0) BY <1>4 DEF PluginList
  <2> QED BY <1>1, <1>5, <2>1 DEF WalkRight
<1>8. HookInv(CallAt(k, Plugins, 0 + 1), pluginLists)
  <2> DEFINE L == Plugins
             z == 0
  <2>1. z \in Nat /\ WalkRight(k, L, z) /\ PluginList(L) /\ pluginLists[k.list] = L
        /\ k.list \in 1 .. Len(pluginLists)
    BY <1>1, <1>3, <1>4, <1>7
  <2> HIDE DEF L, z, n
  <2>2. HookInv(CallAt(k, L, z + 1), pluginLists) BY <1>1, <1>5, <1>6, <2>1, CallIsRight
  <2> QED BY <2>2 DEF L, z
<1> QED BY <1>2, <1>8

\* What a job knows of its present hook.
SameHook(job, k) ==
    /\ DOMAIN k = JobFields
    /\ k.list = job.list /\ k.index = job.index /\ k.stays = job.stays
    /\ k.skips = job.skips /\ k.called = job.called

LEMMA HookCarriesOver ==
    ASSUME NEW job, NEW k, NEW lists, HookInv(job, lists), SameHook(job, k), k.at \notin Hooks
    PROVE  HookInv(k, lists)
BY DEF HookInv, SameHook, CalledOnce, WalkRight

LEMMA HooksInitial ==
    ASSUME ExecutionInit PROVE HooksInv
<1> DEFINE L == SetToSeq(PipelinePlugins)
           n == Cardinality(PipelinePlugins)
<1>0. IsFiniteSet(PipelinePlugins) BY ExecutionAssumption
<1>1. n \in Nat /\ ExistsBijection(1 .. n, PipelinePlugins) BY <1>0, FS_CardinalityType
<1>2. \E f \in [1 .. n -> PipelinePlugins] : IsInjective(f)
  <2>1. PICK f \in Bijection(1 .. n, PipelinePlugins) : TRUE BY <1>1 DEF ExistsBijection
  <2>2. f \in [1 .. n -> PipelinePlugins] /\ \A a, b \in 1 .. n : f[a] = f[b] => a = b
    BY <2>1 DEF Bijection, Injection, IsInjective
  <2> QED BY <2>2 DEF IsInjective
<1>3. L \in [1 .. n -> PipelinePlugins] /\ IsInjective(L) BY <1>2 DEF SetToSeq
<1> HIDE DEF L
<1>4. PluginList(L)
  <2>1. L \in Seq(PipelinePlugins) BY <1>1, <1>3
  <2> QED BY <1>3, <2>1 DEF PluginList, IsInjective
<1>5. pluginLists = <<L>> /\ jobs = [j \in ExecutionJobs |-> NoJob] BY DEF ExecutionInit, L
<1>6. /\ pluginLists \in Seq(Seq(PipelinePlugins)) /\ Len(pluginLists) = 1
      /\ DOMAIN pluginLists = {1} /\ pluginLists[1] = L
  <2> DEFINE S == Seq(PipelinePlugins)
  <2>1. L \in S BY <1>4 DEF PluginList
  <2> HIDE DEF S
  <2>2. <<L>> \in Seq(S) /\ Len(<<L>>) = 1 /\ DOMAIN <<L>> = {1} /\ <<L>>[1] = L BY <2>1
  <2> QED BY <1>5, <2>2 DEF S
<1>7. HookInv(NoJob, pluginLists)
  <2>1. /\ DOMAIN NoJob = JobFields /\ NoJob.list = 1 /\ NoJob.index = 0 /\ NoJob.stays = {} /\ NoJob.called = <<>>
        /\ NoJob.at = "idle"
    BY DEF NoJob, JobFields
  <2> QED BY <1>6, <2>1 DEF HookInv, CalledOnce, Hooks
<1> QED BY <1>4, <1>5, <1>6, <1>7 DEF HooksInv

LEMMA HooksThen ==
    ASSUME HooksInv PROVE HooksReachPlugins
<1> SUFFICES ASSUME NEW j \in ExecutionJobs, NEW p \in jobs[j].stays
             PROVE  LET n == Cardinality({i \in DOMAIN jobs[j].called : jobs[j].called[i] = p})
                    IN  /\ n <= 1
                        /\ jobs[j].at \in Hooks /\ jobs[j].index = 0 /\ ~jobs[j].skips => n = 1
  BY DEF HooksReachPlugins
<1> DEFINE I == {i \in DOMAIN jobs[j].called : jobs[j].called[i] = p}
<1>1. HookInv(jobs[j], pluginLists) BY DEF HooksInv
<1>2. \A k, l \in I : k = l BY <1>1 DEF HookInv, CalledOnce
<1>3. jobs[j].at \in Hooks /\ jobs[j].index = 0 /\ ~jobs[j].skips => I # {}
  <2>1. p \in ToSet(jobs[j].called) => I # {} BY DEF ToSet
  <2> QED BY <1>1, <2>1 DEF HookInv
<1> HIDE DEF I
<1>4. I = {} \/ \E k : I = {k}
  <2>1. ASSUME NEW k \in I PROVE I = {k} BY <1>2
  <2> QED BY <2>1
<1>5. I = {} => Cardinality(I) = 0 BY FS_EmptySet
<1>6. (\E k : I = {k}) => Cardinality(I) = 1 BY FS_Singleton
<1>7. Cardinality(I) <= 1 /\ (I # {} => Cardinality(I) = 1) BY <1>4, <1>5, <1>6
<1> QED BY <1>3, <1>7 DEF I

\* One plugin less: who stays keeps its place among the calls, unless what moved up
\* came from at or before the place of the walk.
LEMMA RemovalKeepsHook ==
    ASSUME NEW L, PluginList(L), NEW place \in DOMAIN L, NEW job, NEW k, NEW i \in Nat,
           WalkRight(job, L, i),
           k.stays = job.stays \ {L[place]}, k.called = job.called,
           ~k.skips => ~job.skips /\ ~(place <= i)
    PROVE  WalkRight(k, RemoveAt(L, place), i)
<1> DEFINE R == RemoveAt(L, place)
           n == Len(L)
<1>0. /\ n \in Nat /\ DOMAIN L = 1 .. n /\ L \in Seq(PipelinePlugins) /\ place \in 1 .. n
      /\ \A x, y \in DOMAIN L : L[x] = L[y] => x = y
  BY DEF PluginList
<1>1. /\ R \in Seq(PipelinePlugins) /\ Len(R) = n - 1
      /\ \A x \in 1 .. n - 1 : R[x] = IF x < place THEN L[x] ELSE L[x + 1]
  <2>1. L \in Seq(PipelinePlugins) /\ place \in 1 .. Len(L) BY <1>0
  <2> QED BY ONLY <2>1, RemovedAt
<1> HIDE DEF R, n
<1>2. DOMAIN R = 1 .. n - 1 BY <1>1
<1> SUFFICES ASSUME NEW p \in k.stays
             PROVE  /\ p \in ToSet(R)
                    /\ \A x \in DOMAIN R :
                          R[x] = p => /\ p \in ToSet(k.called) => x <= i
                                      /\ ~k.skips /\ x <= i => p \in ToSet(k.called)
  BY DEF WalkRight, R
<1>3. p \in job.stays /\ p # L[place] OBVIOUS
<1>4. /\ p \in ToSet(L)
      /\ \A x \in DOMAIN L :
            L[x] = p => /\ p \in ToSet(job.called) => x <= i
                        /\ ~job.skips /\ x <= i => p \in ToSet(job.called)
  BY <1>3 DEF WalkRight
<1>5. p \in ToSet(R)
  <2>1. PICK x \in 1 .. n : L[x] = p BY <1>0, <1>4 DEF ToSet
  <2>2. x # place BY <1>3, <2>1
  <2>3. CASE x < place
    <3>1. x \in 1 .. n - 1 BY ONLY <1>0, <2>1, <2>3
    <3> QED BY <1>1, <1>2, <2>1, <2>3, <3>1 DEF ToSet
  <2>4. CASE x > place
    <3> DEFINE y == x - 1
    <3>1. y \in 1 .. n - 1 /\ y + 1 = x /\ ~(y < place) BY ONLY <1>0, <2>1, <2>4
    <3> HIDE DEF y
    <3> QED BY <1>1, <1>2, <2>1, <3>1 DEF ToSet
  <2> QED BY ONLY <1>0, <2>1, <2>2, <2>3, <2>4
<1>6. ASSUME NEW x \in DOMAIN R, R[x] = p
      PROVE  /\ p \in ToSet(k.called) => x <= i
             /\ ~k.skips /\ x <= i => p \in ToSet(k.called)
  <2>1. CASE x < place
    <3>1. L[x] = p /\ x \in DOMAIN L BY <1>0, <1>1, <1>2, <1>6, <2>1
    <3> QED BY <1>4, <3>1
  <2>2. CASE ~(x < place)
    <3>1. x \in 1 .. n - 1 BY <1>2, <1>6
    <3>2. x + 1 \in 1 .. n BY ONLY <1>0, <3>1
    <3>3. L[x + 1] = p /\ x + 1 \in DOMAIN L BY <1>0, <1>1, <1>6, <2>2, <3>1, <3>2
    <3>4. p \in ToSet(job.called) => x + 1 <= i BY <1>4, <3>3
    <3>5. x + 1 <= i => x <= i BY ONLY <3>1, i \in Nat
    <3>6. x <= i => place <= i BY ONLY <1>0, <2>2, <3>1, i \in Nat
    <3> QED BY <3>4, <3>5, <3>6
  <2> QED BY <2>1, <2>2
<1> QED BY <1>5, <1>6

LEMMA HooksStep ==
    ASSUME HooksInv, [ExecutionNext]_executionVars PROVE HooksInv'
<1> DEFINE n == Len(pluginLists)
           S == Seq(PipelinePlugins)
<1>0. /\ DOMAIN jobs = ExecutionJobs
      /\ \A j \in ExecutionJobs : DOMAIN jobs[j] = JobFields /\ HookInv(jobs[j], pluginLists)
  BY DEF HooksInv, HookInv
<1>p. /\ pluginLists \in Seq(S) /\ n \in Nat /\ n > 0 /\ DOMAIN pluginLists = 1 .. n
      /\ \A m \in 1 .. n : PluginList(pluginLists[m])
      /\ n \in 1 .. n /\ Plugins = pluginLists[n]
  BY DEF HooksInv, Plugins, Last
<1> HIDE DEF S
<1>b. ASSUME NEW j \in ExecutionJobs, NEW k, HookInv(k, pluginLists),
             jobs' = [jobs EXCEPT ![j] = k], pluginLists' = pluginLists
      PROVE  HooksInv'
  <2>1. /\ DOMAIN jobs' = ExecutionJobs
        /\ \A i \in ExecutionJobs : jobs'[i] = IF i = j THEN k ELSE jobs[i]
    BY <1>0, <1>b
  <2>2. \A i \in ExecutionJobs : HookInv(jobs'[i], pluginLists) BY <1>0, <1>b, <2>1
  <2> QED BY <1>b, <2>1, <2>2 DEF HooksInv
<1>1. ASSUME NEW j \in ExecutionJobs, NEW txs \in BlocksOfTxs, processBlock(j, txs)
      PROVE  HooksInv'
  <2> DEFINE c == [jobs[j] EXCEPT !.txs = txs]
             k == executePlugins(c, "preProcessBlock")
  <2>1. jobs' = [jobs EXCEPT ![j] = k] /\ pluginLists' = pluginLists
    BY <1>1 DEF processBlock, Step
  <2>2. DOMAIN c = JobFields BY <1>0
  <2> HIDE DEF c
  <2>3. HookInv(k, pluginLists) BY <2>2, HookIsRight
  <2> HIDE DEF k
  <2> QED BY <1>b, <2>1, <2>3
<1>2. ASSUME NEW j \in ExecutionJobs, PluginReturns(j) PROVE HooksInv'
  <2> DEFINE job == jobs[j]
             i == job.index
             L == pluginLists[job.list]
             k == CallAt(job, L, i + 1)
  <2>1. /\ jobs' = [jobs EXCEPT ![j] = k] /\ pluginLists' = pluginLists /\ i # 0
    BY <1>2 DEF PluginReturns, Step, HookOver
  <2>2. HookInv(job, pluginLists) /\ DOMAIN job = JobFields BY <1>0
  <2> HIDE DEF job
  <2>3. /\ job.list \in 1 .. Len(pluginLists) /\ i \in Nat
        /\ job.called \in Seq(PipelinePlugins) /\ CalledOnce(job)
        /\ i > 0 => WalkRight(job, L, i)
    BY <2>2 DEF HookInv
  <2>4. i > 0 BY <2>1, <2>3
  <2>5. PluginList(L) BY <1>p, <2>3
  <2> HIDE DEF i, L
  <2>6. HookInv(CallAt(job, L, i + 1), pluginLists)
    <3>1. pluginLists[job.list] = L BY DEF L
    <3> QED BY <2>2, <2>3, <2>4, <2>5, <3>1, CallIsRight
  <2>7. HookInv(k, pluginLists) BY <2>6
  <2> HIDE DEF k
  <2> QED BY <1>b, <2>1, <2>7
<1>3. ASSUME NEW j \in ExecutionJobs, NEW from, NEW to, to \notin Hooks,
             Step(j, from, [jobs[j] EXCEPT !.at = to])
      PROVE  HooksInv'
  <2> DEFINE job == jobs[j]
             k == [job EXCEPT !.at = to]
  <2>1. jobs' = [jobs EXCEPT ![j] = k] /\ pluginLists' = pluginLists BY <1>3 DEF Step
  <2>2. DOMAIN job = JobFields /\ HookInv(job, pluginLists) BY <1>0
  <2> HIDE DEF job
  <2>3. SameHook(job, k) /\ k.at = to BY <2>2 DEF SameHook, JobFields
  <2> HIDE DEF k
  <2>4. HookInv(k, pluginLists) BY <1>3, <2>2, <2>3, HookCarriesOver
  <2> QED BY <1>b, <2>1, <2>4
<1>h. "next" \notin Hooks /\ "transition" \notin Hooks /\ "done" \notin Hooks BY DEF Hooks
<1>4. ASSUME NEW j \in ExecutionJobs, BlockPrepared(j) \/ executeTransaction(j) \/ BlockDone(j)
      PROVE  HooksInv'
  BY <1>3, <1>4, <1>h DEF BlockPrepared, executeTransaction, BlockDone
\* A receipt leaves the hook as it was.
<1>r. ASSUME NEW job, DOMAIN job = JobFields, HookInv(job, pluginLists), NEW r
      PROVE  HookInv(WithReceipt(job, r), pluginLists)
  <2>1. SameHook(job, WithReceipt(job, r)) /\ WithReceipt(job, r).at = "next"
    BY <1>r DEF SameHook, WithReceipt, JobFields
  <2> QED BY <1>h, <1>r, <2>1, HookCarriesOver
<1>5. ASSUME NEW j \in ExecutionJobs, processTransactions(j) PROVE HooksInv'
  <2> DEFINE job == jobs[j]
             k == IF Len(job.receipts) = Len(job.txs) THEN executePlugins(job, "postProcessBlock")
                  ELSE IF validate(CurrentTx(job)) THEN executePlugins(job, "preProcess")
                  ELSE WithReceipt(job, FailedReceipt)
  <2>1. jobs' = [jobs EXCEPT ![j] = k] /\ pluginLists' = pluginLists
    BY <1>5 DEF processTransactions, Step
  <2>2. DOMAIN job = JobFields /\ HookInv(job, pluginLists) BY <1>0
  <2> HIDE DEF job
  <2>3. /\ HookInv(executePlugins(job, "postProcessBlock"), pluginLists)
        /\ HookInv(executePlugins(job, "preProcess"), pluginLists)
        /\ HookInv(WithReceipt(job, FailedReceipt), pluginLists)
    BY <1>r, <2>2, HookIsRight
  <2>4. HookInv(k, pluginLists) BY <2>3
  <2> HIDE DEF k
  <2> QED BY <1>b, <2>1, <2>4
<1>6. ASSUME NEW j \in ExecutionJobs, NEW ok \in BOOLEAN, Transitioned(j, ok) PROVE HooksInv'
  <2> DEFINE job == jobs[j]
             d == [job EXCEPT !.applied = @ \cup {Len(job.receipts) + 1}]
             k == IF ~ok THEN WithReceipt(job, FailedReceipt)
                  ELSE IF setGasUsed(GasLimit(CurrentTx(job))) THEN executePlugins(d, "postProcess")
                  ELSE WithReceipt(d, FailedReceipt)
  <2>1. jobs' = [jobs EXCEPT ![j] = k] /\ pluginLists' = pluginLists
    BY <1>6 DEF Transitioned, Step
  <2>2. DOMAIN job = JobFields /\ HookInv(job, pluginLists) BY <1>0
  <2> HIDE DEF job
  <2>3. /\ DOMAIN d = JobFields /\ d.list = job.list /\ d.index = job.index
        /\ d.stays = job.stays /\ d.skips = job.skips /\ d.called = job.called /\ d.at = job.at
    BY <2>2 DEF JobFields
  <2> HIDE DEF d
  <2>4. HookInv(d, pluginLists) BY <2>2, <2>3 DEF HookInv, CalledOnce, WalkRight
  <2>5. /\ HookInv(WithReceipt(job, FailedReceipt), pluginLists)
        /\ HookInv(executePlugins(d, "postProcess"), pluginLists)
        /\ HookInv(WithReceipt(d, FailedReceipt), pluginLists)
    BY <1>r, <2>2, <2>3, <2>4, HookIsRight
  <2>6. HookInv(k, pluginLists) BY <2>5
  <2> HIDE DEF k
  <2> QED BY <1>b, <2>1, <2>6
<1>7. ASSUME NEW j \in ExecutionJobs, TransactionDone(j) PROVE HooksInv'
  <2> DEFINE job == jobs[j]
             k == WithReceipt(job, Successful(CurrentTx(job)))
  <2>1. jobs' = [jobs EXCEPT ![j] = k] /\ pluginLists' = pluginLists
    BY <1>7 DEF TransactionDone, Step
  <2>2. DOMAIN job = JobFields /\ HookInv(job, pluginLists) BY <1>0
  <2> HIDE DEF job
  <2>3. HookInv(k, pluginLists) BY <1>r, <2>2
  <2> HIDE DEF k
  <2> QED BY <1>b, <2>1, <2>3
\* The current list becomes another one.
<1>l. ASSUME NEW L, PluginList(L), pluginLists' = [pluginLists EXCEPT ![n] = L],
             DOMAIN jobs' = ExecutionJobs,
             \A j \in ExecutionJobs : HookInv(jobs'[j], pluginLists')
      PROVE  HooksInv'
  <2>1. L \in S BY <1>l DEF PluginList, S
  <2>2. /\ pluginLists' \in Seq(S) /\ Len(pluginLists') = n /\ DOMAIN pluginLists' = 1 .. n
        /\ \A m \in 1 .. n : pluginLists'[m] = IF m = n THEN L ELSE pluginLists[m]
    BY <1>p, <1>l, <2>1
  <2>3. \A m \in 1 .. n : PluginList(pluginLists'[m]) BY <1>l, <1>p, <2>2
  <2>4. pluginLists' \in Seq(Seq(PipelinePlugins)) BY <2>2 DEF S
  <2> QED BY <1>l, <1>p, <2>2, <2>3, <2>4 DEF HooksInv
<1>m. ASSUME NEW L, pluginLists' = [pluginLists EXCEPT ![n] = L]
      PROVE  /\ Len(pluginLists') = n
             /\ \A m \in 1 .. n : pluginLists'[m] = IF m = n THEN L ELSE pluginLists[m]
  BY <1>p, <1>m
<1>8. ASSUME NEW p \in PipelinePlugins, addPlugin(p) PROVE HooksInv'
  <2> DEFINE O == Plugins
             L == Append(O, p)
  <2>1. ~Contains(O, p) /\ pluginLists' = [pluginLists EXCEPT ![n] = L] /\ jobs' = jobs
    <3>1. pluginLists' = [pluginLists EXCEPT ![n] = Append(@, p)] BY <1>8 DEF addPlugin
    <3>2. pluginLists' = [pluginLists EXCEPT ![n] = L] BY <1>p, <3>1
    <3> QED BY <1>8, <3>2 DEF addPlugin
  <2>2. PluginList(O) /\ O = pluginLists[n] BY <1>p
  <2> HIDE DEF O
  <2>3. /\ O \in Seq(PipelinePlugins) /\ DOMAIN O = 1 .. Len(O) /\ Len(O) \in Nat
        /\ p \notin ToSet(O)
    BY <2>1, <2>2 DEF PluginList, Contains, ToSet
  <2>4. /\ L \in Seq(PipelinePlugins) /\ DOMAIN L = DOMAIN O \cup {Len(O) + 1}
        /\ \A k \in DOMAIN O : L[k] = O[k] /\ L[k] # p
        /\ L[Len(O) + 1] = p
    BY <2>3 DEF ToSet
  <2> HIDE DEF L
  <2>5. PluginList(L) BY <2>2, <2>4 DEF PluginList
  <2>6. ASSUME NEW job, HookInv(job, pluginLists) PROVE HookInv(job, pluginLists')
    <3>1. ASSUME job.index > 0, job.list = n PROVE WalkRight(job, L, job.index)
      <4>1. WalkRight(job, O, job.index) BY <2>2, <2>6, <3>1 DEF HookInv
      <4>2. \A q \in job.stays : q \in ToSet(O) /\ q # p BY <2>3, <4>1 DEF WalkRight
      <4>3. ToSet(O) \subseteq ToSet(L) BY <2>4 DEF ToSet
      <4> QED BY <2>4, <4>1, <4>2, <4>3 DEF WalkRight
    <3>2. job.list \in 1 .. n BY <2>6 DEF HookInv
    <3>3. job.index > 0 => WalkRight(job, pluginLists'[job.list], job.index)
      BY <1>m, <2>1, <2>6, <3>1, <3>2 DEF HookInv
    <3>4. Len(pluginLists') = n BY <1>m, <2>1
    <3> QED BY <2>6, <3>2, <3>3, <3>4 DEF HookInv
  <2>7. /\ DOMAIN jobs' = ExecutionJobs
        /\ \A j \in ExecutionJobs : HookInv(jobs'[j], pluginLists')
    BY <1>0, <2>1, <2>6
  <2> QED BY <1>l, <2>1, <2>5, <2>7
<1>9. ASSUME NEW p \in PipelinePlugins, removePlugin(p) PROVE HooksInv'
  <2> DEFINE O == Plugins
             place == SelectInSeq(O, LAMBDA q : q = p)
             L == RemoveAt(O, place)
  <2>1. /\ place # 0 /\ pluginLists' = [pluginLists EXCEPT ![n] = L]
        /\ jobs' = [j \in ExecutionJobs |->
              IF jobs[j].list # n THEN jobs[j]
              ELSE [jobs[j] EXCEPT !.stays = @ \ {p}, !.skips = @ \/ place <= jobs[j].index]]
    <3>1. pluginLists' = [pluginLists EXCEPT ![n] = RemoveAt(@, place)] BY <1>9 DEF removePlugin
    <3>2. pluginLists' = [pluginLists EXCEPT ![n] = L] BY <1>p, <3>1
    <3> QED BY <1>9, <3>2 DEF removePlugin
  <2>2. PluginList(O) /\ O = pluginLists[n] BY <1>p
  <2>3. place \in DOMAIN O /\ O[place] = p
    <3> HIDE DEF O
    <3>1. O \in Seq(PipelinePlugins) BY <2>2 DEF PluginList
    <3> QED BY <2>1, <3>1, SelectedIs
  <2> HIDE DEF O, place
  <2>4. PluginList(L)
    <3>0. /\ O \in Seq(PipelinePlugins) /\ DOMAIN O = 1 .. Len(O) /\ Len(O) \in Nat
          /\ \A x, y \in DOMAIN O : O[x] = O[y] => x = y
      BY <2>2 DEF PluginList
    <3>1. /\ L \in Seq(PipelinePlugins) /\ Len(L) = Len(O) - 1
          /\ \A x \in 1 .. Len(O) - 1 : L[x] = IF x < place THEN O[x] ELSE O[x + 1]
      <4>1. O \in Seq(PipelinePlugins) /\ place \in 1 .. Len(O) BY <2>3, <3>0
      <4> QED BY ONLY <4>1, RemovedAt DEF L
    <3> DEFINE Was(x) == IF x < place THEN x ELSE x + 1
    <3>2. DOMAIN L = 1 .. Len(O) - 1 BY <3>1
    <3> HIDE DEF L
    <3>3. ASSUME NEW x \in DOMAIN L, NEW y \in DOMAIN L, L[x] = L[y] PROVE x = y
      <4>1. x \in 1 .. Len(O) - 1 /\ y \in 1 .. Len(O) - 1 BY <3>2
      <4>2. /\ x \in Nat /\ y \in Nat /\ place \in Nat
            /\ Was(x) \in 1 .. Len(O) /\ Was(y) \in 1 .. Len(O)
        <5>1. place \in 1 .. Len(O) /\ Len(O) \in Nat BY <2>3, <3>0
        <5> QED BY ONLY <4>1, <5>1
      <4>3. O[Was(x)] = L[x] /\ O[Was(y)] = L[y] BY ONLY <3>1, <4>1, <4>2
      <4>4. Was(x) = Was(y) BY <3>0, <3>3, <4>2, <4>3
      <4> QED BY ONLY <4>2, <4>4
    <3> QED BY <3>1, <3>3 DEF PluginList
  <2> HIDE DEF L
  <2>5. ASSUME NEW j \in ExecutionJobs PROVE HookInv(jobs'[j], pluginLists')
    <3> DEFINE job == jobs[j]
               k == jobs'[j]
    <3>0. /\ DOMAIN job = JobFields /\ HookInv(job, pluginLists)
          /\ Len(pluginLists') = n
          /\ \A m \in 1 .. n : pluginLists'[m] = IF m = n THEN L ELSE pluginLists[m]
      BY <1>0, <1>m, <2>1
    <3>1. k = IF job.list # n THEN job
              ELSE [job EXCEPT !.stays = @ \ {p}, !.skips = @ \/ place <= job.index]
      BY <2>1
    <3> HIDE DEF job, k
    <3>2. job.list \in 1 .. n BY <3>0 DEF HookInv
    <3>3. CASE job.list # n
      <4>1. k = job /\ pluginLists'[job.list] = pluginLists[job.list] BY <3>0, <3>1, <3>2, <3>3
      <4>2. HookInv(job, pluginLists') BY <3>0, <4>1 DEF HookInv
      <4> QED BY <4>1, <4>2 DEF k
    <3>4. CASE job.list = n
      <4>0. k = [job EXCEPT !.stays = job.stays \ {p}, !.skips = (job.skips \/ place <= job.index)]
        BY <3>1, <3>4
      <4>1. /\ DOMAIN k = JobFields /\ k.list = n /\ k.index = job.index /\ k.called = job.called /\ k.at = job.at
            /\ k.stays = job.stays \ {p}
        BY <3>0, <3>4, <4>0 DEF JobFields
      <4>2. ~k.skips => ~job.skips /\ ~(place <= job.index) BY <3>0, <4>0 DEF JobFields
      <4>3. CalledOnce(k) BY <3>0, <4>1 DEF HookInv, CalledOnce
      <4>4. job.index > 0 => WalkRight(k, L, job.index)
        <5> SUFFICES ASSUME job.index > 0 PROVE WalkRight(k, L, job.index) OBVIOUS
        <5>1. WalkRight(job, O, job.index) /\ job.index \in Nat
          BY <2>2, <3>0, <3>4 DEF HookInv
        <5>2. k.stays = job.stays \ {O[place]} BY <2>3, <4>1
        <5>3. WalkRight(k, RemoveAt(O, place), job.index)
          BY <2>2, <2>3, <4>1, <4>2, <5>1, <5>2, RemovalKeepsHook
        <5> QED BY <5>3 DEF L
      <4>5. k.at \in Hooks /\ k.index = 0 /\ ~k.skips => k.stays \subseteq ToSet(k.called)
        BY <3>0, <4>1, <4>2 DEF HookInv
      <4>6. k.list \in 1 .. Len(pluginLists') /\ k.index \in Nat /\ pluginLists'[k.list] = L
            /\ k.called \in Seq(PipelinePlugins)
        BY <1>p, <3>0, <4>1 DEF HookInv
      <4>7. HookInv(k, pluginLists') BY <4>1, <4>3, <4>4, <4>5, <4>6 DEF HookInv
      <4> QED BY <4>7 DEF k
    <3> QED BY <3>3, <3>4
  <2>6. DOMAIN jobs' = ExecutionJobs BY <2>1
  <2> QED BY <1>l, <2>1, <2>4, <2>5, <2>6
<1>10. ASSUME clearPlugins PROVE HooksInv'
  <2>1. pluginLists' = Append(pluginLists, <<>>) /\ jobs' = jobs BY <1>10 DEF clearPlugins
  <2>2. <<>> \in S /\ PluginList(<<>>) BY DEF S, PluginList
  <2>3. /\ pluginLists' \in Seq(S) /\ Len(pluginLists') = n + 1
        /\ DOMAIN pluginLists' = 1 .. (n + 1) /\ pluginLists'[n + 1] = <<>>
        /\ \A m \in 1 .. n : pluginLists'[m] = pluginLists[m] /\ m \in 1 .. (n + 1)
    BY <1>p, <2>1, <2>2
  <2>4. \A m \in 1 .. (n + 1) : PluginList(pluginLists'[m])
    <3>1. \A m \in 1 .. (n + 1) : m \in 1 .. n \/ m = n + 1 BY <1>p
    <3> QED BY <1>p, <2>2, <2>3, <3>1
  <2>5. ASSUME NEW j \in ExecutionJobs PROVE HookInv(jobs[j], pluginLists')
    <3>1. HookInv(jobs[j], pluginLists) BY <1>0
    <3>2. jobs[j].list \in 1 .. n BY <3>1 DEF HookInv
    <3>3. /\ jobs[j].list \in 1 .. Len(pluginLists')
          /\ pluginLists'[jobs[j].list] = pluginLists[jobs[j].list]
      BY <2>3, <3>2
    <3> QED BY <3>1, <3>3 DEF HookInv
  <2>6. pluginLists' \in Seq(Seq(PipelinePlugins)) BY <2>3 DEF S
  <2>7. Len(pluginLists') > 0 BY <1>p, <2>3
  <2> QED BY <1>0, <2>1, <2>3, <2>4, <2>5, <2>6, <2>7 DEF HooksInv
<1>11. ASSUME UNCHANGED executionVars PROVE HooksInv' BY <1>11 DEF executionVars, HooksInv
<1> QED BY <1>1, <1>2, <1>4, <1>5, <1>6, <1>7, <1>8, <1>9, <1>10, <1>11 DEF ExecutionNext

-----------------------------------------------------------------------------
(* Deployments and actions *)

\* Names drawn so far: entries and addresses are of their own, and so are the hashes.
Entries == [id : Nat, status : {"deploying", "completed", "failed"}]
EntriesApart(h, statuses, running, deployed) ==
    /\ \A i, j \in DOMAIN h : h[i].id = h[j].id => i = j
    /\ \A i \in DOMAIN h : h[i].id \in DOMAIN statuses
    /\ \A i \in DOMAIN h :
          \/ i \in running /\ h[i].status = "deploying"
          \/ h[i].status = "completed" /\ \E a \in DOMAIN deployed : deployed[a] = i
NamesApart(drawn, statuses, deployed, logs) ==
    /\ \A x \in DOMAIN statuses \cup DOMAIN deployed : x \in Nat /\ x < drawn
    /\ \A k \in DOMAIN logs :
          /\ logs[k] < drawn
          /\ logs[k] \notin DOMAIN deployed /\ logs[k] \notin DOMAIN statuses
CreatedApart(drawn, made, statuses, deployed, logs) ==
    \A x \in made :
        /\ x \in Nat /\ x < drawn /\ x \notin DOMAIN statuses /\ x \notin DOMAIN deployed
        /\ \A k \in DOMAIN logs : logs[k] # x

DeploymentsInv ==
    /\ random_state \in Nat /\ contexts \in Nat
    /\ deployment_history \in Seq(Entries) /\ deploying \subseteq DOMAIN deployment_history
    /\ interaction_logs \in Seq(Nat)
    /\ contexts = 0 =>
          /\ EntriesApart(deployment_history, deployment_status, deploying, deployed_contracts)
          /\ NamesApart(random_state, deployment_status, deployed_contracts, interaction_logs)
          /\ CreatedApart(random_state, created, deployment_status, deployed_contracts,
                          interaction_logs)

LEMMA DeploymentsInitial ==
    ASSUME ContractsInit PROVE DeploymentsInv
<1>1. /\ random_state = 0 /\ contexts = 0 /\ deployment_status = <<>>
      /\ deployment_history = <<>> /\ deploying = {} /\ deployed_contracts = <<>>
      /\ interaction_logs = <<>> /\ created = {}
  BY DEF ContractsInit
<1>2. /\ deployment_history \in Seq(Entries) /\ interaction_logs \in Seq(Nat)
      /\ DOMAIN deployment_history = {} /\ DOMAIN interaction_logs = {}
      /\ DOMAIN deployment_status = {} /\ DOMAIN deployed_contracts = {}
  BY <1>1
<1> QED BY <1>1, <1>2 DEF DeploymentsInv, EntriesApart, NamesApart, CreatedApart

\* A name that is put into a map is found there, and the others are where they were.
LEMMA SetIs ==
    ASSUME NEW f, NEW x, NEW v
    PROVE  /\ DOMAIN Set(f, x, v) = DOMAIN f \cup {x} /\ Set(f, x, v)[x] = v
           /\ \A y \in DOMAIN f : y # x => Set(f, x, v)[y] = f[y]
BY DEF Set

\* Going on in the sequence takes nothing away.
LEMMA NamesStay ==
    ASSUME NEW drawn \in Nat, NEW n \in Nat, NEW statuses, NEW deployed, NEW logs \in Seq(Nat),
           NamesApart(drawn, statuses, deployed, logs)
    PROVE  NamesApart(drawn + n, statuses, deployed, logs)
<1>1. \A k \in DOMAIN logs : logs[k] \in Nat OBVIOUS
<1> QED BY <1>1 DEF NamesApart

\* The name drawn is new, so it can be that of an entry, an address or an action.
LEMMA NameForStatus ==
    ASSUME NEW drawn \in Nat, NEW n \in Nat, n > 0, NEW statuses, NEW deployed, NEW logs \in Seq(Nat),
           NamesApart(drawn, statuses, deployed, logs), NEW v
    PROVE  NamesApart(drawn + n, Set(statuses, drawn, v), deployed, logs)
<1>1. \A k \in DOMAIN logs : logs[k] \in Nat OBVIOUS
<1>2. DOMAIN Set(statuses, drawn, v) = DOMAIN statuses \cup {drawn} BY SetIs
<1> QED BY <1>1, <1>2 DEF NamesApart

LEMMA NameForAddress ==
    ASSUME NEW drawn \in Nat, NEW n \in Nat, n > 0, NEW statuses, NEW deployed, NEW logs \in Seq(Nat),
           NamesApart(drawn, statuses, deployed, logs), NEW v
    PROVE  NamesApart(drawn + n, statuses, Set(deployed, drawn, v), logs)
<1>1. \A k \in DOMAIN logs : logs[k] \in Nat OBVIOUS
<1>2. DOMAIN Set(deployed, drawn, v) = DOMAIN deployed \cup {drawn} BY SetIs
<1> QED BY <1>1, <1>2 DEF NamesApart

LEMMA NameForAction ==
    ASSUME NEW drawn \in Nat, NEW n \in Nat, n > 0, NEW statuses, NEW deployed, NEW logs \in Seq(Nat),
           NamesApart(drawn, statuses, deployed, logs)
    PROVE  /\ NamesApart(drawn + n, statuses, deployed, Append(logs, drawn))
           /\ Append(logs, drawn) \in Seq(Nat)
<1>1. \A k \in DOMAIN logs : logs[k] \in Nat OBVIOUS
<1>2. /\ Append(logs, drawn) \in Seq(Nat)
      /\ DOMAIN Append(logs, drawn) = DOMAIN logs \cup {Len(logs) + 1}
      /\ \A k \in DOMAIN logs : Append(logs, drawn)[k] = logs[k]
      /\ Append(logs, drawn)[Len(logs) + 1] = drawn
  OBVIOUS
<1>3. drawn \notin DOMAIN statuses /\ drawn \notin DOMAIN deployed BY DEF NamesApart
<1> QED BY <1>1, <1>2, <1>3 DEF NamesApart

\* The addresses of created contracts stay apart from what is drawn after them, and a
\* new one is apart from all before.
LEMMA CreatedStay ==
    ASSUME NEW drawn \in Nat, NEW n \in Nat, NEW made, NEW statuses, NEW deployed, NEW logs,
           CreatedApart(drawn, made, statuses, deployed, logs),
           NEW s, DOMAIN s \subseteq DOMAIN statuses \cup {drawn},
           NEW d, DOMAIN d \subseteq DOMAIN deployed \cup {drawn}
    PROVE  CreatedApart(drawn + n, made, s, d, logs)
<1>1. \A x \in made : x \in Nat /\ x < drawn /\ x # drawn BY DEF CreatedApart
<1>2. \A x \in made : x < drawn + n BY <1>1
<1> QED BY <1>1, <1>2 DEF CreatedApart

LEMMA CreatedAction ==
    ASSUME NEW drawn \in Nat, NEW made, NEW statuses, NEW deployed, NEW logs \in Seq(Nat),
           CreatedApart(drawn, made, statuses, deployed, logs)
    PROVE  CreatedApart(drawn + 1, made, statuses, deployed, Append(logs, drawn))
<1>1. \A x \in made : x \in Nat /\ x < drawn + 1 /\ x # drawn BY DEF CreatedApart
<1>2. /\ DOMAIN Append(logs, drawn) = DOMAIN logs \cup {Len(logs) + 1}
      /\ \A k \in DOMAIN logs : Append(logs, drawn)[k] = logs[k]
      /\ Append(logs, drawn)[Len(logs) + 1] = drawn
  OBVIOUS
<1> QED BY <1>1, <1>2 DEF CreatedApart

LEMMA CreatedNew ==
    ASSUME NEW drawn \in Nat, NEW made, NEW statuses, NEW deployed, NEW logs \in Seq(Nat),
           NamesApart(drawn, statuses, deployed, logs),
           CreatedApart(drawn, made, statuses, deployed, logs)
    PROVE  CreatedApart(drawn + 1, made \cup {drawn}, statuses, deployed, logs)
<1>1. \A x \in made : x \in Nat /\ x < drawn + 1 BY DEF CreatedApart
<1>2. drawn \notin DOMAIN statuses /\ drawn \notin DOMAIN deployed BY DEF NamesApart
<1>3. \A k \in DOMAIN logs : logs[k] # drawn
  <2>1. \A k \in DOMAIN logs : logs[k] \in Nat OBVIOUS
  <2> QED BY <2>1 DEF NamesApart
<1> QED BY <1>1, <1>2, <1>3 DEF CreatedApart

\* Setting the status of one entry leaves a history.
LEMMA MarkedType ==
    ASSUME NEW h \in Seq(Entries), NEW k, NEW v \in {"deploying", "completed", "failed"}
    PROVE  /\ [h EXCEPT ![k].status = v] \in Seq(Entries)
           /\ DOMAIN [h EXCEPT ![k].status = v] = DOMAIN h
<1> DEFINE g == [h EXCEPT ![k].status = v]
           m == Len(h)
<1>1. \A j \in DOMAIN h : h[j] \in Entries OBVIOUS
<1>2. \A x \in Entries : [x EXCEPT !.status = v] \in Entries BY DEF Entries
<1>3. \A j \in DOMAIN h : g[j] \in Entries BY <1>1, <1>2
<1>4. DOMAIN g = 1 .. m /\ m \in Nat /\ DOMAIN h = 1 .. m OBVIOUS
<1>5. g = [j \in 1 .. m |-> g[j]] BY <1>4
<1> HIDE DEF g, m
<1>6. \A j \in 1 .. m : g[j] \in Entries BY <1>3, <1>4
<1>7. g \in [1 .. m -> Entries] BY ONLY <1>5, <1>6
<1>8. g \in Seq(Entries) BY <1>4, <1>7
<1> QED BY <1>4, <1>8 DEF g

\* An entry of its own begins.
LEMMA EntryBegins ==
    ASSUME NEW h \in Seq(Entries), NEW statuses, NEW running, running \subseteq DOMAIN h,
           NEW deployed, NEW id \in Nat
    PROVE  LET e == [id |-> id, status |-> "deploying"] IN
           /\ Append(h, e) \in Seq(Entries)
           /\ running \cup {Len(Append(h, e))} \subseteq DOMAIN Append(h, e)
           /\ id \notin DOMAIN statuses /\ EntriesApart(h, statuses, running, deployed) =>
                  EntriesApart(Append(h, e), Set(statuses, id, "deploying"),
                               running \cup {Len(Append(h, e))}, deployed)
<1> DEFINE e == [id |-> id, status |-> "deploying"]
           n == Len(h) + 1
           r == Append(h, e)
           s == Set(statuses, id, "deploying")
<1>1. e \in Entries /\ e.id = id /\ e.status = "deploying" BY DEF Entries
<1> HIDE DEF e
<1>2. /\ r \in Seq(Entries) /\ Len(r) = n /\ DOMAIN r = DOMAIN h \cup {n}
      /\ r[n] = e /\ n \notin DOMAIN h /\ \A i \in DOMAIN h : r[i] = h[i]
  BY <1>1
<1>3. DOMAIN s = DOMAIN statuses \cup {id} BY SetIs
<1> HIDE DEF r, n, s
<1>4. ASSUME id \notin DOMAIN statuses, EntriesApart(h, statuses, running, deployed)
      PROVE  EntriesApart(r, s, running \cup {n}, deployed)
  <2>1. \A i \in DOMAIN h : h[i].id # id BY <1>4 DEF EntriesApart
  <2>2. \A i, j \in DOMAIN r : r[i].id = r[j].id => i = j
    BY <1>1, <1>2, <1>4, <2>1 DEF EntriesApart
  <2>3. \A i \in DOMAIN r : r[i].id \in DOMAIN s BY <1>1, <1>2, <1>3, <1>4 DEF EntriesApart
  <2>4. \A i \in DOMAIN r :
           \/ i \in running \cup {n} /\ r[i].status = "deploying"
           \/ r[i].status = "completed" /\ \E a \in DOMAIN deployed : deployed[a] = i
    BY <1>1, <1>2, <1>4 DEF EntriesApart
  <2> QED BY <2>2, <2>3, <2>4 DEF EntriesApart
<1> QED BY <1>2, <1>4 DEF e, r, s

\* A deployment ends: the entry it set to completed is its own.
LEMMA EntryEnds ==
    ASSUME NEW h \in Seq(Entries), NEW statuses, NEW running, NEW i \in DOMAIN h,
           NEW deployed, NEW a, a \notin DOMAIN deployed,
           EntriesApart(h, statuses, running, deployed)
    PROVE  LET k == Min({j \in DOMAIN h : h[j].id = h[i].id}) IN
           EntriesApart([h EXCEPT ![k].status = "completed"], Set(statuses, h[i].id, "completed"),
                        running \ {i}, Set(deployed, a, i))
<1> DEFINE k == Min({j \in DOMAIN h : h[j].id = h[i].id})
           r == [h EXCEPT ![i].status = "completed"]
           d == Set(deployed, a, i)
<1>1. k = i
  <2>1. {j \in DOMAIN h : h[j].id = h[i].id} = {i} BY DEF EntriesApart
  <2>2. i \in Nat OBVIOUS
  <2>3. Min({i}) = i BY <2>2 DEF Min
  <2> QED BY <2>1, <2>3
<1>2. \A j \in DOMAIN h : h[j] \in Entries OBVIOUS
<1>3. /\ DOMAIN r = DOMAIN h /\ \A j \in DOMAIN h \ {i} : r[j] = h[j]
      /\ r[i].id = h[i].id /\ r[i].status = "completed"
  BY <1>2 DEF Entries
<1>4. /\ DOMAIN d = DOMAIN deployed \cup {a} /\ d[a] = i
      /\ \A b \in DOMAIN deployed : d[b] = deployed[b]
  BY DEF Set
<1>5. DOMAIN Set(statuses, h[i].id, "completed") = DOMAIN statuses \cup {h[i].id} BY DEF Set
<1> HIDE DEF r, d
<1>6. \A j, l \in DOMAIN r : r[j].id = r[l].id => j = l BY <1>3 DEF EntriesApart
<1>7. \A j \in DOMAIN r : r[j].id \in DOMAIN Set(statuses, h[i].id, "completed")
  BY <1>3, <1>5 DEF EntriesApart
<1>8. ASSUME NEW j \in DOMAIN r
      PROVE  \/ j \in running \ {i} /\ r[j].status = "deploying"
             \/ r[j].status = "completed" /\ \E b \in DOMAIN d : d[b] = j
  <2>1. CASE j = i BY <1>3, <1>4, <2>1
  <2>2. CASE j # i
    <3>1. r[j] = h[j] /\ j \in DOMAIN h BY <1>3, <2>2
    <3> QED BY <1>4, <2>2, <3>1 DEF EntriesApart
  <2> QED BY <2>1, <2>2
<1>9. EntriesApart(r, Set(statuses, h[i].id, "completed"), running \ {i}, d)
  BY <1>6, <1>7, <1>8 DEF EntriesApart
<1> HIDE DEF k
<1>10. [h EXCEPT ![k].status = "completed"] = r BY <1>1 DEF r
<1> QED BY <1>9, <1>10 DEF k, d

LEMMA DeploymentsStep ==
    ASSUME DeploymentsInv, [ContractsNext]_contractsVars PROVE DeploymentsInv'
<1>0. /\ random_state \in Nat /\ contexts \in Nat
      /\ deployment_history \in Seq(Entries) /\ deploying \subseteq DOMAIN deployment_history
      /\ interaction_logs \in Seq(Nat)
  BY DEF DeploymentsInv
<1>a. contexts = 0 =>
          /\ EntriesApart(deployment_history, deployment_status, deploying, deployed_contracts)
          /\ NamesApart(random_state, deployment_status, deployed_contracts, interaction_logs)
          /\ CreatedApart(random_state, created, deployment_status, deployed_contracts,
                          interaction_logs)
  BY DEF DeploymentsInv
<1>1. ASSUME resetVMContext PROVE DeploymentsInv'
  <2>1. /\ contexts' = contexts + 1 /\ random_state' = 0
        /\ UNCHANGED <<deployment_history, deploying, interaction_logs>>
    BY <1>1 DEF resetVMContext, deployerVars, executorVars
  <2>2. contexts' \in Nat /\ contexts' # 0 /\ random_state' \in Nat BY <1>0, <2>1
  <2> QED BY <1>0, <2>1, <2>2 DEF DeploymentsInv
<1>2. ASSUME SmartContractExecutor_initialize PROVE DeploymentsInv'
  <2>1. /\ interaction_logs' = <<>>
        /\ UNCHANGED <<random_state, contexts, deployment_history, deploying, deployment_status,
                       deployed_contracts, created>>
    BY <1>2 DEF SmartContractExecutor_initialize, deployerVars
  <2>2. <<>> \in Seq(Nat) /\ DOMAIN <<>> = {} OBVIOUS
  <2>3. NamesApart(random_state, deployment_status, deployed_contracts, interaction_logs) =>
        NamesApart(random_state, deployment_status, deployed_contracts, <<>>)
    BY <2>2 DEF NamesApart
  <2>4. CreatedApart(random_state, created, deployment_status, deployed_contracts, interaction_logs) =>
        CreatedApart(random_state, created, deployment_status, deployed_contracts, <<>>)
    BY <2>2 DEF CreatedApart
  <2> QED BY <1>0, <1>a, <2>1, <2>2, <2>3, <2>4 DEF DeploymentsInv
<1>3. ASSUME UNCHANGED <<random_state, contexts, deployment_history, deploying, deployment_status,
                         deployed_contracts, interaction_logs, created>>
      PROVE  DeploymentsInv'
  BY <1>0, <1>a, <1>3 DEF DeploymentsInv
<1>4. ASSUME NEW n \in ContractNames, add_contract_to_cache(n) PROVE DeploymentsInv'
  BY <1>3, <1>4 DEF add_contract_to_cache, executorVars
<1>5. ASSUME NEW a \in Addresses, create_contract(a) \/ delete_contract(a) \/ execute_action(a)
      PROVE  DeploymentsInv'
  BY <1>3, <1>5 DEF create_contract, delete_contract, execute_action, deployerVars
<1>6. ASSUME NEW a \in Addresses, _execute_internal(a) PROVE DeploymentsInv'
  <2>1. /\ random_state' = random_state + 1 /\ interaction_logs' = Append(interaction_logs, random_state)
        /\ UNCHANGED <<contexts, deployment_history, deploying, deployment_status,
                       deployed_contracts, created>>
    BY <1>6 DEF _execute_internal, Draws, AfterDraws, deployerVars
  <2>2. /\ 1 \in Nat /\ 1 > 0 /\ random_state + 1 \in Nat
        /\ Append(interaction_logs, random_state) \in Seq(Nat)
    BY <1>0
  <2>3. contexts = 0 => NamesApart(random_state + 1, deployment_status, deployed_contracts,
                                   Append(interaction_logs, random_state))
    BY <1>0, <1>a, <2>2, NameForAction
  <2>4. contexts = 0 => CreatedApart(random_state + 1, created, deployment_status,
                                     deployed_contracts, Append(interaction_logs, random_state))
    BY <1>0, <1>a, CreatedAction
  <2> QED BY <1>0, <1>a, <2>1, <2>2, <2>3, <2>4 DEF DeploymentsInv
<1>7. ASSUME NEW n \in ContractNames, DeployUnknown(n) PROVE DeploymentsInv'
  <2> DEFINE s == Set(deployment_status, random_state, "failed")
             k == FirstWithId(random_state)
             h == IF HasId(random_state) THEN [deployment_history EXCEPT ![k].status = "failed"]
                  ELSE deployment_history
  <2>1. /\ random_state' = random_state + 2 /\ deployment_status' = s
        /\ deployment_history' = h
        /\ UNCHANGED <<contexts, deploying, deployed_contracts, interaction_logs, created>>
    BY <1>7 DEF DeployUnknown, Draws, AfterDraws, executorVars
  <2>2. 2 \in Nat /\ 2 > 0 /\ random_state + 2 \in Nat BY <1>0
  <2>3. contexts = 0 => NamesApart(random_state + 2, s, deployed_contracts, interaction_logs)
    BY <1>0, <1>a, <2>2, NameForStatus
  <2>4. DOMAIN s = DOMAIN deployment_status \cup {random_state} BY SetIs
  <2>5. h \in Seq(Entries) /\ DOMAIN h = DOMAIN deployment_history
    <3> HIDE DEF k
    <3>1. CASE HasId(random_state)
      <4>1. h = [deployment_history EXCEPT ![k].status = "failed"] BY <3>1
      <4> HIDE DEF h
      <4>2. "failed" \in {"deploying", "completed", "failed"} OBVIOUS
      <4> QED BY <1>0, <4>1, <4>2, MarkedType
    <3>2. CASE ~HasId(random_state) BY <1>0, <3>2
    <3> QED BY <3>1, <3>2
  \* A name that was just drawn is no entry's.
  <2>6. contexts = 0 => h = deployment_history
    <3> SUFFICES ASSUME contexts = 0 PROVE h = deployment_history OBVIOUS
    <3>1. random_state \notin DOMAIN deployment_status BY <1>0, <1>a DEF NamesApart
    <3>2. ~HasId(random_state) BY <1>a, <3>1 DEF EntriesApart, HasId
    <3> QED BY <3>2
  <2> HIDE DEF s, h, k
  <2>7. EntriesApart(deployment_history, deployment_status, deploying, deployed_contracts) =>
        EntriesApart(deployment_history, s, deploying, deployed_contracts)
    BY <2>4 DEF EntriesApart
  <2>8. contexts = 0 => CreatedApart(random_state + 2, created, s, deployed_contracts,
                                     interaction_logs)
    BY <1>0, <1>a, <2>2, <2>4, CreatedStay
  <2> QED BY <1>0, <1>a, <2>1, <2>2, <2>3, <2>5, <2>6, <2>7, <2>8 DEF DeploymentsInv
<1>8. ASSUME NEW n \in ContractNames, deploy_contract(n) PROVE DeploymentsInv'
  <2> DEFINE e == [id |-> random_state, status |-> "deploying"]
             h == Append(deployment_history, e)
             s == Set(deployment_status, random_state, "deploying")
             running == deploying \cup {Len(h)}
  <2>1. /\ random_state' = random_state + 1 /\ deployment_status' = s
        /\ deployment_history' = h /\ deploying' = running
        /\ UNCHANGED <<contexts, deployed_contracts, interaction_logs, created>>
    BY <1>8 DEF deploy_contract, Draws, AfterDraws, executorVars
  <2>2. 1 \in Nat /\ 1 > 0 /\ random_state + 1 \in Nat BY <1>0
  <2>3. contexts = 0 => NamesApart(random_state + 1, s, deployed_contracts, interaction_logs)
    BY <1>0, <1>a, <2>2, NameForStatus
  <2>4. contexts = 0 => random_state \notin DOMAIN deployment_status
    BY <1>0, <1>a DEF NamesApart
  <2>5. /\ h \in Seq(Entries) /\ running \subseteq DOMAIN h
        /\ random_state \notin DOMAIN deployment_status
           /\ EntriesApart(deployment_history, deployment_status, deploying, deployed_contracts) =>
                  EntriesApart(h, s, running, deployed_contracts)
    BY <1>0, EntryBegins
  <2>6. DOMAIN s = DOMAIN deployment_status \cup {random_state} BY SetIs
  <2> HIDE DEF e, h, s, running
  <2>7. contexts = 0 => CreatedApart(random_state + 1, created, s, deployed_contracts,
                                     interaction_logs)
    BY <1>0, <1>a, <2>2, <2>6, CreatedStay
  <2> QED BY <1>0, <1>a, <2>1, <2>2, <2>3, <2>4, <2>5, <2>7 DEF DeploymentsInv
<1>9. ASSUME NEW i \in deploying, _execute_deployment(i) PROVE DeploymentsInv'
  <2> DEFINE id == deployment_history[i].id
             k == Min({j \in DOMAIN deployment_history : deployment_history[j].id = id})
             h == [deployment_history EXCEPT ![k].status = "completed"]
             s == Set(deployment_status, id, "completed")
             d == Set(deployed_contracts, random_state, i)
  <2>1. /\ random_state' = random_state + 1 /\ deployment_status' = s
        /\ deployment_history' = h /\ deploying' = deploying \ {i} /\ deployed_contracts' = d
        /\ UNCHANGED <<contexts, interaction_logs, created>>
    BY <1>9 DEF _execute_deployment, Draws, AfterDraws, executorVars, FirstWithId
  <2>2. 1 \in Nat /\ 1 > 0 /\ random_state + 1 \in Nat BY <1>0
  <2>3. i \in DOMAIN deployment_history BY <1>0
  <2>4. h \in Seq(Entries) /\ DOMAIN h = DOMAIN deployment_history
    <3> HIDE DEF k
    <3>1. "completed" \in {"deploying", "completed", "failed"} OBVIOUS
    <3> QED BY <1>0, <3>1, MarkedType
  <2>5. contexts = 0 => EntriesApart(h, s, deploying \ {i}, d)
    <3>1. contexts = 0 => random_state \notin DOMAIN deployed_contracts
      BY <1>0, <1>a DEF NamesApart
    <3> QED BY <1>0, <1>a, <2>3, <3>1, EntryEnds
  <2>6. contexts = 0 => NamesApart(random_state + 1, deployment_status, d, interaction_logs)
    BY <1>0, <1>a, <2>2, NameForAddress
  <2>7. DOMAIN s = DOMAIN deployment_status \cup {id} BY DEF Set
  <2>8. contexts = 0 => id \in DOMAIN deployment_status BY <1>a, <2>3 DEF EntriesApart
  <2>d. DOMAIN d = DOMAIN deployed_contracts \cup {random_state} BY DEF Set
  <2> HIDE DEF h, s, d, id
  <2>9. contexts = 0 => NamesApart(random_state + 1, s, d, interaction_logs)
    <3> SUFFICES ASSUME contexts = 0
                 PROVE  NamesApart(random_state + 1, s, d, interaction_logs)
      OBVIOUS
    <3>1. DOMAIN s = DOMAIN deployment_status BY <2>7, <2>8
    <3>2. NamesApart(random_state + 1, deployment_status, d, interaction_logs) BY <2>6
    <3> QED BY <3>1, <3>2 DEF NamesApart
  <2>10. contexts = 0 => CreatedApart(random_state + 1, created, s, d, interaction_logs)
    <3> SUFFICES ASSUME contexts = 0
                 PROVE  CreatedApart(random_state + 1, created, s, d, interaction_logs)
      OBVIOUS
    <3>1. DOMAIN s \subseteq DOMAIN deployment_status \cup {random_state} BY <2>7, <2>8
    <3>2. DOMAIN d \subseteq DOMAIN deployed_contracts \cup {random_state} BY <2>d
    <3> QED BY <1>0, <1>a, <2>2, <3>1, <3>2, CreatedStay
  <2> QED BY <1>0, <2>1, <2>2, <2>4, <2>5, <2>9, <2>10 DEF DeploymentsInv
<1>11. ASSUME execute_contract_creation PROVE DeploymentsInv'
  <2>1. /\ random_state' = random_state + 1 /\ created' = created \cup {random_state}
        /\ UNCHANGED <<contexts, deployment_history, deploying, deployment_status,
                       deployed_contracts, interaction_logs>>
    BY <1>11 DEF execute_contract_creation, Draws, AfterDraws, deployerVars, executorVars
  <2>2. 1 \in Nat /\ random_state + 1 \in Nat BY <1>0
  <2>3. contexts = 0 => NamesApart(random_state + 1, deployment_status, deployed_contracts,
                                   interaction_logs)
    BY <1>0, <1>a, <2>2, NamesStay
  <2>4. contexts = 0 => CreatedApart(random_state + 1, created \cup {random_state},
                                     deployment_status, deployed_contracts, interaction_logs)
    BY <1>0, <1>a, CreatedNew
  <2> QED BY <1>0, <1>a, <2>1, <2>2, <2>3, <2>4 DEF DeploymentsInv
<1>10. ASSUME UNCHANGED contractsVars PROVE DeploymentsInv'
  BY <1>3, <1>10 DEF contractsVars
<1> QED BY <1>1, <1>2, <1>4, <1>5, <1>6, <1>7, <1>8, <1>9, <1>10, <1>11 DEF ContractsNext

LEMMA DeploymentsThen ==
    ASSUME DeploymentsInv PROVE DeploymentsKeepApart
<1>1. interaction_logs \in Seq(Nat) BY DEF DeploymentsInv
<1>2. ASSUME contexts = 0
      PROVE  created \cap (DOMAIN deployed_contracts \cup DOMAIN deployment_status
                              \cup Range(interaction_logs)) = {}
  BY <1>2 DEF DeploymentsInv, CreatedApart, Range
<1> QED BY <1>1, <1>2 DEF DeploymentsInv, DeploymentsKeepApart, EntriesApart, NamesApart

-----------------------------------------------------------------------------
(* The virtual machine *)

MachineInv ==
    /\ executing = [e \in Executions |-> executing[e]] /\ alone \subseteq Executions
    /\ \A e \in alone :
          /\ executing[e] \in {Waiting, CodeGas}
          /\ executing[e] = Waiting => WaitingNow = {e} /\ gas_used = 0

LEMMA CodeGasIs == CodeGas \in Nat
<1> DEFINE S == {"STOP", "ADD", "MUL", "LT", "EQ", "ADDRESS"}
           zero == [x \in S |-> 0]
<1>1. /\ DOMAIN operations = S /\ \A x \in S : operations[x] \in Int /\ 0 <= operations[x]
  BY DEF operations
<1>2. IsFiniteSet(S)
  <2>1. S = {"STOP"} \cup {"ADD"} \cup {"MUL"} \cup {"LT"} \cup {"EQ"} \cup {"ADDRESS"} OBVIOUS
  <2> HIDE DEF S
  <2> QED BY <2>1, FS_Singleton, FS_Union
<1> HIDE DEF S
<1>3. SumFunctionOnSet(operations, S) \in Int BY <1>1, <1>2, SumType
<1>4. SumFunctionOnSet(zero, S) = 0
  <2>1. \A x \in S : zero[x] = 0 OBVIOUS
  <2> HIDE DEF zero
  <2> QED BY <1>2, <2>1, SumZero
<1>5. SumFunctionOnSet(zero, S) <= SumFunctionOnSet(operations, S)
  <2>1. \A x \in S : zero[x] \in Int /\ operations[x] \in Int /\ zero[x] <= operations[x] BY <1>1
  <2> HIDE DEF zero
  <2> QED BY <1>2, <2>1, SumMonotone
<1>6. CodeGas = SumFunctionOnSet(operations, S) BY <1>1 DEF CodeGas, SumFunction
<1> HIDE DEF zero
<1> QED BY <1>3, <1>4, <1>5, <1>6

LEMMA MachineInitial == MachineInit => MachineInv
BY DEF MachineInit, MachineInv

LEMMA MachineStep == MachineInv /\ [MachineNext]_machineVars => MachineInv'
<1> SUFFICES ASSUME MachineInv, [MachineNext]_machineVars PROVE MachineInv' OBVIOUS
<1>0. /\ executing = [e \in Executions |-> executing[e]] /\ alone \subseteq Executions
      /\ CodeGas \in Nat
  BY CodeGasIs DEF MachineInv
<1>1. ASSUME NEW e \in Executions, execute_code(e) PROVE MachineInv'
  <2>1. /\ executing[e] = NotCalled /\ gas_used' = 0
        /\ executing' = [executing EXCEPT ![e] = Waiting]
        /\ alone' = IF WaitingNow = {} THEN {e} \cup alone ELSE alone \ WaitingNow
    BY <1>1 DEF execute_code, AtStart
  <2>2. /\ executing' = [f \in Executions |-> executing'[f]] /\ alone' \subseteq Executions
        /\ executing'[e] = Waiting /\ \A f \in Executions \ {e} : executing'[f] = executing[f]
    BY <1>0, <2>1
  <2>3. e \notin alone BY <1>0, <2>1 DEF MachineInv, NotCalled, Waiting
  <2>4. ASSUME NEW f \in alone'
        PROVE  /\ executing'[f] \in {Waiting, CodeGas}
               /\ executing'[f] = Waiting => WaitingNow' = {f} /\ gas_used' = 0
    <3>1. CASE WaitingNow = {} /\ f = e
      <4>1. WaitingNow' = {e} BY <1>0, <2>2, <3>1 DEF WaitingNow
      <4> QED BY <2>1, <2>2, <3>1, <4>1
    <3>2. CASE f # e
      <4>1. f \in alone /\ f \notin WaitingNow BY <2>1, <3>2
      <4>2. executing'[f] = CodeGas
        BY <1>0, <2>2, <3>2, <4>1 DEF MachineInv, WaitingNow
      <4> QED BY <1>0, <4>2 DEF Waiting
    <3> QED BY <2>1, <2>3, <3>1, <3>2
  <2> QED BY <2>2, <2>4 DEF MachineInv
<1>2. ASSUME NEW e \in Executions, _execute_contract_code(e) PROVE MachineInv'
  <2>1. /\ executing[e] = Waiting /\ gas_used' = gas_used + CodeGas
        /\ executing' = [executing EXCEPT ![e] = gas_used'] /\ alone' = alone
    BY <1>2 DEF _execute_contract_code
  <2>2. /\ executing' = [f \in Executions |-> executing'[f]]
        /\ executing'[e] = gas_used' /\ \A f \in Executions \ {e} : executing'[f] = executing[f]
    BY <1>0, <2>1
  <2>3. ASSUME NEW f \in alone PROVE executing'[f] = CodeGas
    <3>1. CASE f = e
      <4>1. gas_used = 0 BY <2>1, <3>1 DEF MachineInv
      <4> QED BY <1>0, <2>1, <2>2, <3>1, <4>1
    <3>2. CASE f # e
      <4>1. executing[f] # Waiting
        <5>1. e \in WaitingNow BY <2>1 DEF WaitingNow
        <5> QED BY <3>2, <5>1 DEF MachineInv
      <4> QED BY <1>0, <2>2, <3>2, <4>1 DEF MachineInv
    <3> QED BY <3>1, <3>2
  <2>4. CodeGas # Waiting BY <1>0 DEF Waiting
  <2> QED BY <1>0, <2>1, <2>2, <2>3, <2>4 DEF MachineInv
<1>3. CASE UNCHANGED machineVars BY <1>3 DEF machineVars, MachineInv, WaitingNow
<1> QED BY <1>1, <1>2, <1>3 DEF MachineNext

-----------------------------------------------------------------------------
(* The connection to the database *)

\* The timer at j ends before the one at i.
EndsBefore(ts, j, i) ==
    ts[j].left < ts[i].left \/ (ts[j].left = ts[i].left /\ j < i)

\* Connected, and nobody disconnects.
Connected == is_connected = TRUE /\ \A j \in DOMAIN timers : timers[j].what # "disconnect"

\* Whoever disconnects does so before somebody connects.
WillConnect ==
    \E i \in DOMAIN timers :
        /\ timers[i].what # "disconnect"
        /\ \A j \in DOMAIN timers : timers[j].what = "disconnect" => EndsBefore(timers, j, i)

Timers == [what : {"connect", "disconnect", "test"}, left : 0 .. CONNECT_DELAY]

DatabaseInv ==
    /\ timers \in Seq(Timers)
    /\ called = "connect" => Connected \/ WillConnect

LEMMA DatabaseInitial == DatabaseInit => DatabaseInv
BY DEF DatabaseInit, DatabaseInv

LEMMA DatabaseStep == DatabaseInv /\ [DatabaseNext]_databaseVars => DatabaseInv'
<1> SUFFICES ASSUME DatabaseInv, [DatabaseNext]_databaseVars PROVE DatabaseInv' OBVIOUS
<1> DEFINE n == Len(timers)
<1>0. /\ n \in Nat /\ DOMAIN timers = 1 .. n /\ timers \in Seq(Timers)
      /\ \A i \in 1 .. n : /\ timers[i] \in Timers /\ timers[i].left \in 0 .. 5
                           /\ timers[i].what \in {"connect", "disconnect", "test"}
  <2>1. n \in Nat /\ DOMAIN timers = 1 .. n /\ timers \in Seq(Timers) BY DEF DatabaseInv
  <2>2. ASSUME NEW i \in 1 .. n
        PROVE  /\ timers[i] \in Timers /\ timers[i].left \in 0 .. 5
               /\ timers[i].what \in {"connect", "disconnect", "test"}
    <3>1. timers[i] \in Timers BY <2>1, <2>2
    <3> QED BY <3>1 DEF Timers, CONNECT_DELAY
  <2> QED BY <2>1, <2>2
\* One that connects, called last, ends last.
<1>1. ASSUME NEW what \in {"connect", "test"}, timers' = Waits(what) PROVE DatabaseInv'
  <2> DEFINE t == [what |-> what, left |-> 5]
  <2>1. timers' = Append(timers, t) BY <1>1 DEF Waits, CONNECT_DELAY
  <2>2. t \in Timers /\ t.what # "disconnect" /\ t.left = 5 BY DEF Timers, CONNECT_DELAY
  <2> HIDE DEF t
  <2>3. /\ timers' \in Seq(Timers) /\ DOMAIN timers' = 1 .. (n + 1)
        /\ timers'[n + 1] = t /\ \A j \in 1 .. n : timers'[j] = timers[j]
    BY <1>0, <2>1, <2>2
  <2>4. ASSUME NEW j \in 1 .. (n + 1), timers'[j].what = "disconnect"
        PROVE  EndsBefore(timers', j, n + 1)
    <3>1. j \in 1 .. n /\ timers'[j].left \in 0 .. 5 BY <1>0, <2>2, <2>3, <2>4
    <3> QED BY <1>0, <2>2, <2>3, <3>1 DEF EndsBefore
  <2>5. n + 1 \in 1 .. (n + 1) BY <1>0
  <2>6. WillConnect' BY <2>2, <2>3, <2>4, <2>5 DEF WillConnect
  <2> QED BY <2>3, <2>6 DEF DatabaseInv
<1>2. CASE connect BY <1>1, <1>2 DEF connect
<1>3. CASE test_connection BY <1>1, <1>3 DEF test_connection
<1>4. CASE disconnect
  <2> DEFINE t == [what |-> "disconnect", left |-> 2]
  <2>1. timers' = Append(timers, t) /\ called' = "disconnect"
    BY <1>4 DEF disconnect, Waits, DISCONNECT_DELAY
  <2>2. t \in Timers BY DEF Timers, CONNECT_DELAY
  <2> HIDE DEF t
  <2>3. timers' \in Seq(Timers) BY <1>0, <2>1, <2>2
  <2> QED BY <2>1, <2>3 DEF DatabaseInv
<1>5. CASE TimeGoesOn
  <2>1. /\ \A i \in 1 .. n : timers[i].left > 0
        /\ timers' = [i \in 1 .. n |-> [timers[i] EXCEPT !.left = @ - 1]]
        /\ is_connected' = is_connected /\ called' = called
    BY <1>0, <1>5 DEF TimeGoesOn
  <2>2. ASSUME NEW i \in 1 .. n
        PROVE  /\ timers'[i] \in Timers /\ timers'[i].what = timers[i].what
               /\ timers'[i].left = timers[i].left - 1
    <3>1. timers'[i] = [timers[i] EXCEPT !.left = @ - 1] BY <2>1
    <3>2. timers[i].left \in 1 .. 5 BY <1>0, <2>1
    <3> QED BY <1>0, <3>1, <3>2 DEF Timers, CONNECT_DELAY
  <2>3. DOMAIN timers' = 1 .. n /\ timers' \in Seq(Timers)
    <3>1. DOMAIN timers' = 1 .. n /\ timers' = [i \in 1 .. n |-> timers'[i]] BY <2>1
    <3> QED BY <1>0, <2>2, <3>1
  <2>4. Connected => Connected' BY <1>0, <2>1, <2>2, <2>3 DEF Connected
  <2>5. ASSUME WillConnect PROVE WillConnect'
    <3>1. PICK i \in 1 .. n :
             /\ timers[i].what # "disconnect"
             /\ \A j \in 1 .. n : timers[j].what = "disconnect" => EndsBefore(timers, j, i)
      BY <1>0, <2>5 DEF WillConnect
    <3>2. ASSUME NEW j \in 1 .. n, timers'[j].what = "disconnect" PROVE EndsBefore(timers', j, i)
      <4>1. EndsBefore(timers, j, i) BY <2>2, <3>1, <3>2
      <4>2. timers[i].left \in Int /\ timers[j].left \in Int BY <1>0
      <4> QED BY <2>2, <4>1, <4>2 DEF EndsBefore
    <3> QED BY <2>2, <2>3, <3>1, <3>2 DEF WillConnect
  <2> QED BY <2>1, <2>3, <2>4, <2>5 DEF DatabaseInv
<1>6. CASE TimerEnds
  <2>1. PICK k \in 1 .. n :
           /\ timers[k].left = 0 /\ \A j \in 1 .. k - 1 : timers[j].left > 0
           /\ is_connected' = (timers[k].what # "disconnect")
           /\ IF timers[k].what = "test"
              THEN /\ timers' = Append(RemoveAt(timers, k), [what |-> "disconnect", left |-> 2])
                   /\ called' = "disconnect"
              ELSE timers' = RemoveAt(timers, k) /\ UNCHANGED called
    BY <1>0, <1>6 DEF TimerEnds, DISCONNECT_DELAY
  <2> DEFINE r == RemoveAt(timers, k)
  <2>2. /\ r \in Seq(Timers) /\ Len(r) = n - 1
        /\ \A i \in 1 .. n - 1 : r[i] = IF i < k THEN timers[i] ELSE timers[i + 1]
    BY <1>0, RemovedAt
  <2> HIDE DEF r
  <2>3. CASE timers[k].what = "test"
    <3> DEFINE t == [what |-> "disconnect", left |-> 2]
    <3>1. t \in Timers BY DEF Timers, CONNECT_DELAY
    <3>2. timers' = Append(r, t) /\ called' = "disconnect" BY <2>1, <2>3 DEF r
    <3> HIDE DEF t
    <3>3. timers' \in Seq(Timers) BY <2>2, <3>1, <3>2
    <3> QED BY <3>2, <3>3 DEF DatabaseInv
  <2>4. CASE timers[k].what # "test"
    <3>0. timers' = r /\ called' = called BY <2>1, <2>4 DEF r
    <3>1. DOMAIN timers' = 1 .. n - 1 BY <2>2, <3>0
    <3>2. ASSUME Connected PROVE Connected'
      <4>1. timers[k].what # "disconnect" BY <1>0, <3>2 DEF Connected
      <4>2. is_connected' = TRUE BY <2>1, <4>1
      <4>3. ASSUME NEW i \in 1 .. n - 1 PROVE timers'[i].what # "disconnect"
        <5>1. timers'[i] = timers[i] \/ timers'[i] = timers[i + 1] BY <2>2, <3>0
        <5>2. i \in 1 .. n /\ i + 1 \in 1 .. n BY <1>0
        <5> QED BY <1>0, <3>2, <5>1, <5>2 DEF Connected
      <4> QED BY <3>1, <4>2, <4>3 DEF Connected
    <3>3. ASSUME WillConnect PROVE Connected' \/ WillConnect'
      <4>1. PICK i \in 1 .. n :
               /\ timers[i].what # "disconnect"
               /\ \A j \in 1 .. n : timers[j].what = "disconnect" => EndsBefore(timers, j, i)
        BY <1>0, <3>3 DEF WillConnect
      <4>2. CASE i = k
        <5>1. is_connected' = TRUE BY <2>1, <4>1, <4>2
        <5>2. ASSUME NEW j \in 1 .. n PROVE timers[j].what # "disconnect"
          <6> SUFFICES ASSUME timers[j].what = "disconnect" PROVE FALSE OBVIOUS
          <6>1. EndsBefore(timers, j, k) BY <4>1, <4>2
          <6>2. timers[j].left \in 0 .. 5 /\ timers[k].left = 0 BY <1>0, <2>1
          <6>3. timers[j].left = 0 /\ j < k BY <6>1, <6>2 DEF EndsBefore
          <6>4. j \in 1 .. k - 1 BY <6>3
          <6> QED BY <2>1, <6>3, <6>4
        <5>3. ASSUME NEW j \in 1 .. n - 1 PROVE timers'[j].what # "disconnect"
          <6>1. timers'[j] = timers[j] \/ timers'[j] = timers[j + 1] BY <2>2, <3>0
          <6>2. j \in 1 .. n /\ j + 1 \in 1 .. n BY <1>0
          <6> QED BY <5>2, <6>1, <6>2
        <5> QED BY <3>1, <5>1, <5>3 DEF Connected
      <4>3. CASE i # k
        <5> DEFINE Was(j) == IF j < k THEN j ELSE j + 1
                   h == IF i < k THEN i ELSE i - 1
        <5>1. h \in 1 .. n - 1 /\ timers'[h] = timers[i] /\ Was(h) = i BY <1>0, <2>2, <3>0, <4>3
        <5>2. ASSUME NEW j \in 1 .. n - 1, timers'[j].what = "disconnect"
              PROVE  EndsBefore(timers', j, h)
          <6>1. Was(j) \in 1 .. n /\ timers'[j] = timers[Was(j)] BY <1>0, <2>2, <3>0
          <6>2. EndsBefore(timers, Was(j), i) BY <4>1, <5>2, <6>1
          <6>3. Was(j) < i => j < h BY <1>0, <4>3
          <6> HIDE DEF h, Was
          <6> QED BY <5>1, <6>1, <6>2, <6>3 DEF EndsBefore
        <5> QED BY <3>1, <4>1, <5>1, <5>2 DEF WillConnect
      <4> QED BY <4>2, <4>3
    <3> QED BY <2>2, <3>0, <3>2, <3>3 DEF DatabaseInv
  <2> QED BY <2>3, <2>4
<1>7. CASE UNCHANGED databaseVars
  BY <1>7 DEF databaseVars, DatabaseInv, Connected, WillConnect, EndsBefore
<1> QED BY <1>2, <1>3, <1>4, <1>5, <1>6, <1>7 DEF DatabaseNext

LEMMA DatabaseThen == DatabaseInv => LastConnectStands
BY DEF DatabaseInv, LastConnectStands, Connected, WillConnect

LEMMA MachineThen == MachineInv => ExecutionsPayAlone
BY DEF MachineInv, ExecutionsPayAlone

-----------------------------------------------------------------------------
(* The API server *)

\* The route of a request, which depends on its method and its path.
LEMMA RouteIs ==
    ASSUME NEW p
    PROVE  /\ HandlerOf(p) = IF RouteOf(p) = 0 THEN "none" ELSE initializeRoutes[RouteOf(p)].handler
           /\ RouteOf(p) # 0 => /\ RouteOf(p) \in 1 .. 17
                                /\ initializeRoutes[RouteOf(p)].method = p.method
<1> DEFINE I == {i \in 1 .. 17 : /\ initializeRoutes[i].method = p.method
                                 /\ PatternOf(initializeRoutes[i].path) = p.path}
<1>1. Len(initializeRoutes) = 17 BY DEF initializeRoutes
<1>2. RouteOf(p) = IF I # {} THEN Min(I) ELSE 0 BY <1>1 DEF RouteOf, SelectInSeq
<1>3. I # {} => Min(I) \in I
  <2>1. I \subseteq Nat OBVIOUS
  <2> HIDE DEF I
  <2> QED BY <2>1, Least DEF Min
<1> QED BY <1>2, <1>3 DEF HandlerOf

LEMMA SameRoute ==
    ASSUME NEW p, NEW q, p.method = q.method, p.path = q.path
    PROVE  HandlerOf(p) = HandlerOf(q)
BY DEF HandlerOf, RouteOf

\* What the paths of the routes are made of.
Segments == {"", Index, "api", "blocks", "hash", "transactions", "wallets", "tokenomics", "supply",
             "mint", "consensus", "mine", "forge", "health"}

\* The routes of the method GET read or find.
LEMMA RoutesOfGet ==
    ASSUME NEW i \in 1 .. 17
    PROVE  /\ initializeRoutes[i].path \in Seq(Segments)
           /\ initializeRoutes[i].method = "GET" =>
                  initializeRoutes[i].handler \in Readers \cup Finders
           /\ initializeRoutes[i].handler # "none"
<1>1. \/ i = 1 \/ i = 2 \/ i = 3 \/ i = 4 \/ i = 5 \/ i = 6 \/ i = 7 \/ i = 8 \/ i = 9
      \/ i = 10 \/ i = 11 \/ i = 12 \/ i = 13 \/ i = 14 \/ i = 15 \/ i = 16 \/ i = 17
  OBVIOUS
<1>2. initializeRoutes[i].path \in Seq(Segments)
  <2> DEFINE S == Seq(Segments)
  <2>1. ASSUME NEW a \in Segments, NEW b \in Segments PROVE <<a, b>> \in S OBVIOUS
  <2>2. ASSUME NEW a \in Segments, NEW b \in Segments, NEW c \in Segments PROVE <<a, b, c>> \in S
    OBVIOUS
  <2>3. ASSUME NEW a \in Segments, NEW b \in Segments, NEW c \in Segments, NEW d \in Segments
        PROVE  <<a, b, c, d>> \in S
    OBVIOUS
  <2>4. {Index, "api", "blocks", "hash", "transactions", "wallets", "tokenomics", "supply",
         "mint", "consensus", "mine", "forge", "health"} \subseteq Segments
    BY DEF Segments
  <2> HIDE DEF S
  <2>5. /\ initializeRoutes[1].path \in S /\ initializeRoutes[2].path \in S
        /\ initializeRoutes[3].path \in S /\ initializeRoutes[4].path \in S
        /\ initializeRoutes[5].path \in S /\ initializeRoutes[6].path \in S
    BY <2>1, <2>2, <2>3, <2>4 DEF initializeRoutes, Route
  <2>6. /\ initializeRoutes[7].path \in S /\ initializeRoutes[8].path \in S
        /\ initializeRoutes[9].path \in S /\ initializeRoutes[10].path \in S
        /\ initializeRoutes[11].path \in S /\ initializeRoutes[12].path \in S
    BY <2>1, <2>2, <2>3, <2>4 DEF initializeRoutes, Route
  <2>7. /\ initializeRoutes[13].path \in S /\ initializeRoutes[14].path \in S
        /\ initializeRoutes[15].path \in S /\ initializeRoutes[16].path \in S
        /\ initializeRoutes[17].path \in S
    BY <2>1, <2>2, <2>3, <2>4 DEF initializeRoutes, Route
  <2> QED BY <1>1, <2>5, <2>6, <2>7 DEF S
<1>3. /\ initializeRoutes[i].method = "GET" => initializeRoutes[i].handler \in Readers \cup Finders
      /\ initializeRoutes[i].handler # "none"
  BY <1>1 DEF initializeRoutes, Route, Readers, Finders
<1> QED BY <1>2, <1>3

\* No pattern has a parameter.
LEMMA PatternHasNoIndex ==
    ASSUME NEW path \in Seq(Segments), NEW i \in DOMAIN PatternOf(path)
    PROVE  PatternOf(path)[i] # Index
<1> DEFINE I == {j \in 1 .. Len(path) : path[j] = Index}
           m == Min(I)
<1>1. DOMAIN path = 1 .. Len(path) /\ Len(path) \in Nat OBVIOUS
<1>2. CASE Index \notin ToSet(path)
  <2>1. PatternOf(path) = path BY <1>2 DEF PatternOf
  <2> QED BY <1>2, <2>1 DEF ToSet
<1>3. CASE Index \in ToSet(path)
  <2>1. I # {} BY <1>1, <1>3 DEF ToSet
  <2>2. m \in I /\ \A j \in I : m <= j
    <3>1. I \subseteq Nat OBVIOUS
    <3> HIDE DEF I
    <3> QED BY <2>1, <3>1, Least DEF Min
  <2>3. SelectInSeq(path, LAMBDA s : s = Index) = m BY <2>1 DEF SelectInSeq
  <2> DEFINE a == SubSeq(path, 1, m - 1)
             b == <<"">>
  <2>4. PatternOf(path) = a \o b BY <1>3, <2>3 DEF PatternOf
  <2> HIDE DEF m
  <2>5. m \in 1 .. Len(path) /\ \A j \in 1 .. m - 1 : path[j] # Index BY <1>1, <2>2
  <2>6. /\ a \in Seq(Segments) /\ Len(a) = m - 1 /\ \A j \in 1 .. m - 1 : a[j] = path[j]
        /\ b \in Seq(Segments) /\ Len(b) = 1 /\ b[1] = ""
    <3>1. m \in Nat /\ m >= 1 /\ m <= Len(path) /\ Len(path) \in Nat BY <1>1, <2>5
    <3>2. a \in Seq(Segments) /\ Len(a) = m - 1 BY <3>1
    <3>3. \A j \in 1 .. m - 1 : a[j] = path[j] BY <3>1
    <3>4. b \in Seq(Segments) /\ Len(b) = 1 /\ b[1] = ""
      <4>1. ASSUME NEW e \in Segments
            PROVE  <<e>> \in Seq(Segments) /\ Len(<<e>>) = 1 /\ <<e>>[1] = e
        OBVIOUS
      <4>2. "" \in Segments BY DEF Segments
      <4> QED BY <4>1, <4>2
    <3> QED BY <3>2, <3>3, <3>4
  <2> HIDE DEF a, b
  <2>7. /\ DOMAIN (a \o b) = 1 .. m
        /\ \A j \in 1 .. m : (a \o b)[j] = IF j <= m - 1 THEN a[j] ELSE b[j - (m - 1)]
    <3>1. /\ Len(a \o b) = Len(a) + Len(b) /\ a \o b \in Seq(Segments)
          /\ \A j \in 1 .. Len(a) + Len(b) :
                (a \o b)[j] = IF j <= Len(a) THEN a[j] ELSE b[j - Len(a)]
      BY <2>6, ConcatProperties
    <3>2. Len(a) + Len(b) = m /\ m \in Nat
      <4>1. m \in Nat /\ m >= 1 BY <1>1, <2>5
      <4>2. Len(a) = m - 1 /\ Len(b) = 1 BY <2>6
      <4> QED BY ONLY <4>1, <4>2
    <3> DEFINE c == a \o b
    <3> HIDE DEF c
    <3>3. c \in Seq(Segments) /\ Len(c) = m BY <3>1, <3>2 DEF c
    <3>4. DOMAIN c = 1 .. m BY <3>3
    <3>5. ASSUME NEW j \in 1 .. m PROVE c[j] = IF j <= m - 1 THEN a[j] ELSE b[j - (m - 1)]
      BY <2>6, <3>1, <3>2 DEF c
    <3> QED BY <3>4, <3>5 DEF c
  <2>8. i \in 1 .. m BY <2>4, <2>7
  <2>9. CASE i <= m - 1
    <3>1. i \in 1 .. m - 1 BY <2>5, <2>8, <2>9
    <3> QED BY <2>4, <2>5, <2>6, <2>7, <2>8, <2>9, <3>1
  <2>10. CASE ~(i <= m - 1)
    <3>1. i - (m - 1) = 1 BY <2>5, <2>8, <2>10
    <3> QED BY <2>4, <2>6, <2>7, <2>8, <2>10, <3>1 DEF Index
  <2> QED BY <2>9, <2>10
<1> QED BY <1>2, <1>3

\* A GET is answered with success by those that read, for nothing is found.
LEMMA AnswerIs ==
    ASSUME NEW p, p.method = "GET" \/ HandlerOf(p) = "none", Answer(p) = 200
    PROVE  HandlerOf(p) \in Readers
<1>1. HandlerOf(p) # "none"
  <2>1. HandlerOf(p) = "none" => Answer(p) = 404
    BY DEF Answer, Readers
  <2> QED BY <2>1
<1>2. RouteOf(p) \in 1 .. 17 /\ HandlerOf(p) \in Readers \cup Finders
  <2>1. RouteOf(p) # 0 BY <1>1, RouteIs
  <2>2. /\ RouteOf(p) \in 1 .. 17 /\ initializeRoutes[RouteOf(p)].method = "GET"
        /\ HandlerOf(p) = initializeRoutes[RouteOf(p)].handler
    BY <1>1, <2>1, RouteIs
  <2> DEFINE i == RouteOf(p)
  <2> HIDE DEF i
  <2>3. i \in 1 .. 17 /\ initializeRoutes[i].method = "GET" BY <2>2 DEF i
  <2>4. initializeRoutes[i].handler \in Readers \cup Finders BY <2>3, RoutesOfGet
  <2> QED BY <2>2, <2>4 DEF i
<1>3. ParamsOf(p) = {}
  <2>1. \A k \in 1 .. 17 : initializeRoutes[k].path \in Seq(Segments) BY ONLY RoutesOfGet
  <2> DEFINE path == initializeRoutes[RouteOf(p)].path
  <2>2. path \in Seq(Segments)
    <3> DEFINE i == RouteOf(p)
    <3>1. i \in 1 .. 17 /\ path = initializeRoutes[i].path BY <1>2
    <3> HIDE DEF i, path
    <3> QED BY ONLY <2>1, <3>1
  <2>3. ParamsOf(p) = extractParams(PatternOf(path), p.path) BY DEF ParamsOf
  <2> HIDE DEF path
  <2>4. \A j \in DOMAIN PatternOf(path) : PatternOf(path)[j] # Index BY <2>2, PatternHasNoIndex
  <2> QED BY <2>3, <2>4 DEF extractParams
<1>4. \A things : Found(ParamsOf(p), things) = 500 BY <1>3 DEF Found
<1>5. HandlerOf(p) \in Finders => Answer(p) = 500
  BY <1>4 DEF Answer, Readers, Finders, getBlockByIndex, getBlockByHash, getTransactionById
<1> QED BY <1>2, <1>5

\* What a request may have come to when the chain is c.
RequestFields == {"method", "path", "at", "status", "built"}
Makers == {"mineBlock", "forgeBlock"}
RequestRight(q, r, c) ==
    /\ DOMAIN q = RequestFields /\ q.built \in Nat
    /\ q.at # "sent" => q.status = 0
    /\ q.at = "making" => HandlerOf(q) \in Makers /\ q.built <= Len(c)
    /\ q.status = 200 =>
          /\ HandlerOf(q) \notin Finders \cup {"addBlock", "addTransaction"}
          /\ HandlerOf(q) \in Makers => r \in ToSet(c) \/ q.built < Len(c)

Minter(q) == q.status = 200 /\ HandlerOf(q) = "mintTokens"
MintersOf(s) == {r \in ApiRequests : Minter(s[r])}

ApiInv ==
    /\ chain \in Seq(ApiRequests) /\ DOMAIN requests = ApiRequests
    /\ \A r \in ApiRequests : RequestRight(requests[r], r, chain)
    /\ \A i \in DOMAIN chain :
          requests[chain[i]].built = i - 1 /\ requests[chain[i]].status = 200
    /\ minted = Cardinality(MintersOf(requests))
    /\ DOMAIN servers = 1 .. Len(servers) /\ Len(servers) \in Nat
    /\ \A s, t \in DOMAIN servers :
          servers[s] = "listening" /\ servers[t] = "listening" => s = t

LEMMA ApiInitial ==
    ASSUME ApiInit PROVE ApiInv
<1>1. /\ requests = [r \in ApiRequests |-> NoRequest] /\ chain = <<>> /\ minted = 0
      /\ servers = <<>>
  BY DEF ApiInit
<1>n. /\ DOMAIN NoRequest = RequestFields /\ NoRequest.built = 0 /\ NoRequest.at = "none"
      /\ NoRequest.status = 0
  BY DEF NoRequest, RequestFields
<1>2. ASSUME NEW r \in ApiRequests PROVE RequestRight(requests[r], r, chain)
  <2>1. requests[r] = NoRequest BY <1>1
  <2> QED BY <1>n, <2>1 DEF RequestRight
<1>3. MintersOf(requests) = {}
  <2>1. \A r \in ApiRequests : requests[r] = NoRequest BY <1>1
  <2> QED BY <1>n, <2>1 DEF MintersOf, Minter
<1>4. Cardinality({}) = 0 BY FS_EmptySet
<1>5. chain \in Seq(ApiRequests) /\ DOMAIN chain = {} BY <1>1
<1>6. DOMAIN servers = {} /\ Len(servers) = 0 /\ DOMAIN servers = 1 .. Len(servers) BY <1>1
<1> QED BY <1>1, <1>2, <1>3, <1>4, <1>5, <1>6 DEF ApiInv

\* A request that is not answered yet goes on: no other is touched, and none of those in
\* the chain, which have their answers.
LEMMA RequestChanged ==
    ASSUME ApiInv, NEW r \in ApiRequests, requests[r].at # "sent",
           NEW q, requests' = [requests EXCEPT ![r] = q], RequestRight(q, r, chain'),
           \/ chain' = chain
           \/ chain' = Append(chain, r) /\ q.built = Len(chain) /\ q.status = 200,
           minted' = minted + IF Minter(q) THEN 1 ELSE 0,
           UNCHANGED serverVars
    PROVE  ApiInv'
<1>0. /\ chain \in Seq(ApiRequests) /\ DOMAIN requests = ApiRequests
      /\ Len(chain) \in Nat /\ DOMAIN chain = 1 .. Len(chain)
      /\ minted = Cardinality(MintersOf(requests))
  BY DEF ApiInv
<1>a. \A x \in ApiRequests : RequestRight(requests[x], x, chain) BY DEF ApiInv
<1>b. \A i \in DOMAIN chain :
          requests[chain[i]].built = i - 1 /\ requests[chain[i]].status = 200
  BY DEF ApiInv
<1>1. /\ DOMAIN requests' = ApiRequests /\ requests'[r] = q
      /\ \A x \in ApiRequests \ {r} : requests'[x] = requests[x]
  BY <1>0
<1>2. requests[r].status = 0 BY <1>a DEF RequestRight
<1>3. /\ chain' \in Seq(ApiRequests) /\ Len(chain') \in Nat /\ Len(chain') >= Len(chain)
      /\ ToSet(chain) \subseteq ToSet(chain')
  <2>1. CASE chain' = chain BY <1>0, <2>1
  <2>2. CASE chain' = Append(chain, r)
    <3>1. /\ Append(chain, r) \in Seq(ApiRequests) /\ Len(Append(chain, r)) = Len(chain) + 1
          /\ DOMAIN Append(chain, r) = DOMAIN chain \cup {Len(chain) + 1}
          /\ \A i \in DOMAIN chain : Append(chain, r)[i] = chain[i]
      BY <1>0
    <3>2. Len(chain) + 1 >= Len(chain) /\ Len(chain) + 1 \in Nat BY <1>0
    <3>3. ToSet(chain) \subseteq ToSet(Append(chain, r)) BY <3>1 DEF ToSet
    <3> QED BY <2>2, <3>1, <3>2, <3>3
  <2> QED BY <2>1, <2>2
<1>4. ASSUME NEW x \in ApiRequests PROVE RequestRight(requests'[x], x, chain')
  <2>1. CASE x = r BY <1>1, <2>1
  <2>2. CASE x # r
    <3>1. RequestRight(requests[x], x, chain) /\ requests'[x] = requests[x] BY <1>1, <1>a, <2>2
    <3>2. requests[x].built \in Nat BY <3>1 DEF RequestRight
    <3>3. /\ requests[x].built <= Len(chain) => requests[x].built <= Len(chain')
          /\ requests[x].built < Len(chain) => requests[x].built < Len(chain')
      BY ONLY <1>0, <1>3, <3>2
    <3> QED BY <1>3, <3>1, <3>3 DEF RequestRight
  <2> QED BY <2>1, <2>2
<1>5. ASSUME NEW i \in DOMAIN chain'
      PROVE  requests'[chain'[i]].built = i - 1 /\ requests'[chain'[i]].status = 200
  <2>1. ASSUME NEW k \in DOMAIN chain
        PROVE  requests'[chain[k]].built = k - 1 /\ requests'[chain[k]].status = 200
    <3>1. chain[k] \in ApiRequests BY <1>0
    <3>2. chain[k] # r BY <1>2, <1>b
    <3> QED BY <1>1, <1>b, <3>1, <3>2
  <2>2. CASE chain' = chain BY <2>1, <2>2
  <2>3. CASE chain' = Append(chain, r) /\ q.built = Len(chain) /\ q.status = 200
    <3>1. /\ DOMAIN Append(chain, r) = DOMAIN chain \cup {Len(chain) + 1}
          /\ \A k \in DOMAIN chain : Append(chain, r)[k] = chain[k]
          /\ Append(chain, r)[Len(chain) + 1] = r
      BY <1>0
    <3>2. CASE i \in DOMAIN chain BY <2>1, <2>3, <3>1, <3>2
    <3>3. CASE i = Len(chain) + 1
      <4>1. chain'[i] = r BY <2>3, <3>1, <3>3
      <4>2. i - 1 = Len(chain) BY <1>0, <3>3
      <4> QED BY <1>1, <2>3, <4>1, <4>2
    <3> QED BY <2>3, <3>1, <3>2, <3>3
  <2> QED BY <2>2, <2>3
<1>6. minted' = Cardinality(MintersOf(requests'))
  <2> DEFINE M == MintersOf(requests)
  <2>1. r \notin M BY <1>2 DEF MintersOf, Minter
  <2>2. IsFiniteSet(M)
    <3>1. M \subseteq ApiRequests BY DEF MintersOf
    <3> QED BY <3>1, ApiAssumption, FS_Subset
  <2> HIDE DEF M
  <2>3. CASE Minter(q)
    <3>1. MintersOf(requests') = M \cup {r} BY <1>1, <2>3 DEF MintersOf, M
    <3>2. Cardinality(M \cup {r}) = Cardinality(M) + 1 BY ONLY <2>1, <2>2, FS_AddElement
    <3> QED BY <1>0, <2>3, <3>1, <3>2 DEF M
  <2>4. CASE ~Minter(q)
    <3>1. MintersOf(requests') = M BY <1>1, <2>1, <2>4 DEF MintersOf, M
    <3>2. Cardinality(M) \in Nat BY <2>2, FS_CardinalityType
    <3> QED BY <1>0, <2>4, <3>1, <3>2 DEF M
  <2> QED BY <2>3, <2>4
<1> QED BY <1>1, <1>3, <1>4, <1>5, <1>6 DEF ApiInv, serverVars

\* An answer leaves the rest of a request alone.
LEMMA AnswerSent ==
    ASSUME ApiInv, NEW r \in ApiRequests, NEW code, Sent(r, code)
    PROVE  \E q : /\ requests' = [requests EXCEPT ![r] = q]
                  /\ DOMAIN q = RequestFields /\ q.at = "sent" /\ q.status = code
                  /\ q.built = requests[r].built /\ HandlerOf(q) = HandlerOf(requests[r])
<1> DEFINE q == [requests[r] EXCEPT !.at = "sent", !.status = code]
<1>1. requests' = [requests EXCEPT ![r] = q] BY DEF Sent
<1>2. DOMAIN requests[r] = RequestFields BY DEF ApiInv, RequestRight
<1>3. /\ DOMAIN q = RequestFields /\ q.at = "sent" /\ q.status = code
      /\ q.built = requests[r].built /\ q.method = requests[r].method
      /\ q.path = requests[r].path
  BY <1>2 DEF RequestFields
<1> HIDE DEF q
<1>4. HandlerOf(q) = HandlerOf(requests[r]) BY <1>3, SameRoute
<1> QED BY <1>1, <1>3, <1>4

\* One that fails, or that is answered and changes nothing that is kept.
LEMMA AnswerKeepsApi ==
    ASSUME ApiInv, NEW r \in ApiRequests, NEW code, Sent(r, code), requests[r].at # "sent",
           code # 200 \/ HandlerOf(requests[r]) = "createWallet",
           UNCHANGED <<serverVars, chain, minted>>
    PROVE  ApiInv'
<1>1. PICK q : /\ requests' = [requests EXCEPT ![r] = q]
               /\ DOMAIN q = RequestFields /\ q.at = "sent" /\ q.status = code
               /\ q.built = requests[r].built /\ HandlerOf(q) = HandlerOf(requests[r])
  BY AnswerSent
<1>2. requests[r].built \in Nat BY DEF ApiInv, RequestRight
<1>3. RequestRight(q, r, chain') BY <1>1, <1>2 DEF RequestRight, Finders, Makers
<1>4. ~Minter(q) BY <1>1 DEF Minter
<1>5. minted' = minted + 0
  <2>1. IsFiniteSet(MintersOf(requests))
    <3>1. MintersOf(requests) \subseteq ApiRequests BY DEF MintersOf
    <3> QED BY <3>1, ApiAssumption, FS_Subset
  <2>2. minted \in Nat BY <2>1, FS_CardinalityType DEF ApiInv
  <2> QED BY <2>2
<1>6. minted' = minted + IF Minter(q) THEN 1 ELSE 0 BY <1>4, <1>5
<1> QED BY <1>1, <1>3, <1>6, RequestChanged

LEMMA ApiStep ==
    ASSUME ApiInv, [ApiNext]_apiVars PROVE ApiInv'
<1>0. /\ chain \in Seq(ApiRequests) /\ Len(chain) \in Nat
      /\ DOMAIN servers = 1 .. Len(servers) /\ Len(servers) \in Nat
      /\ \A s, t \in DOMAIN servers :
            servers[s] = "listening" /\ servers[t] = "listening" => s = t
      /\ DOMAIN requests = ApiRequests
  BY DEF ApiInv
<1>a. \A r \in ApiRequests : RequestRight(requests[r], r, chain) BY DEF ApiInv
<1>m. minted \in Nat
  <2>1. IsFiniteSet(MintersOf(requests))
    <3>1. MintersOf(requests) \subseteq ApiRequests BY DEF MintersOf
    <3> QED BY <3>1, ApiAssumption, FS_Subset
  <2> QED BY <2>1, FS_CardinalityType DEF ApiInv
\* The servers do not touch the requests, nor the chain.
<1>s. ASSUME UNCHANGED <<chain, minted, requests>>,
             DOMAIN servers' = 1 .. Len(servers'), Len(servers') \in Nat,
             \A s, t \in DOMAIN servers' :
                 servers'[s] = "listening" /\ servers'[t] = "listening" => s = t
      PROVE  ApiInv'
  BY <1>s DEF ApiInv
<1>1. ASSUME start PROVE ApiInv'
  <2>1. servers' = Append(servers, "binding") /\ UNCHANGED <<chain, minted, requests>>
    BY <1>1 DEF start
  <2>2. /\ Len(servers') = Len(servers) + 1 /\ DOMAIN servers' = 1 .. Len(servers) + 1
        /\ \A s \in 1 .. Len(servers) + 1 :
              servers'[s] = IF s = Len(servers) + 1 THEN "binding" ELSE servers[s]
    BY <1>0, <2>1
  <2>3. Len(servers') \in Nat BY <1>0, <2>2
  <2>4. \A s \in DOMAIN servers' : servers'[s] = "listening" =>
            s \in DOMAIN servers /\ servers[s] = "listening"
    BY <1>0, <2>2
  <2> QED BY <1>0, <1>s, <2>1, <2>2, <2>3, <2>4
<1>2. ASSUME stop PROVE ApiInv'
  <2>1. /\ servers' = [servers EXCEPT ![server] = "closed"]
        /\ UNCHANGED <<chain, minted, requests>>
    BY <1>2 DEF stop
  <2>2. DOMAIN servers' = DOMAIN servers /\ Len(servers') = Len(servers) BY <1>0, <2>1
  <2>3. \A s \in DOMAIN servers' : servers'[s] = "listening" => servers[s] = "listening"
    BY <2>1
  <2> QED BY <1>0, <1>s, <2>1, <2>2, <2>3
<1>3. ASSUME NEW k \in DOMAIN servers, Bound(k) PROVE ApiInv'
  <2>1. /\ servers' = [servers EXCEPT ![k] = IF Listening THEN "failed" ELSE "listening"]
        /\ UNCHANGED <<chain, minted, requests>>
    BY <1>3 DEF Bound
  <2>2. DOMAIN servers' = DOMAIN servers /\ Len(servers') = Len(servers) BY <1>0, <2>1
  <2>3. \A s \in DOMAIN servers' : servers'[s] = "listening" =>
            servers[s] = "listening" \/ (s = k /\ ~Listening)
    BY <2>1
  <2>4. \A s \in DOMAIN servers : servers[s] = "listening" => Listening BY DEF Listening
  <2> QED BY <1>0, <1>s, <2>1, <2>2, <2>3, <2>4
<1>4. ASSUME NEW r \in ApiRequests, NEW p \in ApiPaths, handleRequest(r, p) PROVE ApiInv'
  <2> DEFINE answered == p.method = "GET" \/ HandlerOf(p) = "none"
             q == [method |-> p.method, path |-> p.path, built |-> 0,
                   at |-> IF answered THEN "sent" ELSE "body",
                   status |-> IF answered THEN Answer(p) ELSE 0]
  <2>1. requests[r].at = "none" /\ requests' = [requests EXCEPT ![r] = q]
        /\ UNCHANGED <<serverVars, chain, minted>>
    BY <1>4 DEF handleRequest
  <2>2. /\ DOMAIN q = RequestFields /\ q.built = 0 /\ q.method = p.method /\ q.path = p.path
        /\ q.at = IF answered THEN "sent" ELSE "body"
        /\ q.status = IF answered THEN Answer(p) ELSE 0
    BY DEF RequestFields
  <2> HIDE DEF q
  <2>3. HandlerOf(q) = HandlerOf(p) BY <2>2, SameRoute
  <2>4. q.status = 200 => HandlerOf(q) \in Readers
    <3>1. q.status = 200 => answered /\ Answer(p) = 200 BY <2>2
    <3> QED BY <2>3, <3>1, AnswerIs
  <2>5. RequestRight(q, r, chain')
    <3>1. q.at # "making" BY <2>2
    <3>2. q.at # "sent" => q.status = 0 BY <2>2
    <3>3. q.status = 200 => /\ HandlerOf(q) \notin Finders \cup {"addBlock", "addTransaction"}
                            /\ HandlerOf(q) \notin Makers
      BY <2>4 DEF Finders, Makers, Readers
    <3> QED BY <2>2, <3>1, <3>2, <3>3 DEF RequestRight
  <2>6. ~Minter(q) BY <2>4 DEF Minter, Readers
  <2>7. minted' = minted + IF Minter(q) THEN 1 ELSE 0 BY <1>m, <2>1, <2>6
  <2> QED BY <2>1, <2>5, <2>7, RequestChanged
<1>5. ASSUME NEW r \in ApiRequests, parseRequestBody(r) PROVE ApiInv'
  BY <1>5, AnswerKeepsApi DEF parseRequestBody
<1>6. ASSUME NEW r \in ApiRequests, addBlock(r) PROVE ApiInv'
  BY <1>6, AnswerKeepsApi DEF addBlock, ToHandle
<1>7. ASSUME NEW r \in ApiRequests, createWallet(r) PROVE ApiInv'
  BY <1>7, AnswerKeepsApi DEF createWallet, ToHandle
<1>8. ASSUME NEW r \in ApiRequests, NotMade(r) PROVE ApiInv'
  BY <1>8, AnswerKeepsApi DEF NotMade
<1>9. ASSUME NEW r \in ApiRequests, mintTokensFor(r) PROVE ApiInv'
  <2> DEFINE code == IF minted < Mintable THEN 200 ELSE 500
  <2>1. /\ requests[r].at = "body" /\ HandlerOf(requests[r]) = "mintTokens" /\ Sent(r, code)
        /\ minted' = IF minted < Mintable THEN minted + 1 ELSE minted
        /\ UNCHANGED serverVars /\ chain' = chain
    BY <1>9 DEF mintTokensFor, ToHandle
  <2> HIDE DEF code
  <2>2. PICK q : /\ requests' = [requests EXCEPT ![r] = q]
                 /\ DOMAIN q = RequestFields /\ q.at = "sent" /\ q.status = code
                 /\ q.built = requests[r].built /\ HandlerOf(q) = HandlerOf(requests[r])
    BY <2>1, AnswerSent
  <2>3. requests[r].built \in Nat BY <1>a DEF RequestRight
  <2>4. RequestRight(q, r, chain') BY <2>1, <2>2, <2>3 DEF RequestRight, Finders, Makers
  <2>5. Minter(q) <=> minted < Mintable BY <2>1, <2>2 DEF Minter, code
  <2>6. minted' = minted + IF Minter(q) THEN 1 ELSE 0 BY <1>m, <2>1, <2>5
  <2> QED BY <2>1, <2>2, <2>4, <2>6, RequestChanged
<1>10. ASSUME NEW r \in ApiRequests, mineBlock(r) PROVE ApiInv'
  <2> DEFINE q == [requests[r] EXCEPT !.at = "making", !.built = Len(chain)]
  <2>1. /\ requests[r].at = "body" /\ HandlerOf(requests[r]) \in Makers
        /\ requests' = [requests EXCEPT ![r] = q] /\ UNCHANGED <<serverVars, chain, minted>>
    BY <1>10 DEF mineBlock, ToHandle, Makers
  <2>2. DOMAIN requests[r] = RequestFields /\ requests[r].status = 0
    BY <1>a, <2>1 DEF RequestRight
  <2>3. /\ DOMAIN q = RequestFields /\ q.at = "making" /\ q.status = 0
        /\ q.built = Len(chain) /\ q.method = requests[r].method
        /\ q.path = requests[r].path
    BY <2>2 DEF RequestFields
  <2> HIDE DEF q
  <2>4. HandlerOf(q) = HandlerOf(requests[r]) BY <2>3, SameRoute
  <2>5. RequestRight(q, r, chain') BY <1>0, <2>1, <2>3, <2>4 DEF RequestRight
  <2>6. minted' = minted + IF Minter(q) THEN 1 ELSE 0 BY <1>m, <2>1, <2>3 DEF Minter
  <2> QED BY <2>1, <2>5, <2>6, RequestChanged
<1>11. ASSUME NEW r \in ApiRequests, Made(r) PROVE ApiInv'
  <2>1. /\ requests[r].at = "making" /\ Sent(r, 200) /\ UNCHANGED <<serverVars, minted>>
        /\ chain' = IF requests[r].built = Len(chain) THEN Append(chain, r) ELSE chain
    BY <1>11 DEF Made, Linked
  <2>2. PICK q : /\ requests' = [requests EXCEPT ![r] = q]
                 /\ DOMAIN q = RequestFields /\ q.at = "sent" /\ q.status = 200
                 /\ q.built = requests[r].built /\ HandlerOf(q) = HandlerOf(requests[r])
    BY <2>1, AnswerSent
  <2>3. /\ requests[r].built \in Nat /\ HandlerOf(requests[r]) \in Makers
        /\ requests[r].built <= Len(chain)
    BY <1>a, <2>1 DEF RequestRight
  <2>4. r \in ToSet(chain') \/ q.built < Len(chain')
    <3>1. CASE requests[r].built = Len(chain)
      <4>1. /\ Append(chain, r)[Len(chain) + 1] = r
            /\ Len(chain) + 1 \in DOMAIN Append(chain, r)
        BY <1>0
      <4> QED BY <2>1, <3>1, <4>1 DEF ToSet
    <3>2. CASE requests[r].built # Len(chain) BY <1>0, <2>1, <2>2, <2>3, <3>2
    <3> QED BY <3>1, <3>2
  <2>5. RequestRight(q, r, chain')
    <3>1. HandlerOf(q) \notin Finders \cup {"addBlock", "addTransaction"}
      BY <2>2, <2>3 DEF Finders, Makers
    <3> QED BY <2>2, <2>3, <2>4, <3>1 DEF RequestRight
  <2>6. minted' = minted + IF Minter(q) THEN 1 ELSE 0
    <3>1. ~Minter(q) BY <2>2, <2>3 DEF Minter, Makers
    <3> QED BY <1>m, <2>1, <3>1
  <2>7. \/ chain' = chain
        \/ chain' = Append(chain, r) /\ q.built = Len(chain) /\ q.status = 200
    BY <2>1, <2>2
  <2>8. requests[r].at # "sent" BY <2>1
  <2> QED BY <2>1, <2>2, <2>5, <2>6, <2>7, <2>8, RequestChanged
<1>12. ASSUME UNCHANGED apiVars PROVE ApiInv' BY <1>12 DEF ApiInv, apiVars, serverVars
<1> QED
  BY <1>1, <1>2, <1>3, <1>4, <1>5, <1>6, <1>7, <1>8, <1>9, <1>10, <1>11, <1>12 DEF ApiNext

LEMMA ApiThen ==
    ASSUME ApiInv PROVE AnswersAreTrue
<1>1. ASSUME NEW r \in ApiRequests, requests[r].status = 200
      PROVE  /\ HandlerOf(requests[r]) \notin Finders \cup {"addBlock", "addTransaction"}
             /\ HandlerOf(requests[r]) \in Makers =>
                    r \in ToSet(chain) \/ requests[r].built < Len(chain)
  BY <1>1 DEF ApiInv, RequestRight
<1>2. minted = Cardinality({r \in ApiRequests :
                    requests[r].status = 200 /\ HandlerOf(requests[r]) = "mintTokens"})
  BY DEF ApiInv, MintersOf, Minter
<1> QED BY <1>1, <1>2 DEF ApiInv, AnswersAreTrue, Makers

-----------------------------------------------------------------------------
(* Plugins: the order to load one in *)

Resolutions == Seq(PluginIds) \cup {Failed}

\* The call for the next dependency, and what resolveDependencies makes of them.
Deeper(c, d, r) == [id |-> d, resolved |-> r, path |-> Append(c.path, c.id)]
OneMore(f, c, r, d) == IF r = Failed THEN Failed ELSE f[Deeper(c, d, r)]
AllBefore(f, c) == FoldLeft(LAMBDA r, d : OneMore(f, c, r, d), c.resolved, dependencies[c.id])
Resolves(f, c) ==
    IF ~Contains(pluginRegistry, c.id) \/ Contains(c.path, c.id) THEN Failed
    ELSE IF Contains(c.resolved, c.id) THEN c.resolved
    ELSE IF AllBefore(f, c) = Failed THEN Failed ELSE Append(AllBefore(f, c), c.id)

\* What is resolved after each of the dependencies.
ResolvesTo(f, c, r) ==
    /\ r[0] = c.resolved /\ r[Len(dependencies[c.id])] = AllBefore(f, c)
    /\ \A k \in 1 .. Len(dependencies[c.id]) :
          r[k] = OneMore(f, c, r[k - 1], dependencies[c.id][k])

LEMMA ResolveSteps ==
    ASSUME NEW f, NEW c \in Calls, dependencies \in [PluginIds -> Seq(PluginIds)],
           \A d \in PluginIds : \A r \in Seq(PluginIds) : f[Deeper(c, d, r)] \in Resolutions
    PROVE  \E r : ResolvesTo(f, c, r)
<1> DEFINE n == Len(dependencies[c.id])
           B == Resolutions
           step == [i \in 1 .. n |-> [b \in B |-> OneMore(f, c, b, dependencies[c.id][i])]]
           D == SUBSET DOMAIN dependencies[c.id]
           body(g) == [d \in D |->
               IF d = {} THEN c.resolved
               ELSE OneMore(f, c, g[d \ {Max(d)}], dependencies[c.id][Max(d)])]
           I == CHOOSE g : g = body(g)
           r == [k \in 0 .. n |-> I[1 .. k]]
<1>1. AllBefore(f, c) = I[DOMAIN dependencies[c.id]]
  BY DEF AllBefore, FoldLeft, MapThenFoldSet
<1>0. dependencies[c.id] \in Seq(PluginIds) BY DEF Calls
<1>2. n \in Nat /\ DOMAIN dependencies[c.id] = 1 .. n /\ \A i \in 1 .. n : dependencies[c.id][i] \in PluginIds BY <1>0
<1>3. \A i \in 1 .. n : \A b \in B : step[i][b] = OneMore(f, c, b, dependencies[c.id][i])
  BY Zenon
<1> HIDE DEF n, step
<1>4. ASSUME NEW i \in 1 .. n, NEW b \in B PROVE step[i][b] \in B
  <2>1. step[i][b] = OneMore(f, c, b, dependencies[c.id][i]) BY <1>3
  <2>2. dependencies[c.id][i] \in PluginIds BY <1>2
  <2> QED BY <2>1, <2>2 DEF OneMore, Resolutions
<1>5. c.resolved \in B BY DEF Calls, Resolutions
<1> HIDE DEF B
<1>6. PICK g \in [SUBSET (1 .. n) -> B] : FoldsTo(1 .. n, c.resolved, step, g)
  BY <1>2, <1>4, <1>5, FoldExists
<1>7. g = body(g)
  <2>1. D = SUBSET (1 .. n) BY <1>2
  <2>2. ASSUME NEW d \in D, d # {}
        PROVE  g[d] = OneMore(f, c, g[d \ {Max(d)}], dependencies[c.id][Max(d)])
    <3>1. Max(d) = Greatest(d) /\ Max(d) \in 1 .. n BY <1>2, <2>1, <2>2, MaxIs
    <3>2. d \ {Max(d)} \in SUBSET (1 .. n) BY <2>1
    <3>3. g[d] = step[Max(d)][g[d \ {Max(d)}]] BY <1>6, <2>1, <2>2, <3>1 DEF FoldsTo
    <3> QED BY <1>3, <1>6, <3>1, <3>2, <3>3
  <2>3. g[{}] = c.resolved BY <1>6 DEF FoldsTo
  <2> QED BY <1>6, <2>1, <2>2, <2>3
<1>8. I = body(I) BY <1>7
<1> HIDE DEF I
<1>9. ASSUME NEW k \in 1 .. n
      PROVE  I[1 .. k] = OneMore(f, c, I[1 .. (k - 1)], dependencies[c.id][k])
  <2>1. 1 .. k \in D /\ 1 .. k # {} /\ Max(1 .. k) = k
        /\ (1 .. k) \ {Max(1 .. k)} = 1 .. (k - 1)
    BY <1>2, FirstParts
  <2> HIDE DEF D
  <2> QED BY <1>8, <2>1
<1>10. I[{}] = c.resolved /\ 1 .. 0 = {}
  <2>1. {} \in D OBVIOUS
  <2> HIDE DEF D
  <2> QED BY <1>8, <2>1
<1>11. /\ r[0] = c.resolved /\ r[n] = AllBefore(f, c)
       /\ \A k \in 1 .. n : r[k] = I[1 .. k] /\ r[k - 1] = I[1 .. (k - 1)]
  BY <1>1, <1>2, <1>10
<1> HIDE DEF r
<1>12. ASSUME NEW k \in 1 .. n
       PROVE  r[k] = OneMore(f, c, r[k - 1], dependencies[c.id][k])
  <2>1. r[k] = I[1 .. k] /\ r[k - 1] = I[1 .. (k - 1)] BY <1>11
  <2> QED BY <1>9, <2>1
<1> HIDE DEF I
<1>13. \A k \in 1 .. n : r[k] = OneMore(f, c, r[k - 1], dependencies[c.id][k])
  BY <1>12
<1>14. ResolvesTo(f, c, r) BY <1>11, <1>13 DEF n, ResolvesTo
<1> QED BY <1>14

\* What Only keeps after each of the elements.
Kept(r, a, set) == IF a \in set THEN Append(r, a) ELSE r

OnlyTo(list, set, f) ==
    /\ f[0] = <<>> /\ f[Len(list)] = Only(list, set)
    /\ \A k \in 1 .. Len(list) :
          f[k] = Kept(f[k - 1], list[k], set)

LEMMA OnlySteps ==
    ASSUME NEW S, NEW list \in Seq(S), NEW set
    PROVE  \E f : OnlyTo(list, set, f)
<1> DEFINE n == Len(list)
           B == Seq(S)
           step == [i \in 1 .. n |-> [b \in B |-> Kept(b, list[i], set)]]
           D == SUBSET DOMAIN list
           body(g) == [d \in D |->
               IF d = {} THEN <<>>
               ELSE Kept(g[d \ {Max(d)}], list[Max(d)], set)]
           I == CHOOSE g : g = body(g)
           f == [k \in 0 .. n |-> I[1 .. k]]
<1>1. Only(list, set) = I[DOMAIN list]
  BY DEF Only, Kept, FoldLeft, MapThenFoldSet
<1>2. n \in Nat /\ DOMAIN list = 1 .. n /\ \A i \in 1 .. n : list[i] \in S OBVIOUS
<1>3. \A i \in 1 .. n : \A b \in B : step[i][b] = Kept(b, list[i], set)
  BY Zenon
<1> HIDE DEF n, step
<1>4. ASSUME NEW i \in 1 .. n, NEW b \in B PROVE step[i][b] \in B
  <2>1. Append(b, list[i]) \in B BY <1>2
  <2> QED BY <1>3, <2>1 DEF Kept
<1>5. <<>> \in B OBVIOUS
<1> HIDE DEF B
<1>6. PICK g \in [SUBSET (1 .. n) -> B] : FoldsTo(1 .. n, <<>>, step, g)
  BY <1>2, <1>4, <1>5, FoldExists
<1>7. g = body(g)
  <2>1. D = SUBSET (1 .. n) BY <1>2
  <2>2. ASSUME NEW d \in D, d # {}
        PROVE  g[d] = Kept(g[d \ {Max(d)}], list[Max(d)], set)
    <3>1. Max(d) = Greatest(d) /\ Max(d) \in 1 .. n BY <1>2, <2>1, <2>2, MaxIs
    <3>2. d \ {Max(d)} \in SUBSET (1 .. n) BY <2>1
    <3>3. g[d] = step[Max(d)][g[d \ {Max(d)}]] BY <1>6, <2>1, <2>2, <3>1 DEF FoldsTo
    <3> QED BY <1>3, <1>6, <3>1, <3>2, <3>3
  <2>3. g[{}] = <<>> BY <1>6 DEF FoldsTo
  <2> QED BY <1>6, <2>1, <2>2, <2>3
<1>8. I = body(I) BY <1>7
<1> HIDE DEF I
<1>9. ASSUME NEW k \in 1 .. n
      PROVE  I[1 .. k] = Kept(I[1 .. (k - 1)], list[k], set)
  <2>1. 1 .. k \in D /\ 1 .. k # {} /\ Max(1 .. k) = k
        /\ (1 .. k) \ {Max(1 .. k)} = 1 .. (k - 1)
    BY <1>2, FirstParts
  <2> HIDE DEF D
  <2> QED BY <1>8, <2>1
<1>10. I[{}] = <<>> /\ 1 .. 0 = {}
  <2>1. {} \in D OBVIOUS
  <2> HIDE DEF D
  <2> QED BY <1>8, <2>1
<1>11. /\ f[0] = <<>> /\ f[n] = Only(list, set)
       /\ \A k \in 1 .. n : f[k] = I[1 .. k] /\ f[k - 1] = I[1 .. (k - 1)]
  BY <1>1, <1>2, <1>10
<1> HIDE DEF f
<1>12. ASSUME NEW k \in 1 .. n
       PROVE  f[k] = Kept(f[k - 1], list[k], set)
  <2>1. f[k] = I[1 .. k] /\ f[k - 1] = I[1 .. (k - 1)] BY <1>11
  <2> QED BY <1>9, <2>1
<1> HIDE DEF I
<1>13. \A k \in 1 .. n : f[k] = Kept(f[k - 1], list[k], set)
  BY <1>12
<1>14. OnlyTo(list, set, f) BY <1>11, <1>13 DEF n, OnlyTo
<1> QED BY <1>14


PluginTypes ==
    /\ dependencies \in [PluginIds -> Seq(PluginIds)] /\ pluginRegistry \in Seq(PluginIds)

\* Every dependency resolves to a result, in f.
DeepersIn(f, c) ==
    \A d \in PluginIds : \A r \in Seq(PluginIds) : f[Deeper(c, d, r)] \in Resolutions

LEMMA ResolvesType ==
    ASSUME PluginTypes, NEW f, NEW c \in Calls, DeepersIn(f, c)
    PROVE  /\ AllBefore(f, c) \in Resolutions /\ Resolves(f, c) \in Resolutions
           /\ \E r : ResolvesTo(f, c, r)
                     /\ \A k \in 0 .. Len(dependencies[c.id]) : r[k] \in Resolutions
<1>0. dependencies \in [PluginIds -> Seq(PluginIds)] BY DEF PluginTypes
<1>1. PICK r : ResolvesTo(f, c, r)
  <2>1. \A d \in PluginIds : \A r \in Seq(PluginIds) : f[Deeper(c, d, r)] \in Resolutions
    BY DEF DeepersIn
  <2> QED BY <1>0, <2>1, ResolveSteps
<1> DEFINE deps == dependencies[c.id]
           n == Len(deps)
<1>2. deps \in Seq(PluginIds) /\ c.resolved \in Seq(PluginIds) /\ c.id \in PluginIds
  BY <1>0 DEF Calls
<1>3. n \in Nat /\ \A k \in 1 .. n : deps[k] \in PluginIds BY <1>2
<1>4. /\ r[0] = c.resolved /\ r[n] = AllBefore(f, c)
      /\ \A k \in 1 .. n : r[k] = OneMore(f, c, r[k - 1], deps[k])
  BY <1>1 DEF ResolvesTo
<1> HIDE DEF n, deps
<1>5. \A k \in 0 .. n : r[k] \in Resolutions
  <2> DEFINE Good == {k \in 0 .. n : r[k] \in Resolutions}
  <2>1. 0 \in Good BY <1>2, <1>3, <1>4 DEF Resolutions
  <2>2. ASSUME NEW k \in 0 .. n, k \in Good, k < n PROVE k + 1 \in Good
    <3>1. k + 1 \in 1 .. n /\ k + 1 \in 0 .. n /\ (k + 1) - 1 = k BY <1>3, <2>2
    <3>2. r[k + 1] = OneMore(f, c, r[k], deps[k + 1]) BY <1>4, <3>1
    <3>3. deps[k + 1] \in PluginIds BY <1>3, <3>1
    <3>4. r[k] # Failed => r[k] \in Seq(PluginIds) BY <2>2 DEF Resolutions
    <3>5. r[k + 1] \in Resolutions BY <3>2, <3>3, <3>4 DEF OneMore, DeepersIn, Resolutions
    <3> QED BY <3>1, <3>5
  <2> HIDE DEF Good
  <2>3. 0 .. n \subseteq Good BY <1>3, <2>1, <2>2, UpTo
  <2> QED BY <2>3 DEF Good
<1>6. AllBefore(f, c) \in Resolutions
  <2>1. n \in 0 .. n BY <1>3
  <2> QED BY <1>4, <1>5, <2>1
<1>7. AllBefore(f, c) # Failed => Append(AllBefore(f, c), c.id) \in Resolutions
  BY <1>2, <1>6 DEF Resolutions
<1>8. Resolves(f, c) \in Resolutions BY <1>2, <1>7 DEF Resolves, Resolutions
<1> QED BY <1>1, <1>5, <1>6, <1>8 DEF n, deps

LEMMA ResolvesSame ==
    ASSUME PluginTypes, NEW f, NEW g, NEW c \in Calls, DeepersIn(f, c),
           \A d \in PluginIds : \A r \in Seq(PluginIds) : f[Deeper(c, d, r)] = g[Deeper(c, d, r)]
    PROVE  Resolves(f, c) = Resolves(g, c)
<1>0. DeepersIn(g, c) BY DEF DeepersIn
<1>1. PICK r : ResolvesTo(f, c, r) /\ \A k \in 0 .. Len(dependencies[c.id]) : r[k] \in Resolutions
  BY ResolvesType
<1>2. PICK q : ResolvesTo(g, c, q) BY <1>0, ResolvesType
<1> DEFINE deps == dependencies[c.id]
           n == Len(deps)
<1>3. deps \in Seq(PluginIds) BY DEF Calls, PluginTypes
<1>4. n \in Nat /\ \A k \in 1 .. n : deps[k] \in PluginIds BY <1>3
<1>5. /\ r[0] = c.resolved /\ r[n] = AllBefore(f, c)
      /\ q[0] = c.resolved /\ q[n] = AllBefore(g, c)
      /\ \A k \in 1 .. n : r[k] = OneMore(f, c, r[k - 1], deps[k])
      /\ \A k \in 1 .. n : q[k] = OneMore(g, c, q[k - 1], deps[k])
      /\ \A k \in 0 .. n : r[k] \in Resolutions
  BY <1>1, <1>2 DEF ResolvesTo
<1> HIDE DEF n, deps
<1>6. n \in 0 .. n BY <1>4
<1>7. r[n] = q[n]
  <2> DEFINE Good == {k \in 0 .. n : r[k] = q[k]}
  <2>1. 0 \in Good BY <1>4, <1>5
  <2>2. ASSUME NEW k \in 0 .. n, k \in Good, k < n PROVE k + 1 \in Good
    <3>1. k + 1 \in 1 .. n /\ k + 1 \in 0 .. n /\ (k + 1) - 1 = k BY <1>4, <2>2
    <3>2. r[k + 1] = OneMore(f, c, r[k], deps[k + 1]) /\ q[k + 1] = OneMore(g, c, q[k], deps[k + 1])
      BY <1>5, <3>1
    <3>3. deps[k + 1] \in PluginIds BY <1>4, <3>1
    <3>4. r[k] = q[k] /\ (r[k] # Failed => r[k] \in Seq(PluginIds)) BY <1>5, <2>2 DEF Resolutions
    <3>5. r[k + 1] = q[k + 1] BY <3>2, <3>3, <3>4 DEF OneMore
    <3> QED BY <3>1, <3>5
  <2> HIDE DEF Good
  <2>3. 0 .. n \subseteq Good BY <1>4, <2>1, <2>2, UpTo
  <2> QED BY <1>6, <2>3 DEF Good
<1>8. AllBefore(f, c) = AllBefore(g, c) BY <1>5, <1>7
<1> QED BY <1>8 DEF Resolves

\* What is registered and not on the path: less of it for the dependencies.
OffPath(c) == Cardinality(ToSet(pluginRegistry) \ ToSet(c.path))

LEMMA FewerAhead ==
    ASSUME PluginTypes, NEW c \in Calls
    PROVE  /\ OffPath(c) \in Nat
           /\ Contains(pluginRegistry, c.id) /\ ~ Contains(c.path, c.id) =>
                 \A d \in PluginIds : \A r \in Seq(PluginIds) :
                    Deeper(c, d, r) \in Calls /\ OffPath(Deeper(c, d, r)) < OffPath(c)
<1> DEFINE left == ToSet(pluginRegistry) \ ToSet(c.path)
<1>0. c.path \in Seq(PluginIds) /\ c.id \in PluginIds BY DEF Calls
<1>1. IsFiniteSet(left)
  <2>1. pluginRegistry \in Seq(PluginIds) BY DEF PluginTypes
  <2> DEFINE n == Len(pluginRegistry)
             f == [i \in 1 .. n |-> pluginRegistry[i]]
  <2>2. n \in Nat /\ DOMAIN pluginRegistry = 1 .. n BY <2>1
  <2>3. IsFiniteSet(1 .. n)
    <3>1. n \in Nat /\ 1 \in Int BY <2>2
    <3> HIDE DEF n
    <3> QED BY <3>1, FS_Interval
  <2>4. ToSet(pluginRegistry) = {pluginRegistry[i] : i \in 1 .. n} BY <2>2 DEF ToSet
  <2>5. f \in Surjection(1 .. n, ToSet(pluginRegistry)) BY <2>4 DEF Surjection
  <2>6. IsFiniteSet(ToSet(pluginRegistry))
    <3> HIDE DEF f, n
    <3> QED BY <2>3, <2>5, FS_Surjection
  <2> QED BY <2>6, FS_Subset
<1>2. OffPath(c) \in Nat BY <1>1, FS_CardinalityType DEF OffPath
<1>3. ASSUME Contains(pluginRegistry, c.id), ~ Contains(c.path, c.id),
             NEW d \in PluginIds, NEW r \in Seq(PluginIds)
      PROVE  Deeper(c, d, r) \in Calls /\ OffPath(Deeper(c, d, r)) < OffPath(c)
  <2>1. Append(c.path, c.id) \in Seq(PluginIds) BY <1>0
  <2>2. Deeper(c, d, r) \in Calls /\ Deeper(c, d, r).path = Append(c.path, c.id)
    BY <2>1 DEF Deeper, Calls
  <2>3. c.id \in left
    <3>1. c.id \in ToSet(pluginRegistry) BY <1>3 DEF Contains, ToSet, PluginTypes
    <3>2. c.id \notin ToSet(c.path) BY <1>0, <1>3 DEF Contains, ToSet
    <3> QED BY <3>1, <3>2
  <2>4. ToSet(Append(c.path, c.id)) = ToSet(c.path) \cup {c.id}
    <3> DEFINE p == c.path
    <3>1. p \in Seq(PluginIds) BY <1>0
    <3>2. /\ DOMAIN Append(p, c.id) = 1 .. Len(p) + 1 /\ DOMAIN p = 1 .. Len(p) /\ Len(p) \in Nat
          /\ \A i \in 1 .. Len(p) : Append(p, c.id)[i] = p[i] /\ i \in 1 .. Len(p) + 1
          /\ Append(p, c.id)[Len(p) + 1] = c.id /\ Len(p) + 1 \in 1 .. Len(p) + 1
          /\ \A i \in 1 .. Len(p) + 1 : i = Len(p) + 1 \/ i \in 1 .. Len(p)
      BY <1>0, <3>1
    <3> HIDE DEF p
    <3>3. ToSet(Append(p, c.id)) = ToSet(p) \cup {c.id} BY <3>2 DEF ToSet
    <3> QED BY <3>3 DEF p
  <2>5. ToSet(pluginRegistry) \ ToSet(Deeper(c, d, r).path) = left \ {c.id} BY <2>2, <2>4
  <2> HIDE DEF left
  <2>6. Cardinality(left \ {c.id}) = Cardinality(left) - 1 BY <1>1, <2>3, FS_RemoveElement
  <2>7. Cardinality(left) \in Nat BY <1>1, FS_CardinalityType
  <2>8. OffPath(c) = Cardinality(left) BY DEF OffPath, left
  <2>9. OffPath(Deeper(c, d, r)) = Cardinality(left \ {c.id}) BY <2>5 DEF OffPath
  <2> QED BY <2>2, <2>6, <2>7, <2>8, <2>9
<1> QED BY <1>2, <1>3

\* The recursive definition is one: a plugin is resolved from its dependencies.
LEMMA ResolutionIs ==
    ASSUME PluginTypes
    PROVE  /\ \A c \in Calls : resolveDependencies[c] = Resolves(resolveDependencies, c)
           /\ \A c \in Calls : resolveDependencies[c] \in Resolutions
<1> DEFINE rank == [c \in Calls |-> OffPath(c)]
           H == [c \in Calls |-> [f \in [Calls -> Resolutions] |-> Resolves(f, c)]]
           body(f) == [c \in Calls |-> Resolves(f, c)]
           res == CHOOSE f : f = body(f)
<1>1. resolveDependencies = res
  BY DEF resolveDependencies, Calls, Resolves, AllBefore, OneMore, Deeper
<1>2. \A c \in Calls : rank[c] = OffPath(c) OBVIOUS
<1>3. rank \in [Calls -> Nat] BY FewerAhead
<1>4. \A c \in Calls : \A f \in [Calls -> Resolutions] : H[c][f] = Resolves(f, c) OBVIOUS
<1> HIDE DEF rank, H
<1> DEFINE Inside(c) == Contains(pluginRegistry, c.id) /\ ~ Contains(c.path, c.id)
<1>5. ASSUME NEW c \in Calls, ~ Inside(c), NEW f PROVE Resolves(f, c) = Failed
  BY <1>5 DEF Resolves
<1>6. ASSUME NEW c \in Calls, NEW f \in [Calls -> Resolutions] PROVE Resolves(f, c) \in Resolutions
  <2>1. CASE ~ Inside(c)
    <3>1. Resolves(f, c) = Failed BY <1>5, <2>1
    <3> QED BY <3>1 DEF Resolutions
  <2>2. CASE Inside(c)
    <3>1. \A d \in PluginIds : \A r \in Seq(PluginIds) : Deeper(c, d, r) \in Calls
      BY <2>2, FewerAhead
    <3>2. DeepersIn(f, c) BY <3>1 DEF DeepersIn
    <3> QED BY <3>2, ResolvesType
  <2> QED BY <2>1, <2>2
<1>7. ASSUME NEW c \in Calls, NEW f \in [Calls -> Resolutions], NEW g \in [Calls -> Resolutions],
             \A t \in Calls : rank[t] < rank[c] => f[t] = g[t]
      PROVE  Resolves(f, c) = Resolves(g, c)
  <2>1. CASE ~ Inside(c) BY <1>5, <2>1
  <2>2. CASE Inside(c)
    <3>1. ASSUME NEW d \in PluginIds, NEW r \in Seq(PluginIds)
          PROVE  Deeper(c, d, r) \in Calls /\ f[Deeper(c, d, r)] = g[Deeper(c, d, r)]
      <4>1. Deeper(c, d, r) \in Calls /\ OffPath(Deeper(c, d, r)) < OffPath(c)
        BY <2>2, FewerAhead
      <4> QED BY <1>2, <1>7, <4>1
    <3>2. DeepersIn(f, c) BY <3>1 DEF DeepersIn
    <3> QED BY <3>1, <3>2, ResolvesSame
  <2> QED BY <2>1, <2>2
<1>8. Determined(Calls, Resolutions, rank, H) BY <1>4, <1>7 DEF Determined
<1>9. PICK F \in [Calls -> Resolutions] : \A c \in Calls : F[c] = H[c][F]
  <2>1. \A c \in Calls : \A f \in [Calls -> Resolutions] : H[c][f] \in Resolutions BY <1>4, <1>6
  <2>2. Failed \in Resolutions BY DEF Resolutions
  <2> QED BY <1>3, <1>8, <2>1, <2>2, Recursion
<1>10. F = body(F) BY <1>4, <1>9
<1>11. res = body(res) BY <1>10
<1> HIDE DEF res
<1>12. \A c \in Calls : res[c] = Resolves(res, c) BY <1>11
<1>13. \A c \in Calls : res[c] \in Resolutions
  <2> DEFINE Bad == {c \in Calls : res[c] \notin Resolutions}
             T == {OffPath(c) : c \in Bad}
  <2> SUFFICES ASSUME Bad # {} PROVE FALSE OBVIOUS
  <2>1. T \subseteq Nat /\ T # {} BY FewerAhead
  <2>2. PICK m \in T : \A j \in T : m <= j
    <3> HIDE DEF T
    <3> QED BY <2>1, Least
  <2>3. PICK c \in Bad : m = OffPath(c) OBVIOUS
  <2>4. c \in Calls /\ res[c] \notin Resolutions OBVIOUS
  <2>5. Inside(c)
    <3> SUFFICES ASSUME ~ Inside(c) PROVE FALSE OBVIOUS
    <3>1. res[c] = Failed BY <1>5, <1>12, <2>4
    <3> QED BY <2>4, <3>1 DEF Resolutions
  <2>6. ASSUME NEW d \in PluginIds, NEW r \in Seq(PluginIds) PROVE res[Deeper(c, d, r)] \in Resolutions
    <3> DEFINE e == Deeper(c, d, r)
    <3>1. e \in Calls /\ OffPath(e) < OffPath(c) /\ OffPath(e) \in Nat /\ OffPath(c) \in Nat
      BY <2>4, <2>5, FewerAhead
    <3> HIDE DEF e
    <3>2. e \notin Bad
      <4> SUFFICES ASSUME e \in Bad PROVE FALSE OBVIOUS
      <4>1. OffPath(e) \in T OBVIOUS
      <4>2. m <= OffPath(e)
        <5> HIDE DEF T, Bad
        <5> QED BY <2>2, <4>1
      <4> QED BY <2>3, <3>1, <4>2
    <3> QED BY <3>1, <3>2 DEF e
  <2>7. DeepersIn(res, c) BY <2>6 DEF DeepersIn
  <2>8. Resolves(res, c) \in Resolutions BY <2>4, <2>7, ResolvesType
  <2> QED BY <1>12, <2>4, <2>8
<1> QED BY <1>1, <1>12, <1>13

LEMMA SetOfAppend ==
    ASSUME NEW S, NEW s \in Seq(S), NEW x
    PROVE  ToSet(Append(s, x)) = ToSet(s) \cup {x}
<1>1. /\ DOMAIN Append(s, x) = 1 .. Len(s) + 1 /\ DOMAIN s = 1 .. Len(s) /\ Len(s) \in Nat
      /\ \A i \in 1 .. Len(s) : Append(s, x)[i] = s[i] /\ i \in 1 .. Len(s) + 1
      /\ Append(s, x)[Len(s) + 1] = x /\ Len(s) + 1 \in 1 .. Len(s) + 1
      /\ \A i \in 1 .. Len(s) + 1 : i = Len(s) + 1 \/ i \in 1 .. Len(s)
  OBVIOUS
<1> QED BY <1>1 DEF ToSet

LEMMA ContainsIs ==
    ASSUME NEW S, NEW s \in Seq(S), NEW x
    PROVE  Contains(s, x) <=> x \in ToSet(s)
BY DEF Contains, ToSet

\* A list with every plugin after all it depends on, and a set that holds what its
\* plugins depend on.
Ordered(s) == \A i \in 1 .. Len(s) : ToSet(dependencies[s[i]]) \subseteq {s[j] : j \in 1 .. i - 1}
Closed(C) == \A p \in C : ToSet(dependencies[p]) \subseteq C

LEMMA OrderedAppend ==
    ASSUME NEW s \in Seq(PluginIds), NEW p \in PluginIds, Ordered(s),
           ToSet(dependencies[p]) \subseteq ToSet(s)
    PROVE  Ordered(Append(s, p))
<1> DEFINE n == Len(s)
           t == Append(s, p)
<1>1. n \in Nat /\ Len(t) = n + 1 /\ t[n + 1] = p /\ (\A i \in 1 .. n : t[i] = s[i])
      /\ DOMAIN s = 1 .. n
  OBVIOUS
<1> HIDE DEF t, n
<1>2. ASSUME NEW i \in 1 .. n + 1
      PROVE  ToSet(dependencies[t[i]]) \subseteq {t[j] : j \in 1 .. i - 1}
  <2>1. CASE i = n + 1
    <3>1. (n + 1) - 1 = n BY <1>1
    <3>2. ToSet(s) = {t[j] : j \in 1 .. n} BY <1>1 DEF ToSet
    <3> QED BY <1>1, <2>1, <3>1, <3>2
  <2>2. CASE i # n + 1
    <3>1. i \in 1 .. n /\ \A j \in 1 .. i - 1 : j \in 1 .. n BY <1>1, <2>2
    <3>2. ToSet(dependencies[s[i]]) \subseteq {s[j] : j \in 1 .. i - 1} BY <3>1 DEF Ordered, n
    <3>3. {s[j] : j \in 1 .. i - 1} = {t[j] : j \in 1 .. i - 1} BY <1>1, <3>1
    <3> QED BY <1>1, <3>1, <3>2, <3>3
  <2> QED BY <2>1, <2>2
<1>3. \A i \in 1 .. Len(t) : ToSet(dependencies[t[i]]) \subseteq {t[j] : j \in 1 .. i - 1}
  BY <1>1, <1>2
<1> QED BY <1>3 DEF Ordered, t

\* What a call for c.id resolves: c.id too, in order, nothing on the path, and nothing
\* c.id does not need.
Follows(c, s) ==
    /\ s \in Seq(PluginIds) /\ ToSet(c.resolved) \subseteq ToSet(s) /\ c.id \in ToSet(s)
    /\ Ordered(c.resolved) => Ordered(s)
    /\ \A x \in ToSet(s) : x \in ToSet(c.resolved) \/ x \notin ToSet(c.path)
    /\ \A C \in SUBSET PluginIds :
          Closed(C) /\ c.id \in C /\ ToSet(c.resolved) \subseteq C => ToSet(s) \subseteq C
ResolvesWell(c) == resolveDependencies[c] = Failed \/ Follows(c, resolveDependencies[c])

\* The same after k of the dependencies.
PartlyBefore(c, s, k) ==
    /\ s \in Seq(PluginIds) /\ ToSet(c.resolved) \subseteq ToSet(s)
    /\ \A j \in 1 .. k : dependencies[c.id][j] \in ToSet(s)
    /\ Ordered(c.resolved) => Ordered(s)
    /\ \A x \in ToSet(s) : x \in ToSet(c.resolved) \/ x \notin ToSet(c.path) \cup {c.id}
    /\ \A C \in SUBSET PluginIds :
          Closed(C) /\ c.id \in C /\ ToSet(c.resolved) \subseteq C => ToSet(s) \subseteq C

LEMMA OneMoreBefore ==
    ASSUME PluginTypes, NEW c \in Calls, NEW k \in Nat, NEW s, NEW t,
           k + 1 \in 1 .. Len(dependencies[c.id]),
           PartlyBefore(c, s, k), Follows(Deeper(c, dependencies[c.id][k + 1], s), t)
    PROVE  PartlyBefore(c, t, k + 1)
<1> DEFINE d == dependencies[c.id][k + 1]
           e == Deeper(c, d, s)
<1>1. e.id = d /\ e.resolved = s /\ e.path = Append(c.path, c.id) BY DEF Deeper
<1>2. ToSet(e.path) = ToSet(c.path) \cup {c.id}
  <2>1. c.path \in Seq(PluginIds) BY DEF Calls
  <2>2. ToSet(Append(c.path, c.id)) = ToSet(c.path) \cup {c.id} BY <2>1, SetOfAppend
  <2> HIDE DEF e
  <2> QED BY <1>1, <2>2
<1>3. d \in ToSet(dependencies[c.id])
  <2>1. dependencies[c.id] \in Seq(PluginIds) BY DEF PluginTypes, Calls
  <2> QED BY <2>1 DEF ToSet
<1>4. Follows(e, t) OBVIOUS
<1> HIDE DEF d, e
<1>5. t \in Seq(PluginIds) /\ ToSet(s) \subseteq ToSet(t) /\ d \in ToSet(t)
      /\ (Ordered(s) => Ordered(t))
  BY <1>1, <1>4 DEF Follows
<1>6. \A x \in ToSet(t) : x \in ToSet(s) \/ x \notin ToSet(c.path) \cup {c.id}
  BY <1>1, <1>2, <1>4 DEF Follows
<1>7. ASSUME NEW C \in SUBSET PluginIds, Closed(C), c.id \in C, ToSet(c.resolved) \subseteq C
      PROVE  ToSet(t) \subseteq C
  <2>1. d \in C BY <1>3, <1>7 DEF Closed
  <2>2. ToSet(s) \subseteq C BY <1>7 DEF PartlyBefore
  <2> QED BY <1>1, <1>4, <1>7, <2>1, <2>2 DEF Follows
<1>8. \A j \in 1 .. k + 1 : dependencies[c.id][j] \in ToSet(t)
  <2>1. \A j \in 1 .. k + 1 : j = k + 1 \/ j \in 1 .. k OBVIOUS
  <2>2. \A j \in 1 .. k : dependencies[c.id][j] \in ToSet(s) BY DEF PartlyBefore
  <2> QED BY <1>5, <2>1, <2>2 DEF d
<1>9. ToSet(c.resolved) \subseteq ToSet(t) BY <1>5 DEF PartlyBefore
<1>10. Ordered(c.resolved) => Ordered(t) BY <1>5 DEF PartlyBefore
<1>11. \A x \in ToSet(t) : x \in ToSet(c.resolved) \/ x \notin ToSet(c.path) \cup {c.id}
  BY <1>6 DEF PartlyBefore
<1> QED BY <1>5, <1>7, <1>8, <1>9, <1>10, <1>11 DEF PartlyBefore

LEMMA BeforeIsWell ==
    ASSUME PluginTypes, NEW c \in Calls,
           Contains(pluginRegistry, c.id), ~ Contains(c.path, c.id), ~ Contains(c.resolved, c.id),
           \A d \in PluginIds : \A r \in Seq(PluginIds) : ResolvesWell(Deeper(c, d, r)),
           AllBefore(resolveDependencies, c) # Failed
    PROVE  PartlyBefore(c, AllBefore(resolveDependencies, c), Len(dependencies[c.id]))
<1> DEFINE deps == dependencies[c.id]
           n == Len(deps)
           res == resolveDependencies
<1>1. \A d \in PluginIds : \A r \in Seq(PluginIds) : Deeper(c, d, r) \in Calls
  BY FewerAhead
<1>2. DeepersIn(res, c) BY <1>1, ResolutionIs DEF DeepersIn
<1> HIDE DEF res
<1>3. PICK r : ResolvesTo(res, c, r) /\ \A k \in 0 .. n : r[k] \in Resolutions
  BY <1>2, ResolvesType
<1>4. deps \in Seq(PluginIds) /\ c.resolved \in Seq(PluginIds) BY DEF Calls, PluginTypes
<1>5. n \in Nat /\ \A k \in 1 .. n : deps[k] \in PluginIds BY <1>4
<1>6. /\ r[0] = c.resolved /\ r[n] = AllBefore(res, c)
      /\ \A k \in 1 .. n : r[k] = OneMore(res, c, r[k - 1], deps[k])
  BY <1>3 DEF ResolvesTo
<1> DEFINE Good == {k \in 0 .. n : r[k] = Failed \/ PartlyBefore(c, r[k], k)}
<1> HIDE DEF n
<1>7. 0 \in Good
  <2>1. ~ (c.id \in ToSet(c.resolved)) BY <1>4, ContainsIs
  <2>2. PartlyBefore(c, c.resolved, 0)
    <3>1. \A j \in 1 .. 0 : FALSE OBVIOUS
    <3>2. \A x \in ToSet(c.resolved) : x \in ToSet(c.resolved) OBVIOUS
    <3> QED BY <1>4, <3>1, <3>2 DEF PartlyBefore
  <2>3. 0 \in 0 .. n BY <1>5
  <2> QED BY <1>6, <2>2, <2>3
<1>8. ASSUME NEW k \in 0 .. n, k \in Good, k < n PROVE k + 1 \in Good
  <2>1. k + 1 \in 1 .. n /\ k + 1 \in 0 .. n /\ (k + 1) - 1 = k /\ k \in Nat BY <1>5, <1>8
  <2>2. r[k + 1] = OneMore(res, c, r[k], deps[k + 1]) BY <1>6, <2>1
  <2>3. CASE r[k] = Failed
    <3>1. r[k + 1] = Failed BY <2>2, <2>3 DEF OneMore
    <3> QED BY <2>1, <3>1
  <2>4. CASE r[k] # Failed
    <3>1. PartlyBefore(c, r[k], k) BY <1>8, <2>4
    <3>2. r[k] \in Seq(PluginIds) BY <3>1 DEF PartlyBefore
    <3>3. r[k + 1] = res[Deeper(c, deps[k + 1], r[k])] BY <2>2, <2>4 DEF OneMore
    <3>4. deps[k + 1] \in PluginIds BY <1>5, <2>1
    <3>5. ResolvesWell(Deeper(c, deps[k + 1], r[k])) BY <3>2, <3>4
    <3>6. r[k + 1] = Failed \/ Follows(Deeper(c, deps[k + 1], r[k]), r[k + 1])
      <4> HIDE DEF deps
      <4> QED BY <3>3, <3>5 DEF ResolvesWell, res
    <3>7. k + 1 \in 1 .. Len(dependencies[c.id]) BY <2>1 DEF n
    <3>8. Follows(Deeper(c, deps[k + 1], r[k]), r[k + 1]) => PartlyBefore(c, r[k + 1], k + 1)
      BY <2>1, <3>1, <3>7, OneMoreBefore
    <3> QED BY <2>1, <3>6, <3>8
  <2> QED BY <2>3, <2>4
<1>9. n \in Good
  <2> HIDE DEF Good
  <2>1. 0 .. n \subseteq Good BY <1>5, <1>7, <1>8, UpTo
  <2>2. n \in 0 .. n BY <1>5
  <2> QED BY <2>1, <2>2
<1> QED BY <1>6, <1>9 DEF res, n

LEMMA AfterAllBefore ==
    ASSUME PluginTypes, NEW c \in Calls, NEW s, ~ Contains(c.path, c.id),
           PartlyBefore(c, s, Len(dependencies[c.id]))
    PROVE  Follows(c, Append(s, c.id)) /\ ToSet(dependencies[c.id]) \subseteq ToSet(s)
<1> DEFINE t == Append(s, c.id)
<1>0. c.id \in PluginIds /\ s \in Seq(PluginIds) /\ c.path \in Seq(PluginIds)
  BY DEF Calls, PartlyBefore
<1>1. ToSet(t) = ToSet(s) \cup {c.id} /\ t \in Seq(PluginIds) BY <1>0, SetOfAppend
<1>2. ToSet(dependencies[c.id]) \subseteq ToSet(s)
  <2>1. dependencies[c.id] \in Seq(PluginIds) BY <1>0 DEF PluginTypes
  <2>2. \A x \in ToSet(dependencies[c.id]) :
           \E j \in 1 .. Len(dependencies[c.id]) : x = dependencies[c.id][j]
    BY <2>1 DEF ToSet
  <2> QED BY <2>2 DEF PartlyBefore
<1>3. Ordered(c.resolved) => Ordered(t) BY <1>0, <1>2, OrderedAppend DEF PartlyBefore
<1>4. c.id \notin ToSet(c.path) BY <1>0, ContainsIs
<1> HIDE DEF t
<1>5. \A x \in ToSet(t) : x \in ToSet(c.resolved) \/ x \notin ToSet(c.path)
  BY <1>1, <1>4 DEF PartlyBefore
<1>6. \A C \in SUBSET PluginIds :
         Closed(C) /\ c.id \in C /\ ToSet(c.resolved) \subseteq C => ToSet(t) \subseteq C
  BY <1>1 DEF PartlyBefore
<1>7. ToSet(c.resolved) \subseteq ToSet(t) BY <1>1 DEF PartlyBefore
<1> QED BY <1>1, <1>2, <1>3, <1>5, <1>6, <1>7 DEF Follows, t

LEMMA AllResolveWell ==
    ASSUME PluginTypes PROVE \A c \in Calls : ResolvesWell(c)
<1> DEFINE Bad == {c \in Calls : ~ ResolvesWell(c)}
           T == {OffPath(c) : c \in Bad}
<1> SUFFICES ASSUME Bad # {} PROVE FALSE OBVIOUS
<1>1. T \subseteq Nat /\ T # {} BY FewerAhead
<1>2. PICK m \in T : \A j \in T : m <= j
  <2> HIDE DEF T
  <2> QED BY <1>1, Least
<1>3. PICK c \in Bad : m = OffPath(c) OBVIOUS
<1>4. c \in Calls /\ ~ ResolvesWell(c) OBVIOUS
<1>5. resolveDependencies[c] = Resolves(resolveDependencies, c) BY <1>4, ResolutionIs
<1>6. Contains(pluginRegistry, c.id) /\ ~ Contains(c.path, c.id)
  BY <1>4, <1>5 DEF Resolves, ResolvesWell
<1>7. ~ Contains(c.resolved, c.id)
  <2> SUFFICES ASSUME Contains(c.resolved, c.id) PROVE FALSE OBVIOUS
  <2>1. resolveDependencies[c] = c.resolved BY <1>5, <1>6 DEF Resolves
  <2>2. c.resolved \in Seq(PluginIds) BY <1>4 DEF Calls
  <2>3. c.id \in ToSet(c.resolved) BY <2>2, ContainsIs
  <2>4. Follows(c, c.resolved) BY <2>2, <2>3 DEF Follows
  <2> QED BY <1>4, <2>1, <2>4 DEF ResolvesWell
<1>8. ASSUME NEW d \in PluginIds, NEW r \in Seq(PluginIds) PROVE ResolvesWell(Deeper(c, d, r))
  <2> DEFINE e == Deeper(c, d, r)
  <2>1. e \in Calls /\ OffPath(e) < OffPath(c) /\ OffPath(e) \in Nat /\ OffPath(c) \in Nat
    BY <1>4, <1>6, FewerAhead
  <2> HIDE DEF e
  <2>2. e \notin Bad
    <3> SUFFICES ASSUME e \in Bad PROVE FALSE OBVIOUS
    <3>1. OffPath(e) \in T OBVIOUS
    <3>2. m <= OffPath(e)
      <4> HIDE DEF T, Bad
      <4> QED BY <1>2, <3>1
    <3> QED BY <1>3, <2>1, <3>2
  <2> QED BY <2>1, <2>2 DEF e
<1> HIDE DEF Bad, T
<1>9. AllBefore(resolveDependencies, c) # Failed
  BY <1>4, <1>5, <1>6, <1>7 DEF Resolves, ResolvesWell
<1>10. PartlyBefore(c, AllBefore(resolveDependencies, c), Len(dependencies[c.id]))
  BY <1>4, <1>6, <1>7, <1>8, <1>9, BeforeIsWell
<1>11. Follows(c, Append(AllBefore(resolveDependencies, c), c.id))
  BY <1>4, <1>6, <1>10, AfterAllBefore
<1>12. resolveDependencies[c] = Append(AllBefore(resolveDependencies, c), c.id)
  BY <1>5, <1>6, <1>7, <1>9 DEF Resolves
<1> QED BY <1>4, <1>11, <1>12 DEF ResolvesWell

Fresh(p) == [id |-> p, resolved |-> <<>>, path |-> <<>>]

\* The order to load a plugin in ends with it, and has what it depends on before it.
LEMMA OrderIs ==
    ASSUME PluginTypes, NEW p \in PluginIds, Order(p) # Failed
    PROVE  \E s \in Seq(PluginIds) :
              /\ Order(p) = Append(s, p) /\ Ordered(s) /\ p \notin ToSet(s)
              /\ ToSet(dependencies[p]) \subseteq ToSet(s)
              /\ \A C \in SUBSET PluginIds : Closed(C) /\ p \in C => ToSet(s) \subseteq C
<1> DEFINE c == Fresh(p)
           s == AllBefore(resolveDependencies, c)
<1>1. c \in Calls /\ c.id = p /\ c.resolved = <<>> /\ c.path = <<>> BY DEF Calls, Fresh
<1>2. Order(p) = resolveDependencies[c] BY DEF Order, Fresh
<1>3. resolveDependencies[c] = Resolves(resolveDependencies, c) BY <1>1, ResolutionIs
<1>4. ToSet(<<>>) = {} BY DEF ToSet
<1> HIDE DEF c
<1>5. ~ Contains(c.path, c.id) /\ ~ Contains(c.resolved, c.id)
  BY <1>1, <1>4, ContainsIs DEF Calls
<1>6. Contains(pluginRegistry, c.id) /\ s # Failed /\ Order(p) = Append(s, p)
  BY <1>1, <1>2, <1>3, <1>5 DEF Resolves
<1>7. ASSUME NEW d \in PluginIds, NEW r \in Seq(PluginIds) PROVE ResolvesWell(Deeper(c, d, r))
  <2>1. Deeper(c, d, r) \in Calls BY <1>1, <1>5, <1>6, FewerAhead
  <2> QED BY <2>1, AllResolveWell
<1>8. PartlyBefore(c, s, Len(dependencies[c.id]))
  BY <1>1, <1>5, <1>6, <1>7, BeforeIsWell
<1>9. ToSet(dependencies[c.id]) \subseteq ToSet(s) BY <1>1, <1>5, <1>8, AfterAllBefore
<1> HIDE DEF s
<1>10. Ordered(c.resolved) BY <1>1 DEF Ordered
<1>11. s \in Seq(PluginIds) /\ Ordered(s) BY <1>8, <1>10 DEF PartlyBefore
<1>12. p \notin ToSet(s)
  <2>1. \A x \in ToSet(s) : x \in ToSet(c.resolved) \/ x \notin ToSet(c.path) \cup {c.id}
    BY <1>8 DEF PartlyBefore
  <2> QED BY <1>1, <1>4, <2>1
<1>13. ASSUME NEW C \in SUBSET PluginIds, Closed(C), p \in C PROVE ToSet(s) \subseteq C
  <2>1. ToSet(c.resolved) \subseteq C BY <1>1, <1>4
  <2> QED BY <1>1, <1>8, <1>13, <2>1 DEF PartlyBefore
<1> QED BY <1>1, <1>6, <1>9, <1>11, <1>12, <1>13

LEMMA OnlyIs ==
    ASSUME NEW S, NEW list \in Seq(S), NEW set
    PROVE  Only(list, set) \in Seq(S)
<1>1. PICK f : OnlyTo(list, set, f) BY OnlySteps
<1> DEFINE n == Len(list)
           Good == {k \in 0 .. n : f[k] \in Seq(S)}
<1>2. n \in Nat /\ \A k \in 1 .. n : list[k] \in S OBVIOUS
<1>3. /\ f[0] = <<>> /\ f[n] = Only(list, set)
      /\ \A k \in 1 .. n : f[k] = Kept(f[k - 1], list[k], set)
  BY <1>1 DEF OnlyTo
<1> HIDE DEF n
<1>4. 0 \in Good
  <2>1. <<>> \in Seq(S) /\ 0 \in 0 .. n BY <1>2
  <2> QED BY <1>3, <2>1
<1>5. ASSUME NEW k \in 0 .. n, k \in Good, k < n PROVE k + 1 \in Good
  <2>1. k + 1 \in 1 .. n /\ k + 1 \in 0 .. n /\ (k + 1) - 1 = k BY <1>2, <1>5
  <2>2. f[k + 1] = Kept(f[k], list[k + 1], set) /\ list[k + 1] \in S BY <1>2, <1>3, <2>1
  <2>3. f[k] \in Seq(S) BY <1>5
  <2>4. f[k + 1] \in Seq(S) BY <2>2, <2>3 DEF Kept
  <2> QED BY <2>1, <2>4
<1>6. n \in Good
  <2> HIDE DEF Good
  <2>1. 0 .. n \subseteq Good BY <1>2, <1>4, <1>5, UpTo
  <2>2. n \in 0 .. n BY <1>2
  <2> QED BY <2>1, <2>2
<1> QED BY <1>3, <1>6

\* Without its last element, which is not in the set, as all the others are.
LEMMA OnlyTheFront ==
    ASSUME NEW S, NEW s \in Seq(S), NEW p \in S, NEW set, ToSet(s) \subseteq set, p \notin set
    PROVE  Only(Append(s, p), set) = s
<1> DEFINE list == Append(s, p)
           n == Len(s)
<1>0. /\ list \in Seq(S) /\ Len(list) = n + 1 /\ n \in Nat /\ list[n + 1] = p
      /\ \A k \in 1 .. n : list[k] = s[k] /\ s[k] \in ToSet(s)
  BY DEF ToSet
<1>1. PICK f : OnlyTo(list, set, f) BY <1>0, OnlySteps
<1> HIDE DEF list
<1>2. /\ f[0] = <<>> /\ f[n + 1] = Only(list, set)
      /\ \A k \in 1 .. n + 1 : f[k] = Kept(f[k - 1], list[k], set)
  BY <1>0, <1>1 DEF OnlyTo
<1> DEFINE Good == {k \in 0 .. n : f[k] = SubSeq(s, 1, k)}
<1>3. 0 \in Good
  <2>1. SubSeq(s, 1, 0) = <<>> OBVIOUS
  <2>2. 0 \in 0 .. n BY <1>0
  <2> HIDE DEF n
  <2> QED BY <1>2, <2>1, <2>2
<1>4. ASSUME NEW k \in 0 .. n, k \in Good, k < n PROVE k + 1 \in Good
  <2>1. k + 1 \in 1 .. n /\ k + 1 \in 1 .. n + 1 /\ k + 1 \in 0 .. n /\ (k + 1) - 1 = k
    BY <1>0, <1>4
  <2>2. f[k + 1] = Kept(f[k], list[k + 1], set) BY <1>2, <2>1
  <2>3. list[k + 1] = s[k + 1] /\ s[k + 1] \in set BY <1>0, <2>1
  <2>4. f[k + 1] = Append(SubSeq(s, 1, k), s[k + 1]) BY <1>4, <2>2, <2>3 DEF Kept
  <2>5. Append(SubSeq(s, 1, k), s[k + 1]) = SubSeq(s, 1, k + 1) BY <2>1
  <2>6. f[k + 1] = SubSeq(s, 1, k + 1) BY <2>4, <2>5
  <2> QED BY <2>1, <2>6
<1>5. n \in Good
  <2> HIDE DEF Good, n
  <2>1. 0 .. n \subseteq Good BY <1>0, <1>3, <1>4, UpTo
  <2>2. n \in 0 .. n BY <1>0
  <2> QED BY <2>1, <2>2
<1>6. SubSeq(s, 1, n) = s OBVIOUS
<1>7. n + 1 \in 1 .. n + 1 /\ (n + 1) - 1 = n BY <1>0
<1>8. f[n + 1] = Kept(f[n], list[n + 1], set) BY <1>2, <1>7
<1>9. f[n] = s BY <1>5, <1>6
<1>10. f[n + 1] = s BY <1>0, <1>8, <1>9 DEF Kept
<1> QED BY <1>2, <1>10 DEF list

LEMMA BeforeIs ==
    ASSUME PluginTypes, NEW p \in PluginIds, Order(p) # Failed
    PROVE  /\ Before(p) \in Seq(PluginIds) /\ Ordered(Before(p)) /\ p \notin ToSet(Before(p))
           /\ ToSet(dependencies[p]) \subseteq ToSet(Before(p))
           /\ \A C \in SUBSET PluginIds : Closed(C) /\ p \in C => ToSet(Before(p)) \subseteq C
<1>1. PICK s \in Seq(PluginIds) :
              /\ Order(p) = Append(s, p) /\ Ordered(s) /\ p \notin ToSet(s)
              /\ ToSet(dependencies[p]) \subseteq ToSet(s)
              /\ \A C \in SUBSET PluginIds : Closed(C) /\ p \in C => ToSet(s) \subseteq C
  BY OrderIs
<1>2. ToSet(s) \subseteq PluginIds \ {p} BY <1>1 DEF ToSet
<1>3. Before(p) = s
  <2> DEFINE set == PluginIds \ {p}
  <2>1. p \notin set /\ ToSet(s) \subseteq set BY <1>2
  <2> HIDE DEF set
  <2>2. Only(Append(s, p), set) = s BY <2>1, OnlyTheFront
  <2> QED BY <1>1, <2>2 DEF Before, set
<1> QED BY <1>1, <1>3

-----------------------------------------------------------------------------
(* Descending to what is loaded first *)

FrameSet == [plugin : PluginIds, rest : Seq(PluginIds)]

\* The first of a list that is not loaded, 0 for none.
FirstMissing(s) == SelectInSeq(s, LAMBDA d : ~ Loaded(d))

LEMMA FirstMissingIs ==
    ASSUME NEW S, NEW s \in Seq(S)
    PROVE  /\ FirstMissing(s) \in 0 .. Len(s)
           /\ FirstMissing(s) = 0 => \A j \in 1 .. Len(s) : Loaded(s[j])
           /\ FirstMissing(s) # 0 =>
                 /\ ~ Loaded(s[FirstMissing(s)])
                 /\ \A j \in 1 .. FirstMissing(s) - 1 : Loaded(s[j])
<1> DEFINE I == {i \in 1 .. Len(s) : ~ Loaded(s[i])}
           n == Len(s)
<1>0. n \in Nat OBVIOUS
<1>1. FirstMissing(s) = IF I # {} THEN Min(I) ELSE 0 BY DEF FirstMissing, SelectInSeq
<1>2. I # {} => Min(I) \in I /\ \A y \in I : Min(I) <= y
  <2>1. I \subseteq Nat OBVIOUS
  <2> HIDE DEF I
  <2> QED BY <2>1, Least DEF Min
<1> DEFINE m0 == FirstMissing(s)
           Wanted == /\ m0 \in 0 .. n
                     /\ m0 = 0 => \A j \in 1 .. n : Loaded(s[j])
                     /\ m0 # 0 => ~ Loaded(s[m0]) /\ \A j \in 1 .. m0 - 1 : Loaded(s[j])
<1>3. ASSUME I = {} PROVE Wanted
  <2>1. m0 = 0 BY <1>1, <1>3
  <2>2. \A j \in 1 .. n : Loaded(s[j]) BY <1>3
  <2> HIDE DEF m0, n
  <2> QED BY <1>0, <2>1, <2>2
<1>4. ASSUME I # {} PROVE Wanted
  <2> DEFINE m == Min(I)
  <2>1. FirstMissing(s) = m /\ m \in I /\ \A y \in I : m <= y BY <1>1, <1>2, <1>4
  <2> HIDE DEF m
  <2>2. m \in 1 .. n /\ ~ Loaded(s[m]) BY <2>1
  <2>3. ASSUME NEW j \in 1 .. m - 1 PROVE Loaded(s[j])
    <3>1. j \in 1 .. n /\ ~ (m <= j) BY <1>0, <2>2
    <3>2. j \notin I
      <4> HIDE DEF I
      <4> QED BY <2>1, <3>1
    <3> QED BY <3>1, <3>2
  <2>4. m0 = m BY <2>1
  <2> HIDE DEF m0, n
  <2>5. m # 0 /\ m \in 0 .. n BY <1>0, <2>2
  <2> QED BY <2>2, <2>3, <2>4, <2>5
<1>5. Wanted
  <2> HIDE DEF Wanted, I
  <2> QED BY <1>3, <1>4
<1> QED BY <1>5

\* One level of Descend: where it stops, with what, and the frames it goes on with.
Missing(x) == FirstMissing(Head(x).rest)
Stops(x) == Missing(x) = 0 \/ Order(Head(x).rest[Missing(x)]) = Failed
NothingLeft(x) == <<[Head(x) EXCEPT !.rest = <<>>]>> \o Tail(x)
EndsWith(x) == IF Missing(x) = 0 THEN NothingLeft(x) ELSE <<>>
WaitingBelow(x) ==
    <<[Head(x) EXCEPT !.rest = SubSeq(@, Missing(x) + 1, Len(@))]>> \o Tail(x)
Below(x) ==
    LET d == Head(x).rest[Missing(x)] IN <<[plugin |-> d, rest |-> Before(d)]>> \o WaitingBelow(x)

LEMMA FramesAre ==
    ASSUME NEW x \in Frames
    PROVE  /\ x \in Seq(FrameSet) /\ x # <<>> /\ Head(x) \in FrameSet /\ Head(x) = x[1]
           /\ Tail(x) \in Seq(FrameSet) /\ Len(Tail(x)) = Len(x) - 1 /\ Len(x) \in Nat \ {0}
           /\ \A k \in 1 .. Len(x) - 1 : Tail(x)[k] = x[k + 1]
           /\ Head(x).rest \in Seq(PluginIds) /\ Head(x).plugin \in PluginIds
<1>1. x \in Seq(FrameSet) /\ x # <<>> BY DEF Frames, FrameSet
<1>2. Len(x) \in Nat \ {0} /\ Head(x) = x[1] BY <1>1
<1>3. Head(x) \in FrameSet BY <1>1, <1>2
<1>4. Tail(x) \in Seq(FrameSet) /\ Len(Tail(x)) = Len(x) - 1
      /\ \A k \in 1 .. Len(x) - 1 : Tail(x)[k] = x[k + 1]
  BY <1>1
<1>5. Head(x).rest \in Seq(PluginIds) /\ Head(x).plugin \in PluginIds BY <1>3 DEF FrameSet
<1> QED BY <1>1, <1>2, <1>3, <1>4, <1>5

\* One frame for another, on top of those below it.
LEMMA Topped ==
    ASSUME NEW f \in FrameSet, NEW t \in Seq(FrameSet)
    PROVE  /\ <<f>> \o t \in Frames /\ Len(<<f>> \o t) = Len(t) + 1 /\ (<<f>> \o t)[1] = f
           /\ \A k \in 1 .. Len(t) : (<<f>> \o t)[k + 1] = t[k]
           /\ Head(<<f>> \o t) = f /\ Tail(<<f>> \o t) = t
<1> DEFINE s == <<f>> \o t
<1>1. s \in Seq(FrameSet) /\ Len(s) = Len(t) + 1 /\ s[1] = f /\ Len(t) \in Nat
      /\ \A k \in 1 .. Len(t) : s[k + 1] = t[k]
  <2>1. <<f>> \in Seq(FrameSet) /\ Len(<<f>>) = 1 /\ <<f>>[1] = f OBVIOUS
  <2>2. s \in Seq(FrameSet) /\ Len(s) = Len(<<f>>) + Len(t)
        /\ \A i \in 1 .. Len(<<f>>) + Len(t) :
              s[i] = IF i <= Len(<<f>>) THEN <<f>>[i] ELSE t[i - Len(<<f>>)]
    BY <2>1, ConcatProperties
  <2>3. Len(t) \in Nat OBVIOUS
  <2> HIDE DEF s
  <2>4. \A k \in 1 .. Len(t) : k + 1 \in 1 .. 1 + Len(t) /\ ~ (k + 1 <= 1) /\ (k + 1) - 1 = k
    BY <2>3
  <2>5. s[1] = f BY <2>1, <2>2, <2>3
  <2>6. \A k \in 1 .. Len(t) : s[k + 1] = t[k] BY <2>1, <2>2, <2>4
  <2> QED BY <2>1, <2>2, <2>3, <2>5, <2>6
<1> HIDE DEF s
<1>2. s # <<>> BY <1>1
<1>3. Head(s) = f BY <1>1, <1>2
<1>4. Tail(s) = t
  <2>1. Tail(s) \in Seq(FrameSet) /\ Len(Tail(s)) = Len(t) /\ \A k \in 1 .. Len(t) : Tail(s)[k] = s[k + 1]
    BY <1>1, <1>2
  <2>2. \A k \in 1 .. Len(t) : Tail(s)[k] = t[k] BY <1>1, <2>1
  <2> QED BY <2>1, <2>2, SeqEqual
<1>5. s \in Frames BY <1>1, <1>2 DEF Frames, FrameSet
<1> QED BY <1>1, <1>3, <1>4, <1>5 DEF s

LEMMA WaitingIs ==
    ASSUME NEW x \in Frames, Missing(x) # 0
    PROVE  /\ WaitingBelow(x) \in Frames /\ Len(WaitingBelow(x)) = Len(x)
           /\ WaitingBelow(x)[1].plugin = x[1].plugin
           /\ Missing(x) \in 1 .. Len(x[1].rest)
           /\ \A d \in ToSet(x[1].rest) :
                 d \in ToSet(WaitingBelow(x)[1].rest) \/ Loaded(d) \/ d = x[1].rest[Missing(x)]
           /\ \A k \in 2 .. Len(x) : WaitingBelow(x)[k] = x[k]
<1> DEFINE rest == Head(x).rest
           m == Missing(x)
           after == SubSeq(rest, m + 1, Len(rest))
           f == [Head(x) EXCEPT !.rest = after]
<1>1. /\ rest \in Seq(PluginIds) /\ Tail(x) \in Seq(FrameSet) /\ Head(x) \in FrameSet
      /\ Len(x) \in Nat \ {0} /\ Head(x) = x[1] /\ Len(Tail(x)) = Len(x) - 1
      /\ \A k \in 1 .. Len(x) - 1 : Tail(x)[k] = x[k + 1]
  BY FramesAre
<1> HIDE DEF rest
<1>2. m \in 1 .. Len(rest) /\ \A j \in 1 .. m - 1 : Loaded(rest[j])
  <2>1. Missing(x) = FirstMissing(rest) BY DEF Missing, rest
  <2>2. Len(rest) \in Nat BY <1>1
  <2> QED BY <1>1, <2>1, <2>2, FirstMissingIs
<1> HIDE DEF m
<1>3. after \in Seq(PluginIds) /\ Len(after) = Len(rest) - m
      /\ \A j \in 1 .. Len(rest) - m : after[j] = rest[m + j]
  <2>0. Len(rest) \in Nat BY <1>1
  <2>1. m + 1 \in 1 .. Len(rest) + 1 /\ Len(rest) \in 0 .. Len(rest) /\ m \in Nat BY <1>2, <2>0
  <2>2. /\ SubSeq(rest, m + 1, Len(rest)) \in Seq(PluginIds)
        /\ Len(SubSeq(rest, m + 1, Len(rest))) = Len(rest) - m
        /\ \A j \in 1 .. Len(rest) - m : SubSeq(rest, m + 1, Len(rest))[j] = rest[m + j]
    BY <1>1, <2>0, <2>1
  <2> QED BY <2>2
<1> HIDE DEF after
<1>4. f \in FrameSet /\ f.plugin = Head(x).plugin /\ f.rest = after BY <1>1, <1>3 DEF FrameSet
<1>5. WaitingBelow(x) = <<f>> \o Tail(x) BY DEF WaitingBelow, after, m, rest
<1> HIDE DEF f
<1>6. /\ WaitingBelow(x) \in Frames /\ Len(WaitingBelow(x)) = Len(Tail(x)) + 1 /\ WaitingBelow(x)[1] = f
      /\ \A k \in 1 .. Len(Tail(x)) : WaitingBelow(x)[k + 1] = Tail(x)[k]
  <2> DEFINE t == Tail(x)
             w == WaitingBelow(x)
  <2>1. t \in Seq(FrameSet) /\ w = <<f>> \o t BY <1>1, <1>5
  <2> HIDE DEF t, w
  <2>2. w \in Frames /\ Len(w) = Len(t) + 1 /\ w[1] = f /\ \A k \in 1 .. Len(t) : w[k + 1] = t[k]
    BY <1>4, <2>1, Topped
  <2> QED BY <2>2 DEF t, w
<1>7. \A k \in 2 .. Len(x) : WaitingBelow(x)[k] = x[k]
  <2> SUFFICES ASSUME NEW k \in 2 .. Len(x) PROVE WaitingBelow(x)[k] = x[k] OBVIOUS
  <2>1. k - 1 \in 1 .. Len(x) - 1 /\ (k - 1) + 1 = k BY <1>1
  <2> QED BY <1>1, <1>6, <2>1
<1>8. ASSUME NEW d \in ToSet(rest) PROVE d \in ToSet(after) \/ Loaded(d) \/ d = rest[m]
  <2>1. PICK j \in 1 .. Len(rest) : rest[j] = d BY <1>1 DEF ToSet
  <2>2. CASE j < m
    <3>1. j \in 1 .. m - 1 BY <1>2, <2>1, <2>2
    <3> QED BY <1>2, <2>1, <3>1
  <2>3. CASE j = m BY <2>1, <2>3
  <2>4. CASE j > m
    <3>0. Len(rest) \in Nat BY <1>1
    <3>1. j - m \in 1 .. Len(rest) - m /\ m + (j - m) = j BY <1>2, <2>4, <3>0
    <3>2. after[j - m] = d /\ j - m \in DOMAIN after BY <1>3, <2>1, <3>1
    <3> QED BY <3>2 DEF ToSet
  <2>5. j \in Int /\ m \in Int BY <1>2
  <2> QED BY <2>2, <2>3, <2>4, <2>5
<1> QED BY <1>1, <1>2, <1>4, <1>6, <1>7, <1>8 DEF m, rest

LEMMA BelowIs ==
    ASSUME PluginTypes, NEW x \in Frames, ~ Stops(x)
    PROVE  LET d == x[1].rest[Missing(x)] IN
           /\ Below(x) \in Frames /\ Len(Below(x)) = Len(x) + 1
           /\ Below(x)[1] = [plugin |-> d, rest |-> Before(d)]
           /\ \A k \in 1 .. Len(x) : Below(x)[k + 1] = WaitingBelow(x)[k]
           /\ Missing(x) # 0 /\ Order(d) # Failed /\ d \in PluginIds /\ ~ Loaded(d)
<1> DEFINE d == Head(x).rest[Missing(x)]
           f == [plugin |-> d, rest |-> Before(d)]
<1>1. Missing(x) # 0 /\ Order(d) # Failed BY DEF Stops
<1>2. Head(x) = x[1] /\ Head(x).rest \in Seq(PluginIds) BY FramesAre
<1>3. Missing(x) \in 1 .. Len(Head(x).rest) BY <1>1, <1>2, WaitingIs
<1>4. d \in PluginIds BY <1>2, <1>3
<1>5. ~ Loaded(d) BY <1>1, <1>2, FirstMissingIs DEF Missing
<1>6. f \in FrameSet BY <1>1, <1>4, BeforeIs DEF FrameSet
<1>7. Below(x) = <<f>> \o WaitingBelow(x) BY DEF Below
<1>8. WaitingBelow(x) \in Seq(FrameSet) /\ Len(WaitingBelow(x)) = Len(x)
  BY <1>1, WaitingIs, FramesAre
<1> HIDE DEF f, d
<1>9. /\ Below(x) \in Frames /\ Len(Below(x)) = Len(x) + 1 /\ Below(x)[1] = f
      /\ \A k \in 1 .. Len(x) : Below(x)[k + 1] = WaitingBelow(x)[k]
  BY <1>6, <1>7, <1>8, Topped
<1>10. d = x[1].rest[Missing(x)] BY <1>2 DEF d
<1> QED BY <1>1, <1>4, <1>5, <1>9, <1>10 DEF f

\* Of a plugin whose frame is new only the next one below can be missing: what comes
\* before that one in the order is loaded, and it depends on nothing else.
LEMMA TwoLevels ==
    ASSUME PluginTypes, NEW x \in Frames, ~ Stops(x), ~ Stops(Below(x))
    PROVE  Stops(Below(Below(x)))
<1> DEFINE y == Below(x)
           z == Below(y)
           p == x[1].rest[Missing(x)]
           s == Before(p)
           m == Missing(y)
           d == y[1].rest[m]
           C == {s[j] : j \in 1 .. m}
<1>1. y \in Frames /\ y[1] = [plugin |-> p, rest |-> s] /\ Order(p) # Failed /\ p \in PluginIds
  BY BelowIs
<1> HIDE DEF y, p
<1>2. y[1].rest = s BY <1>1
<1>3. z \in Frames /\ z[1] = [plugin |-> d, rest |-> Before(d)] /\ Order(d) # Failed
      /\ d \in PluginIds /\ m # 0
  BY <1>1, BelowIs DEF y
<1>4. s \in Seq(PluginIds) /\ Ordered(s) BY <1>1, BeforeIs
<1> HIDE DEF s
<1>5. m \in 1 .. Len(s) /\ (\A j \in 1 .. m - 1 : Loaded(s[j])) /\ d = s[m] /\ Len(s) \in Nat
  <2>1. Head(y) = y[1] BY <1>1, FramesAre
  <2>2. m = FirstMissing(s) BY <1>2, <2>1 DEF Missing
  <2>3. Len(s) \in Nat BY <1>4
  <2> HIDE DEF m
  <2> QED BY <1>2, <1>3, <1>4, <2>2, <2>3, FirstMissingIs
<1> HIDE DEF z, m, d
<1>6. Closed(C) /\ C \in SUBSET PluginIds /\ d \in C
  <2>1. \A j \in 1 .. m : j \in 1 .. Len(s) /\ s[j] \in PluginIds BY <1>4, <1>5
  <2>2. ASSUME NEW j \in 1 .. m PROVE ToSet(dependencies[s[j]]) \subseteq C
    <3>1. ToSet(dependencies[s[j]]) \subseteq {s[i] : i \in 1 .. j - 1}
      BY <1>4, <2>1 DEF Ordered
    <3>2. \A i \in 1 .. j - 1 : i \in 1 .. m BY <1>5
    <3> QED BY <3>1, <3>2
  <2>3. m \in 1 .. m BY <1>5
  <2> QED BY <1>5, <2>1, <2>2, <2>3 DEF Closed
<1>7. ToSet(Before(d)) \subseteq C /\ d \notin ToSet(Before(d)) /\ Before(d) \in Seq(PluginIds)
  <2> HIDE DEF C
  <2> QED BY <1>3, <1>6, BeforeIs
<1>8. ASSUME NEW e \in ToSet(Before(d)) PROVE Loaded(e)
  <2>1. PICK j \in 1 .. m : e = s[j] BY <1>7
  <2>2. j # m BY <1>5, <1>7, <2>1
  <2>3. j \in 1 .. m - 1 BY <1>5, <2>2
  <2> QED BY <1>5, <2>1, <2>3
<1>9. Missing(z) = 0
  <2>1. Head(z) = z[1] BY <1>3, FramesAre
  <2>2. Missing(z) = FirstMissing(Before(d)) BY <1>3, <2>1 DEF Missing
  <2>3. \A j \in 1 .. Len(Before(d)) : Loaded(Before(d)[j])
    <3>1. \A j \in 1 .. Len(Before(d)) : Before(d)[j] \in ToSet(Before(d))
      BY <1>7 DEF ToSet
    <3> QED BY <1>8, <3>1
  <2>4. FirstMissing(Before(d)) = 0
    <3> SUFFICES ASSUME FirstMissing(Before(d)) # 0 PROVE FALSE OBVIOUS
    <3>1. FirstMissing(Before(d)) \in 0 .. Len(Before(d)) /\ ~ Loaded(Before(d)[FirstMissing(Before(d))])
      BY <1>7, FirstMissingIs
    <3>2. Len(Before(d)) \in Nat BY <1>7
    <3>3. FirstMissing(Before(d)) \in 1 .. Len(Before(d)) BY <3>1, <3>2
    <3> QED BY <2>3, <3>1, <3>3
  <2> QED BY <2>2, <2>4
<1>10. Stops(z) BY <1>9 DEF Stops
<1> QED BY <1>10 DEF z, y

\* One step of the recursion of Descend, for a function that may be Descend.
Descends(f) == [x \in Frames |-> IF Stops(x) THEN EndsWith(x) ELSE f[Below(x)]]

LEMMA DescendIs ==
    ASSUME PluginTypes
    PROVE  \A x \in Frames : Descend[x] = IF Stops(x) THEN EndsWith(x) ELSE Descend[Below(x)]
<1> DEFINE own == [x \in Frames |->
               IF Stops(x) THEN EndsWith(x)
               ELSE IF Stops(Below(x)) THEN EndsWith(Below(x)) ELSE EndsWith(Below(Below(x)))]
<1>1. Descend = CHOOSE f : f = Descends(f)
  BY DEF Descend, Descends, Stops, EndsWith, Below, WaitingBelow, NothingLeft, Missing, FirstMissing
<1>2. own = Descends(own)
  <2>1. ASSUME NEW x \in Frames
        PROVE  own[x] = IF Stops(x) THEN EndsWith(x) ELSE own[Below(x)]
    <3>1. CASE Stops(x) BY <3>1
    <3>2. CASE ~ Stops(x)
      <4>1. Below(x) \in Frames BY <3>2, BelowIs
      <4>2. CASE Stops(Below(x)) BY <3>2, <4>1, <4>2
      <4>3. CASE ~ Stops(Below(x))
        <5>1. Stops(Below(Below(x))) BY <3>2, <4>3, TwoLevels
        <5> QED BY <3>2, <4>1, <4>3, <5>1
      <4> QED BY <4>2, <4>3
    <3> QED BY <3>1, <3>2
  <2>2. \A x \in Frames : own[x] = Descends(own)[x]
    <3> HIDE DEF own
    <3> QED BY <2>1 DEF Descends
  <2> QED BY <2>2 DEF Descends
<1>3. Descend = Descends(Descend)
  <2> HIDE DEF own
  <2>1. \E f : f = Descends(f) BY <1>2
  <2> QED BY <1>1, <2>1
<1> QED BY <1>3 DEF Descends

-----------------------------------------------------------------------------
(* What the plugins and the calls on them are *)

\* What the plugin of a frame depends on has been initialized, is still to come, or
\* is what the frame above loads.
CoveredAt(x, k) ==
    \A d \in ToSet(dependencies[x[k].plugin]) :
        d \in initialized \/ d \in ToSet(x[k].rest) \/ (k > 1 /\ d = x[k - 1].plugin)
Covered(x) == \A k \in 1 .. Len(x) : CoveredAt(x, k)

LoadedWere == \A p \in PluginIds : Loaded(p) => p \in initialized

CallRecords ==
    [at : {"idle", "entry", "initialize", "return", "start", "started", "stop",
           "stop for unload", "stopped", "destroy"},
     frames : Seq(FrameSet), plugin : Seq(PluginIds), object : Nat, next : Seq(PluginIds)]
OnObjects == {"start", "stop", "stop for unload", "destroy"}

RightCall(k) ==
    /\ k \in CallRecords
    /\ k.at \in {"entry", "initialize"} =>
          k.frames # <<>> /\ Covered(k.frames) /\ k.frames[1].rest = <<>>
    /\ k.at = "return" => Covered(k.frames)
    /\ k.at \in OnObjects => k.plugin # <<>> /\ k.object # 0

\* Each object is of one plugin, wherever it is kept.
OwnedBy(owner) ==
    /\ owner \in [1 .. objects -> PluginIds]
    /\ \A p \in PluginIds :
          /\ plugins[p] # 0 => plugins[p] \in 1 .. objects /\ owner[plugins[p]] = p
          /\ activePlugins[p] # 0 => activePlugins[p] \in 1 .. objects /\ owner[activePlugins[p]] = p
    /\ \A c \in Callers :
          calls[c].at \in OnObjects =>
              calls[c].object \in 1 .. objects /\ owner[calls[c].object] = calls[c].plugin[1]
Owned == \E owner \in [1 .. objects -> PluginIds] : OwnedBy(owner)

PluginsInv ==
    /\ PluginTypes
    /\ plugins \in [PluginIds -> Nat] /\ activePlugins \in [PluginIds -> Nat]
    /\ objects \in Nat /\ initialized \subseteq PluginIds
    /\ IsFiniteSet({p \in PluginIds : activePlugins[p] # 0})
    /\ LoadedWere /\ Closed(initialized)
    /\ \A p \in PluginIds : activePlugins[p] # 0 => activePlugins[p] \in active
    /\ calls \in [Callers -> CallRecords] /\ \A c \in Callers : RightCall(calls[c])
    /\ Owned

LEMMA EndsCovered ==
    ASSUME PluginTypes, LoadedWere, NEW x \in Frames, Covered(x), Missing(x) = 0
    PROVE  /\ NothingLeft(x) \in Frames /\ Covered(NothingLeft(x)) /\ NothingLeft(x)[1].rest = <<>>
<1> DEFINE f == [Head(x) EXCEPT !.rest = <<>>]
           t == Tail(x)
           y == <<f>> \o t
<1>1. /\ Head(x) = x[1] /\ Head(x) \in FrameSet /\ t \in Seq(FrameSet)
      /\ Len(t) = Len(x) - 1 /\ Len(x) \in Nat \ {0}
      /\ (\A k \in 1 .. Len(x) - 1 : t[k] = x[k + 1]) /\ Head(x).rest \in Seq(PluginIds)
  BY FramesAre
<1>2. f \in FrameSet /\ f.plugin = x[1].plugin /\ f.rest = <<>>
  <2> DEFINE h == Head(x)
             none == <<>>
             g == [h EXCEPT !.rest = none]
  <2>1. h \in FrameSet /\ none \in Seq(PluginIds) BY <1>1
  <2>2. f = g OBVIOUS
  <2> HIDE DEF h, none
  <2>3. g \in FrameSet /\ g.plugin = h.plugin /\ g.rest = none BY <2>1 DEF FrameSet
  <2> HIDE DEF g, f
  <2>4. f \in FrameSet /\ f.plugin = h.plugin /\ f.rest = none BY <2>2, <2>3
  <2> QED BY <1>1, <2>4 DEF h, none
<1>3. \A d \in ToSet(x[1].rest) : d \in initialized
  <2>1. \A j \in 1 .. Len(x[1].rest) : Loaded(x[1].rest[j])
    BY <1>1, FirstMissingIs DEF Missing
  <2>2. \A j \in 1 .. Len(x[1].rest) : x[1].rest[j] \in PluginIds BY <1>1
  <2>3. x[1].rest \in Seq(PluginIds) BY <1>1
  <2> QED BY <2>1, <2>2, <2>3 DEF LoadedWere, ToSet
<1> HIDE DEF f, t
<1>4. /\ y \in Frames /\ Len(y) = Len(x) /\ y[1] = f
      /\ \A k \in 1 .. Len(t) : y[k + 1] = t[k]
  BY <1>1, <1>2, Topped
<1> HIDE DEF y
<1>5. \A k \in 2 .. Len(x) : y[k] = x[k]
  <2> SUFFICES ASSUME NEW k \in 2 .. Len(x) PROVE y[k] = x[k] OBVIOUS
  <2>1. k - 1 \in 1 .. Len(x) - 1 /\ (k - 1) + 1 = k BY <1>1
  <2> QED BY <1>1, <1>4, <2>1
<1>6. ASSUME NEW k \in 1 .. Len(x) PROVE CoveredAt(y, k)
  <2>1. CoveredAt(x, k) BY DEF Covered
  <2>2. CASE k = 1
    <3>1. \A d \in ToSet(dependencies[x[1].plugin]) : d \in initialized
      BY <1>3, <2>1, <2>2 DEF CoveredAt
    <3> QED BY <1>2, <1>4, <2>2, <3>1 DEF CoveredAt
  <2>3. CASE k > 1
    <3>1. k \in 2 .. Len(x) /\ k - 1 \in 1 .. Len(x) BY <1>1, <2>3
    <3>2. y[k] = x[k] BY <1>5, <3>1
    <3>3. y[k - 1].plugin = x[k - 1].plugin
      <4>1. CASE k - 1 = 1 BY <1>2, <1>4, <4>1
      <4>2. CASE k - 1 > 1
        <5>1. k - 1 \in 2 .. Len(x) BY <3>1, <4>2
        <5> QED BY <1>5, <5>1
      <4> QED BY <3>1, <4>1, <4>2
    <3> QED BY <2>1, <3>2, <3>3 DEF CoveredAt
  <2> QED BY <1>1, <2>2, <2>3
<1>7. Covered(y) BY <1>4, <1>6 DEF Covered
<1>8. NothingLeft(x) = y BY DEF NothingLeft, y, f, t
<1> QED BY <1>2, <1>4, <1>7, <1>8

LEMMA BelowCovered ==
    ASSUME PluginTypes, LoadedWere, NEW x \in Frames, Covered(x), ~ Stops(x)
    PROVE  Below(x) \in Frames /\ Covered(Below(x))
<1> DEFINE d == x[1].rest[Missing(x)]
           w == WaitingBelow(x)
           y == Below(x)
<1>1. /\ y \in Frames /\ Len(y) = Len(x) + 1 /\ y[1] = [plugin |-> d, rest |-> Before(d)]
      /\ (\A k \in 1 .. Len(x) : y[k + 1] = w[k])
      /\ Missing(x) # 0 /\ Order(d) # Failed /\ d \in PluginIds
  BY BelowIs
<1>2. /\ w[1].plugin = x[1].plugin /\ Missing(x) \in 1 .. Len(x[1].rest)
      /\ (\A e \in ToSet(x[1].rest) : e \in ToSet(w[1].rest) \/ Loaded(e) \/ e = d)
      /\ \A k \in 2 .. Len(x) : w[k] = x[k]
  BY <1>1, WaitingIs
<1>3. Len(x) \in Nat \ {0} /\ x[1].rest \in Seq(PluginIds) /\ x \in Seq(FrameSet)
      /\ Head(x) = x[1]
  BY FramesAre
<1>4. \A e \in ToSet(x[1].rest) : e \in PluginIds BY <1>3 DEF ToSet
<1> HIDE DEF d, w, y
<1>5. ASSUME NEW k \in 1 .. Len(x) + 1 PROVE CoveredAt(y, k)
  <2>1. CASE k = 1
    <3>1. ToSet(dependencies[d]) \subseteq ToSet(Before(d)) BY <1>1, BeforeIs
    <3>2. y[1].plugin = d /\ y[1].rest = Before(d) BY <1>1
    <3> QED BY <2>1, <3>1, <3>2 DEF CoveredAt
  <2>2. CASE k = 2
    <3>1. y[2] = w[1] BY <1>1, <1>3
    <3>2. CoveredAt(x, 1) BY <1>3 DEF Covered
    <3>3. y[2 - 1].plugin = d BY <1>1
    <3>4. \A e \in ToSet(dependencies[x[1].plugin]) : e \in initialized \/ e \in ToSet(x[1].rest)
      BY <3>2 DEF CoveredAt
    <3>5. \A e \in ToSet(dependencies[x[1].plugin]) :
              e \in initialized \/ e \in ToSet(w[1].rest) \/ e = d
      BY <1>2, <1>4, <3>4 DEF LoadedWere
    <3>6. \A e \in ToSet(dependencies[y[2].plugin]) :
              e \in initialized \/ e \in ToSet(y[2].rest) \/ e = y[2 - 1].plugin
      BY <1>2, <3>1, <3>3, <3>5
    <3> QED BY <2>2, <3>6 DEF CoveredAt
  <2>3. CASE k > 2
    <3>1. k - 1 \in 2 .. Len(x) /\ k - 1 \in 1 .. Len(x) /\ (k - 1) + 1 = k
          /\ k - 2 \in 1 .. Len(x) /\ (k - 2) + 1 = k - 1 /\ (k - 1) - 1 = k - 2
      BY <1>3, <2>3
    <3>2. y[k] = x[k - 1] BY <1>1, <1>2, <3>1
    <3>3. y[k - 1].plugin = x[k - 2].plugin
      <4>1. y[k - 1] = w[k - 2] BY <1>1, <3>1
      <4>2. CASE k - 2 = 1 BY <1>2, <4>1, <4>2
      <4>3. CASE k - 2 > 1
        <5>1. k - 2 \in 2 .. Len(x) BY <3>1, <4>3
        <5> QED BY <1>2, <4>1, <5>1
      <4> QED BY <3>1, <4>2, <4>3
    <3>4. CoveredAt(x, k - 1) BY <3>1 DEF Covered
    <3>5. \A e \in ToSet(dependencies[x[k - 1].plugin]) :
              e \in initialized \/ e \in ToSet(x[k - 1].rest) \/ e = x[k - 2].plugin
      BY <3>1, <3>4 DEF CoveredAt
    <3> QED BY <2>3, <3>2, <3>3, <3>5 DEF CoveredAt
  <2> QED BY <1>3, <2>1, <2>2, <2>3
<1>6. Covered(y) BY <1>1, <1>5 DEF Covered
<1> QED BY <1>1, <1>6 DEF y

\* What a load that goes deeper waits for.
LoadsFirst(y) == y \in Frames /\ Covered(y) /\ y[1].rest = <<>>

LEMMA DescendCovered ==
    ASSUME PluginTypes, LoadedWere, NEW x \in Frames, Covered(x)
    PROVE  Descend[x] = <<>> \/ LoadsFirst(Descend[x])
<1>1. ASSUME NEW y \in Frames, Covered(y), Stops(y)
      PROVE  Descend[y] = <<>> \/ LoadsFirst(Descend[y])
  <2>1. Descend[y] = EndsWith(y) BY <1>1, DescendIs
  <2>2. CASE Missing(y) = 0
    <3>1. LoadsFirst(NothingLeft(y)) BY <1>1, <2>2, EndsCovered DEF LoadsFirst
    <3> QED BY <2>1, <2>2, <3>1 DEF EndsWith
  <2>3. CASE Missing(y) # 0 BY <2>1, <2>3 DEF EndsWith
  <2> QED BY <2>2, <2>3
<1>2. CASE Stops(x) BY <1>1, <1>2
<1>3. CASE ~ Stops(x)
  <2>1. Descend[x] = Descend[Below(x)] BY <1>3, DescendIs
  <2>2. Below(x) \in Frames /\ Covered(Below(x)) BY <1>3, BelowCovered
  <2>3. CASE Stops(Below(x)) BY <1>1, <2>1, <2>2, <2>3
  <2>4. CASE ~ Stops(Below(x))
    <3>1. Descend[x] = Descend[Below(Below(x))] BY <2>1, <2>2, <2>4, DescendIs
    <3>2. Below(Below(x)) \in Frames /\ Covered(Below(Below(x))) BY <2>2, <2>4, BelowCovered
    <3>3. Stops(Below(Below(x))) BY <1>3, <2>4, TwoLevels
    <3> QED BY <1>1, <3>1, <3>2, <3>3
  <2> QED BY <2>3, <2>4
<1> QED BY <1>2, <1>3

-----------------------------------------------------------------------------
(* What a call waits for next *)

\* A call one can go on with: what it holds is the object that is loaded.
GoodCall(k) ==
    /\ RightCall(k)
    /\ k.at \in OnObjects => k.object = plugins[k.plugin[1]] /\ k.plugin[1] \in PluginIds

CallTypes == plugins \in [PluginIds -> Nat] /\ LoadedWere

LEMMA IdleIsGood == GoodCall(Idle)
<1>1. <<>> \in Seq(FrameSet) /\ <<>> \in Seq(PluginIds) OBVIOUS
<1> QED BY <1>1 DEF GoodCall, RightCall, Idle, CallRecords, OnObjects

LEMMA LoadingIsGood ==
    ASSUME PluginTypes, CallTypes, NEW p \in PluginIds, NEW next \in Seq(PluginIds)
    PROVE  GoodCall(Loading(p, next))
<1> DEFINE f == [plugin |-> p, rest |-> Before(p)]
           none == <<>>
           x == <<f>> \o none
           frames == Descend[x]
           k == [Idle EXCEPT !.at = "entry", !.next = next, !.frames = frames]
<1>1. CASE Loaded(p) \/ Order(p) = Failed \/ Descend[<<f>>] = <<>>
  BY <1>1, IdleIsGood DEF Loading
<1>2. CASE ~ (Loaded(p) \/ Order(p) = Failed \/ Descend[<<f>>] = <<>>)
  <2>1. Before(p) \in Seq(PluginIds) /\ ToSet(dependencies[p]) \subseteq ToSet(Before(p))
    BY <1>2, BeforeIs
  <2>2. f \in FrameSet /\ f.plugin = p /\ f.rest = Before(p) BY <2>1 DEF FrameSet
  <2>3. none \in Seq(FrameSet) /\ Len(none) = 0 OBVIOUS
  <2>4. x = <<f>>
    <3> HIDE DEF f
    <3> QED BY <2>2
  <2>5. Loading(p, next) = k BY <1>2, <2>4 DEF Loading
  <2> HIDE DEF f, none
  <2>6. x \in Frames /\ Len(x) = 1 /\ x[1] = f
    <3>1. x \in Frames /\ Len(x) = Len(none) + 1 /\ x[1] = f
      <4> HIDE DEF x
      <4>1. x = <<f>> \o none BY DEF x
      <4> QED BY <2>2, <2>3, <4>1, Topped
    <3> HIDE DEF x
    <3> QED BY <2>3, <3>1
  <2> HIDE DEF x
  <2>7. Covered(x)
    <3>1. CoveredAt(x, 1) BY <2>1, <2>2, <2>6 DEF CoveredAt
    <3>2. \A j \in 1 .. Len(x) : j = 1 BY <2>6
    <3> QED BY <3>1, <3>2 DEF Covered
  <2>8. LoadsFirst(frames)
    <3>1. frames = <<>> \/ LoadsFirst(frames) BY <2>6, <2>7, DescendCovered DEF CallTypes
    <3> QED BY <1>2, <2>4, <3>1 DEF x, f
  <2> HIDE DEF frames
  <2>9. frames \in Seq(FrameSet) /\ frames # <<>> BY <2>8, FramesAre DEF LoadsFirst
  <2>10. k \in CallRecords /\ k.at = "entry" /\ k.frames = frames
    <3>1. <<>> \in Seq(PluginIds) OBVIOUS
    <3> QED BY <2>9, <3>1 DEF Idle, CallRecords
  <2> HIDE DEF k
  <2>11. GoodCall(k) BY <2>8, <2>9, <2>10 DEF GoodCall, RightCall, LoadsFirst, OnObjects
  <2> QED BY <2>5, <2>11
<1> QED BY <1>1, <1>2

LEMMA LoadAfterIsGood ==
    ASSUME PluginTypes, CallTypes, NEW n \in Nat
    PROVE  GoodCall(LoadAfter(n))
<1> DEFINE Wanted(p) == p \in enabled \ SystemPlugins /\ ~ Loaded(p)
           I == {j \in n + 1 .. Len(pluginRegistry) : Wanted(pluginRegistry[j])}
           i == SelectInSubSeq(pluginRegistry, n + 1, Len(pluginRegistry), Wanted)
<1>1. i = IF I # {} THEN Min(I) ELSE 0 BY DEF SelectInSubSeq
<1>2. LoadAfter(n) = IF i = 0 THEN Idle ELSE Loading(pluginRegistry[i], <<pluginRegistry[i]>>)
  BY DEF LoadAfter
<1>3. Len(pluginRegistry) \in Nat /\ pluginRegistry \in Seq(PluginIds) BY DEF PluginTypes
<1>4. I # {} => Min(I) \in I
  <2>1. I \subseteq Nat BY <1>3
  <2> HIDE DEF I
  <2> QED BY <2>1, Least DEF Min
<1> HIDE DEF i
<1>5. CASE I = {}
  <2>1. i = 0 BY <1>1, <1>5
  <2> QED BY <1>2, <2>1, IdleIsGood
<1>6. CASE I # {}
  <2>1. i \in n + 1 .. Len(pluginRegistry) BY <1>1, <1>4, <1>6
  <2>2. i \in 1 .. Len(pluginRegistry) /\ i # 0 BY <1>3, <2>1
  <2>3. pluginRegistry[i] \in PluginIds BY <1>3, <2>2
  <2> DEFINE p == pluginRegistry[i]
             next == <<p>>
  <2>4. LoadAfter(n) = Loading(p, next) BY <1>2, <2>2
  <2>5. next \in Seq(PluginIds) /\ p \in PluginIds BY <2>3
  <2> HIDE DEF p, next
  <2> QED BY <2>4, <2>5, LoadingIsGood
<1> QED BY <1>5, <1>6

LEMMA OnObjectIsGood ==
    ASSUME CallTypes, NEW at \in OnObjects, NEW p \in PluginIds, Loaded(p), NEW next \in Seq(PluginIds)
    PROVE  GoodCall(OnObject(at, p, next))
<1> DEFINE k == OnObject(at, p, next)
           one == <<p>>
           none == <<>>
<1>1. one \in Seq(PluginIds) /\ one # <<>> /\ one[1] = p OBVIOUS
<1>2. none \in Seq(FrameSet) OBVIOUS
<1>3. plugins[p] \in Nat /\ plugins[p] # 0 BY DEF CallTypes, Loaded
<1>4. k = [at |-> at, frames |-> none, plugin |-> one, object |-> plugins[p], next |-> next]
  <2> DEFINE idle == [at |-> "idle", frames |-> none, plugin |-> none, object |-> 0, next |-> none]
             o == plugins[p]
  <2>1. Idle = idle BY DEF Idle
  <2>2. k = [idle EXCEPT !.at = at, !.plugin = one, !.object = o, !.next = next]
    <3> HIDE DEF idle
    <3> QED BY <2>1 DEF OnObject
  <2> HIDE DEF k, none, one, o
  <2>3. [idle EXCEPT !.at = at, !.plugin = one, !.object = o, !.next = next]
        = [at |-> at, frames |-> none, plugin |-> one, object |-> o, next |-> next]
    <3> DEFINE r1 == [at |-> at, frames |-> none, plugin |-> none, object |-> 0, next |-> none]
               r2 == [at |-> at, frames |-> none, plugin |-> one, object |-> 0, next |-> none]
               r3 == [at |-> at, frames |-> none, plugin |-> one, object |-> o, next |-> none]
    <3>1. [idle EXCEPT !.at = at] = r1 OBVIOUS
    <3>2. [r1 EXCEPT !.plugin = one] = r2 OBVIOUS
    <3>3. [r2 EXCEPT !.object = o] = r3 OBVIOUS
    <3>4. [r3 EXCEPT !.next = next]
          = [at |-> at, frames |-> none, plugin |-> one, object |-> o, next |-> next]
      OBVIOUS
    <3> HIDE DEF idle, r1, r2, r3
    <3>5. [[[[idle EXCEPT !.at = at] EXCEPT !.plugin = one] EXCEPT !.object = o] EXCEPT !.next = next]
          = [at |-> at, frames |-> none, plugin |-> one, object |-> o, next |-> next]
      BY <3>1, <3>2, <3>3, <3>4, Zenon
    <3> QED BY <3>5
  <2> QED BY <2>2, <2>3 DEF o
<1> HIDE DEF one, none, k
<1>5. k \in CallRecords /\ k.at = at /\ k.plugin = one /\ k.object = plugins[p]
  BY <1>1, <1>2, <1>3, <1>4 DEF CallRecords, OnObjects
<1>6. at # "entry" /\ at # "initialize" /\ at # "return" BY DEF OnObjects
<1>7. GoodCall(k) BY <1>1, <1>3, <1>5, <1>6 DEF GoodCall, RightCall
<1> QED BY <1>7 DEF k

LEMMA WaitForIsGood ==
    ASSUME CallTypes, NEW at \in OnObjects, NEW todo \in Seq(PluginIds), NEW i \in 0 .. Len(todo)
    PROVE  GoodCall(WaitFor(at, todo, i))
<1> DEFINE p == todo[i]
           next == SubSeq(todo, i + 1, Len(todo))
<1>1. CASE i = 0 \/ ~ Loaded(p) BY <1>1, IdleIsGood DEF WaitFor
<1>2. CASE ~ (i = 0 \/ ~ Loaded(p))
  <2>1. Len(todo) \in Nat OBVIOUS
  <2>2. i \in 1 .. Len(todo) BY <1>2, <2>1
  <2>3. p \in PluginIds /\ Loaded(p) BY <1>2, <2>2
  <2>4. i + 1 \in 1 .. Len(todo) + 1 /\ Len(todo) \in 0 .. Len(todo) BY <2>1, <2>2
  <2>5. next \in Seq(PluginIds) BY <2>1, <2>4
  <2>6. WaitFor(at, todo, i) = OnObject(at, p, next) BY <1>2 DEF WaitFor
  <2> HIDE DEF p, next
  <2> QED BY <2>3, <2>5, <2>6, OnObjectIsGood
<1> QED BY <1>1, <1>2

LEMMA StartEachIsGood ==
    ASSUME CallTypes, NEW todo \in Seq(PluginIds)
    PROVE  GoodCall(StartEach(todo))
<1> DEFINE Next1(p) == activePlugins[p] = 0 /\ ~ (Loaded(p) /\ plugins[p] \in active)
           I == {j \in 1 .. Len(todo) : Next1(todo[j])}
           i == SelectInSeq(todo, Next1)
<1>1. i = IF I # {} THEN Min(I) ELSE 0 BY DEF SelectInSeq
<1>2. StartEach(todo) = WaitFor("start", todo, i) BY DEF StartEach
<1>3. Len(todo) \in Nat OBVIOUS
<1>4. I # {} => Min(I) \in I
  <2>1. I \subseteq Nat BY <1>3
  <2> HIDE DEF I
  <2> QED BY <2>1, Least DEF Min
<1>5. i \in 0 .. Len(todo) BY <1>1, <1>3, <1>4
<1> HIDE DEF i
<1>6. "start" \in OnObjects BY DEF OnObjects
<1> QED BY <1>2, <1>5, <1>6, WaitForIsGood

LEMMA StopEachIsGood ==
    ASSUME CallTypes, NEW todo \in Seq(PluginIds)
    PROVE  GoodCall(StopEach(todo))
<1> DEFINE Next1(p) == ~ Loaded(p) \/ plugins[p] \in active
           I == {j \in 1 .. Len(todo) : Next1(todo[j])}
           i == SelectInSeq(todo, Next1)
<1>1. i = IF I # {} THEN Min(I) ELSE 0 BY DEF SelectInSeq
<1>2. StopEach(todo) = WaitFor("stop", todo, i) BY DEF StopEach
<1>3. Len(todo) \in Nat OBVIOUS
<1>4. I # {} => Min(I) \in I
  <2>1. I \subseteq Nat BY <1>3
  <2> HIDE DEF I
  <2> QED BY <2>1, Least DEF Min
<1>5. i \in 0 .. Len(todo) BY <1>1, <1>3, <1>4
<1> HIDE DEF i
<1>6. "stop" \in OnObjects BY DEF OnObjects
<1> QED BY <1>2, <1>5, <1>6, WaitForIsGood

-----------------------------------------------------------------------------
(* The calls after a step *)

CoveredThen(x) ==
    \A i \in 1 .. Len(x) : \A d \in ToSet(dependencies'[x[i].plugin]) :
        d \in initialized' \/ d \in ToSet(x[i].rest) \/ (i > 1 /\ d = x[i - 1].plugin)
RightThen(k) ==
    /\ k \in CallRecords
    /\ k.at \in {"entry", "initialize"} =>
          k.frames # <<>> /\ CoveredThen(k.frames) /\ k.frames[1].rest = <<>>
    /\ k.at = "return" => CoveredThen(k.frames)
    /\ k.at \in OnObjects => k.plugin # <<>> /\ k.object # 0

OwnedThen(owner) ==
    /\ owner \in [1 .. objects' -> PluginIds]
    /\ \A p \in PluginIds :
          /\ plugins'[p] # 0 => plugins'[p] \in 1 .. objects' /\ owner[plugins'[p]] = p
          /\ activePlugins'[p] # 0 =>
                activePlugins'[p] \in 1 .. objects' /\ owner[activePlugins'[p]] = p
    /\ \A c \in Callers :
          calls'[c].at \in OnObjects =>
              calls'[c].object \in 1 .. objects' /\ owner[calls'[c].object] = calls'[c].plugin[1]

LEMMA RightStays ==
    ASSUME dependencies' = dependencies, initialized \subseteq initialized', NEW k, RightCall(k)
    PROVE  RightThen(k)
<1>1. ASSUME NEW x, Covered(x) PROVE CoveredThen(x)
  BY <1>1 DEF Covered, CoveredAt, CoveredThen
<1> QED BY <1>1 DEF RightCall, RightThen

LEMMA SetRight ==
    ASSUME dependencies' = dependencies, initialized \subseteq initialized',
           calls \in [Callers -> CallRecords], \A b \in Callers : RightCall(calls[b]),
           NEW c \in Callers, NEW k, RightThen(k), calls' = [calls EXCEPT ![c] = k]
    PROVE  /\ calls' \in [Callers -> CallRecords]
           /\ \A b \in Callers : RightCall(calls[b])'
<1>1. k \in CallRecords BY DEF RightThen
<1>2. ASSUME NEW b \in Callers PROVE RightCall(calls[b])'
  <2>1. RightThen(calls'[b])
    <3>1. CASE b = c BY <3>1
    <3>2. CASE b # c
      <4>1. RightThen(calls[b]) BY RightStays
      <4> QED BY <3>2, <4>1
    <3> QED BY <3>1, <3>2
  <2> QED BY <2>1 DEF RightThen, CoveredThen, RightCall, Covered, CoveredAt
<1> QED BY <1>1, <1>2

LEMMA CallChanged ==
    ASSUME PluginsInv, NEW c \in Callers, NEW k, GoodCall(k), calls' = [calls EXCEPT ![c] = k],
           UNCHANGED <<dependencies, pluginRegistry, plugins, activePlugins, active, objects,
                       initialized>>
    PROVE  PluginsInv'
<1>1. /\ PluginTypes' /\ (plugins \in [PluginIds -> Nat])' /\ (activePlugins \in [PluginIds -> Nat])'
      /\ (objects \in Nat)' /\ (initialized \subseteq PluginIds)'
      /\ IsFiniteSet({p \in PluginIds : activePlugins[p] # 0})' /\ LoadedWere' /\ Closed(initialized)'
      /\ (\A p \in PluginIds : activePlugins[p] # 0 => activePlugins[p] \in active)'
  BY DEF PluginsInv, PluginTypes, LoadedWere, Closed, Loaded
<1>2. /\ calls' \in [Callers -> CallRecords] /\ \A b \in Callers : RightCall(calls[b])'
  <2>1. RightThen(k) BY RightStays DEF GoodCall
  <2> QED BY <2>1, SetRight DEF PluginsInv
<1>3. Owned'
  <2>1. PICK owner \in [1 .. objects -> PluginIds] : OwnedBy(owner) BY DEF PluginsInv, Owned
  <2>2. ASSUME NEW b \in Callers, calls'[b].at \in OnObjects
        PROVE  calls'[b].object \in 1 .. objects /\ owner[calls'[b].object] = calls'[b].plugin[1]
    <3>1. CASE b = c
      <4>1. calls'[b] = k BY <3>1 DEF PluginsInv
      <4>2. k.object = plugins[k.plugin[1]] /\ k.plugin[1] \in PluginIds /\ k.object # 0
        BY <2>2, <4>1 DEF GoodCall, RightCall
      <4> QED BY <2>1, <4>1, <4>2 DEF OwnedBy
    <3>2. CASE b # c
      <4>1. calls'[b] = calls[b] BY <3>2 DEF PluginsInv
      <4> QED BY <2>1, <2>2, <4>1 DEF OwnedBy
    <3> QED BY <3>1, <3>2
  <2>3. OwnedBy(owner)' BY <2>1, <2>2 DEF OwnedBy
  <2> QED BY <2>3 DEF Owned, OwnedBy
<1> QED BY <1>1, <1>2, <1>3 DEF PluginsInv

LEMMA FirstOf ==
    ASSUME NEW c \in Callers, PluginsInv, calls[c].at \in OnObjects
    PROVE  calls[c].plugin[1] \in PluginIds /\ calls[c].object \in Nat \ {0}
<1>1. RightCall(calls[c]) BY DEF PluginsInv
<1>2. calls[c].plugin \in Seq(PluginIds) /\ calls[c].plugin # <<>>
  BY <1>1 DEF RightCall, CallRecords
<1>3. calls[c].object \in Nat /\ calls[c].object # 0 BY <1>1 DEF RightCall, CallRecords
<1> DEFINE s == calls[c].plugin
<1>4. s[1] \in PluginIds
  <2> HIDE DEF s
  <2>1. s \in Seq(PluginIds) /\ s # <<>> BY <1>2 DEF s
  <2> QED BY <2>1
<1> QED BY <1>3, <1>4

LEMMA InitializeStep ==
    ASSUME PluginsInv, NEW c \in Callers, Initialize(c)
    PROVE  PluginsInv'
<1> DEFINE x == calls[c].frames
           p == Head(x).plugin
           t == Tail(x)
           k == [calls[c] EXCEPT !.at = "return", !.frames = t]
<1>1. RightCall(calls[c]) BY DEF PluginsInv
<1>2. x \in Frames /\ Covered(x) /\ x[1].rest = <<>> /\ calls[c] \in CallRecords
  <2>1. calls[c].at = "initialize" BY DEF Initialize
  <2>2. x \in Seq(FrameSet) /\ calls[c] \in CallRecords BY <1>1 DEF RightCall, CallRecords
  <2>3. x # <<>> /\ Covered(x) /\ x[1].rest = <<>> BY <1>1, <2>1 DEF RightCall
  <2> QED BY <2>2, <2>3 DEF Frames, FrameSet
<1>3. /\ x[1].plugin = p /\ p \in PluginIds /\ t \in Seq(FrameSet) /\ Len(t) = Len(x) - 1
      /\ Len(x) \in Nat \ {0} /\ \A i \in 1 .. Len(x) - 1 : t[i] = x[i + 1]
  BY <1>2, FramesAre
<1>4. /\ objects' = objects + 1 /\ plugins' = [plugins EXCEPT ![p] = objects + 1]
      /\ initialized' = initialized \cup {p} /\ calls' = [calls EXCEPT ![c] = k]
      /\ UNCHANGED <<dependencies, pluginRegistry, activePlugins, active>>
  BY DEF Initialize
<1>5. k \in CallRecords /\ k.at = "return" /\ k.frames = t
  <2> HIDE DEF t
  <2> QED BY <1>2, <1>3 DEF CallRecords
<1> HIDE DEF x, t, k, p
<1>6. Closed(initialized)'
  <2>1. \A d \in ToSet(dependencies[p]) : d \in initialized
    <3>1. CoveredAt(x, 1) BY <1>2, <1>3 DEF Covered
    <3>2. ToSet(<<>>) = {} BY DEF ToSet
    <3> QED BY <1>2, <1>3, <3>1, <3>2 DEF CoveredAt
  <2>2. \A q \in initialized : ToSet(dependencies[q]) \subseteq initialized
    BY DEF PluginsInv, Closed
  <2> QED BY <1>4, <2>1, <2>2 DEF Closed
<1>7. CoveredThen(t)
  <2> SUFFICES ASSUME NEW i \in 1 .. Len(t), NEW d \in ToSet(dependencies[t[i].plugin])
               PROVE  d \in initialized' \/ d \in ToSet(t[i].rest) \/ (i > 1 /\ d = t[i - 1].plugin)
    BY <1>4 DEF CoveredThen
  <2>1. i \in 1 .. Len(x) - 1 /\ i + 1 \in 1 .. Len(x) /\ i + 1 > 1 /\ (i + 1) - 1 = i
    BY <1>3
  <2>2. t[i] = x[i + 1] BY <1>3, <2>1
  <2>3. CoveredAt(x, i + 1) BY <1>2, <2>1 DEF Covered
  <2>4. d \in initialized \/ d \in ToSet(t[i].rest) \/ d = x[i].plugin
    BY <2>1, <2>2, <2>3 DEF CoveredAt
  <2>5. CASE i = 1 BY <1>3, <1>4, <2>4, <2>5
  <2>6. CASE i > 1
    <3>1. i - 1 \in 1 .. Len(x) - 1 /\ (i - 1) + 1 = i BY <2>1, <2>6
    <3>2. t[i - 1] = x[i] BY <1>3, <3>1
    <3> QED BY <1>4, <2>4, <2>6, <3>2
  <2> QED BY <2>1, <2>5, <2>6
<1>8. calls' \in [Callers -> CallRecords] /\ \A b \in Callers : RightCall(calls[b])'
  <2>1. RightThen(k) BY <1>5, <1>7 DEF RightThen, OnObjects
  <2> QED BY <1>4, <2>1, SetRight DEF PluginsInv
<1>9. Owned'
  <2>1. PICK owner \in [1 .. objects -> PluginIds] : OwnedBy(owner) BY DEF PluginsInv, Owned
  <2> DEFINE n == objects + 1
             then == [i \in 1 .. n |-> IF i = n THEN p ELSE owner[i]]
  <2>2. objects \in Nat /\ n \in 1 .. n /\ n # 0 /\ (\A i \in 1 .. objects : i \in 1 .. n /\ i # n)
        /\ \A i \in 1 .. n : i = n \/ i \in 1 .. objects
    BY DEF PluginsInv
  <2>3. then \in [1 .. n -> PluginIds] /\ then[n] = p /\ \A i \in 1 .. objects : then[i] = owner[i]
    <3> HIDE DEF n
    <3> QED BY <1>3, <2>1, <2>2
  <2> HIDE DEF then, n
  <2>4. objects' = n /\ plugins' = [plugins EXCEPT ![p] = n] BY <1>4 DEF n
  <2>5. ASSUME NEW q \in PluginIds
        PROVE  /\ plugins'[q] # 0 => plugins'[q] \in 1 .. n /\ then[plugins'[q]] = q
               /\ activePlugins[q] # 0 => activePlugins[q] \in 1 .. n /\ then[activePlugins[q]] = q
    <3>1. CASE q = p BY <2>1, <2>2, <2>3, <2>4, <3>1 DEF OwnedBy, PluginsInv
    <3>2. CASE q # p
      <4>1. plugins'[q] = plugins[q] BY <2>4, <3>2 DEF PluginsInv
      <4> QED BY <2>1, <2>2, <2>3, <4>1 DEF OwnedBy
    <3> QED BY <3>1, <3>2
  <2>6. ASSUME NEW b \in Callers, calls'[b].at \in OnObjects
        PROVE  calls'[b].object \in 1 .. n /\ then[calls'[b].object] = calls'[b].plugin[1]
    <3>1. b # c
      <4>1. b = c => calls'[b].at = "return" BY <1>4, <1>5 DEF PluginsInv
      <4> QED BY <2>6, <4>1 DEF OnObjects
    <3>2. calls'[b] = calls[b] BY <1>4, <3>1 DEF PluginsInv
    <3> QED BY <2>1, <2>2, <2>3, <2>6, <3>2 DEF OwnedBy
  <2>7. OwnedThen(then) BY <1>4, <2>3, <2>4, <2>5, <2>6 DEF OwnedThen
  <2>8. \E o \in [1 .. n -> PluginIds] : OwnedThen(o) BY <2>3, <2>7
  <2>9. PICK o \in [1 .. n -> PluginIds] : OwnedThen(o) BY <2>8
  <2>10. OwnedBy(o)' BY <2>9 DEF OwnedBy, OwnedThen
  <2> QED BY <2>4, <2>9, <2>10 DEF Owned
<1>10. /\ PluginTypes' /\ (plugins \in [PluginIds -> Nat])' /\ (activePlugins \in [PluginIds -> Nat])'
       /\ (objects \in Nat)' /\ (initialized \subseteq PluginIds)'
       /\ IsFiniteSet({q \in PluginIds : activePlugins[q] # 0})' /\ LoadedWere'
       /\ (\A q \in PluginIds : activePlugins[q] # 0 => activePlugins[q] \in active)'
  <2>1. plugins' \in [PluginIds -> Nat] /\ objects' \in Nat BY <1>3, <1>4 DEF PluginsInv
  <2>2. LoadedWere' BY <1>3, <1>4 DEF PluginsInv, LoadedWere, Loaded
  <2> QED BY <1>3, <1>4, <2>1, <2>2 DEF PluginsInv, PluginTypes
<1> QED BY <1>6, <1>8, <1>9, <1>10 DEF PluginsInv

LEMMA StartedStep ==
    ASSUME PluginsInv, NEW c \in Callers, Started(c)
    PROVE  PluginsInv'
<1> DEFINE p == calls[c].plugin[1]
           o == calls[c].object
           k == [calls[c] EXCEPT !.at = "started"]
<1>1. /\ calls[c].at = "start" /\ active' = active \cup {o}
      /\ activePlugins' = [activePlugins EXCEPT ![p] = o] /\ calls' = [calls EXCEPT ![c] = k]
      /\ UNCHANGED <<dependencies, pluginRegistry, plugins, objects, initialized>>
  BY DEF Started
<1>2. p \in PluginIds /\ o \in Nat \ {0} BY <1>1, FirstOf DEF OnObjects
<1>3. RightCall(calls[c]) /\ calls[c] \in CallRecords BY DEF PluginsInv, RightCall
<1>4. k \in CallRecords /\ k.at = "started" BY <1>3 DEF CallRecords
<1> HIDE DEF k
<1>5. calls' \in [Callers -> CallRecords] /\ \A b \in Callers : RightCall(calls[b])'
  <2>1. RightThen(k) BY <1>4 DEF RightThen, OnObjects
  <2> QED BY <1>1, <2>1, SetRight DEF PluginsInv
<1>6. Owned'
  <2>1. PICK owner \in [1 .. objects -> PluginIds] : OwnedBy(owner) BY DEF PluginsInv, Owned
  <2>2. o \in 1 .. objects /\ owner[o] = p BY <1>1, <2>1 DEF OwnedBy, OnObjects
  <2> HIDE DEF o, p
  <2>3. ASSUME NEW q \in PluginIds, activePlugins'[q] # 0
        PROVE  activePlugins'[q] \in 1 .. objects /\ owner[activePlugins'[q]] = q
    <3>1. CASE q = p BY <1>1, <2>2, <3>1 DEF PluginsInv
    <3>2. CASE q # p
      <4>1. activePlugins'[q] = activePlugins[q] BY <1>1, <3>2 DEF PluginsInv
      <4> QED BY <2>1, <2>3, <4>1 DEF OwnedBy
    <3> QED BY <3>1, <3>2
  <2>4. ASSUME NEW b \in Callers, calls'[b].at \in OnObjects
        PROVE  calls'[b].object \in 1 .. objects /\ owner[calls'[b].object] = calls'[b].plugin[1]
    <3>1. b # c
      <4>1. b = c => calls'[b].at = "started" BY <1>1, <1>4 DEF PluginsInv
      <4> QED BY <2>4, <4>1 DEF OnObjects
    <3>2. calls'[b] = calls[b] BY <1>1, <3>1 DEF PluginsInv
    <3> QED BY <2>1, <2>4, <3>2 DEF OwnedBy
  <2>5. OwnedBy(owner)' BY <1>1, <2>1, <2>3, <2>4 DEF OwnedBy
  <2> QED BY <1>1, <2>5 DEF Owned
<1> HIDE DEF o, p
<1>7. /\ PluginTypes' /\ (plugins \in [PluginIds -> Nat])' /\ (activePlugins \in [PluginIds -> Nat])'
      /\ (objects \in Nat)' /\ (initialized \subseteq PluginIds)' /\ LoadedWere' /\ Closed(initialized)'
      /\ (\A q \in PluginIds : activePlugins[q] # 0 => activePlugins[q] \in active)'
  BY <1>1, <1>2 DEF PluginsInv, PluginTypes, LoadedWere, Loaded, Closed
<1>8. IsFiniteSet({q \in PluginIds : activePlugins'[q] # 0})
  <2> DEFINE A == {q \in PluginIds : activePlugins[q] # 0}
             B == {q \in PluginIds : activePlugins'[q] # 0}
  <2>1. B \subseteq A \cup {p} BY <1>1 DEF PluginsInv
  <2>2. IsFiniteSet(A) BY DEF PluginsInv
  <2> HIDE DEF A, B
  <2>3. IsFiniteSet(A \cup {p}) BY <2>2, FS_AddElement
  <2>4. IsFiniteSet(B) BY <2>1, <2>3, FS_Subset
  <2> QED BY <2>4 DEF B
<1> QED BY <1>5, <1>6, <1>7, <1>8 DEF PluginsInv

LEMMA StoppedStep ==
    ASSUME PluginsInv, NEW c \in Callers, Stopped(c)
    PROVE  PluginsInv'
<1> DEFINE p == calls[c].plugin[1]
           o == calls[c].object
           at == IF calls[c].at = "stop" THEN "stopped" ELSE "destroy"
           k == [calls[c] EXCEPT !.at = at]
<1>1. /\ calls[c].at \in {"stop", "stop for unload"} /\ active' = active \ {o}
      /\ activePlugins' = [activePlugins EXCEPT ![p] = 0] /\ calls' = [calls EXCEPT ![c] = k]
      /\ UNCHANGED <<dependencies, pluginRegistry, plugins, objects, initialized>>
  BY DEF Stopped
<1>2. p \in PluginIds /\ o \in Nat \ {0} BY <1>1, FirstOf DEF OnObjects
<1>3. RightCall(calls[c]) /\ calls[c] \in CallRecords BY DEF PluginsInv, RightCall
<1>4. /\ k \in CallRecords /\ k.at \in {"stopped", "destroy"}
      /\ k.plugin = calls[c].plugin /\ k.object = o
  <2>1. at \in {"stopped", "destroy"} OBVIOUS
  <2> HIDE DEF at
  <2> QED BY <1>3, <2>1 DEF CallRecords
<1>5. calls[c].plugin # <<>> BY <1>1, <1>3 DEF RightCall, OnObjects
<1> HIDE DEF k
<1>6. calls' \in [Callers -> CallRecords] /\ \A b \in Callers : RightCall(calls[b])'
  <2>1. RightThen(k) BY <1>2, <1>4, <1>5 DEF RightThen
  <2> QED BY <1>1, <2>1, SetRight DEF PluginsInv
<1>7. PICK owner \in [1 .. objects -> PluginIds] : OwnedBy(owner) BY DEF PluginsInv, Owned
<1>8. o \in 1 .. objects /\ owner[o] = p BY <1>1, <1>7 DEF OwnedBy, OnObjects
<1>9. Owned'
  <2>1. ASSUME NEW q \in PluginIds, activePlugins'[q] # 0
        PROVE  activePlugins'[q] \in 1 .. objects /\ owner[activePlugins'[q]] = q
    <3>1. q # p BY <1>1, <2>1 DEF PluginsInv
    <3>2. activePlugins'[q] = activePlugins[q] BY <1>1, <3>1 DEF PluginsInv
    <3> QED BY <1>7, <2>1, <3>2 DEF OwnedBy
  <2>2. ASSUME NEW b \in Callers, calls'[b].at \in OnObjects
        PROVE  calls'[b].object \in 1 .. objects /\ owner[calls'[b].object] = calls'[b].plugin[1]
    <3>1. CASE b = c
      <4>1. calls'[b] = k BY <1>1, <3>1 DEF PluginsInv
      <4> QED BY <1>4, <1>8, <4>1
    <3>2. CASE b # c
      <4>1. calls'[b] = calls[b] BY <1>1, <3>2 DEF PluginsInv
      <4> QED BY <1>7, <2>2, <4>1 DEF OwnedBy
    <3> QED BY <3>1, <3>2
  <2>3. OwnedBy(owner)' BY <1>1, <1>7, <2>1, <2>2 DEF OwnedBy
  <2> QED BY <1>1, <1>7, <2>3 DEF Owned
<1> HIDE DEF o, p
<1>10. \A q \in PluginIds : activePlugins'[q] # 0 => activePlugins'[q] \in active'
  <2> SUFFICES ASSUME NEW q \in PluginIds, activePlugins'[q] # 0
               PROVE  activePlugins'[q] \in active'
    OBVIOUS
  <2>1. q # p BY <1>1 DEF PluginsInv
  <2>2. activePlugins'[q] = activePlugins[q] BY <1>1, <2>1 DEF PluginsInv
  <2>3. owner[activePlugins[q]] = q BY <1>7, <2>2 DEF OwnedBy
  <2>4. activePlugins[q] # o BY <1>8, <2>1, <2>3
  <2>5. activePlugins[q] \in active BY <2>2 DEF PluginsInv
  <2>6. activePlugins[q] \in active \ {o} BY <2>4, <2>5
  <2>7. active' = active \ {o} BY <1>1
  <2>8. activePlugins[q] \in active' BY <2>6, <2>7
  <2> QED BY <2>2, <2>8
<1>11. /\ PluginTypes' /\ (plugins \in [PluginIds -> Nat])' /\ (activePlugins \in [PluginIds -> Nat])'
       /\ (objects \in Nat)' /\ (initialized \subseteq PluginIds)' /\ LoadedWere' /\ Closed(initialized)'
  BY <1>1, <1>2 DEF PluginsInv, PluginTypes, LoadedWere, Loaded, Closed
<1>12. IsFiniteSet({q \in PluginIds : activePlugins'[q] # 0})
  <2> DEFINE A == {q \in PluginIds : activePlugins[q] # 0}
             B == {q \in PluginIds : activePlugins'[q] # 0}
  <2>1. B \subseteq A BY <1>1 DEF PluginsInv
  <2>2. IsFiniteSet(A) BY DEF PluginsInv
  <2> HIDE DEF A, B
  <2>3. IsFiniteSet(B) BY <2>1, <2>2, FS_Subset
  <2> QED BY <2>3 DEF B
<1> QED BY <1>6, <1>9, <1>10, <1>11, <1>12 DEF PluginsInv

LEMMA DestroyedStep ==
    ASSUME PluginsInv, NEW c \in Callers, Destroyed(c)
    PROVE  PluginsInv'
<1> DEFINE p == calls[c].plugin[1]
<1>1. /\ plugins' = [plugins EXCEPT ![p] = 0] /\ calls' = [calls EXCEPT ![c] = Idle]
      /\ UNCHANGED <<dependencies, pluginRegistry, activePlugins, active, objects, initialized>>
  BY DEF Destroyed
<1> HIDE DEF p
<1>2. calls' \in [Callers -> CallRecords] /\ \A b \in Callers : RightCall(calls[b])'
  <2>1. RightThen(Idle) BY <1>1, IdleIsGood, RightStays DEF GoodCall
  <2> QED BY <1>1, <2>1, SetRight DEF PluginsInv
<1>3. Owned'
  <2>1. PICK owner \in [1 .. objects -> PluginIds] : OwnedBy(owner) BY DEF PluginsInv, Owned
  <2>2. ASSUME NEW q \in PluginIds, plugins'[q] # 0
        PROVE  plugins'[q] \in 1 .. objects /\ owner[plugins'[q]] = q
    BY <1>1, <2>1, <2>2 DEF OwnedBy, PluginsInv
  <2>3. ASSUME NEW b \in Callers, calls'[b].at \in OnObjects
        PROVE  calls'[b].object \in 1 .. objects /\ owner[calls'[b].object] = calls'[b].plugin[1]
    <3>1. b # c
      <4>1. b = c => calls'[b].at = "idle" BY <1>1 DEF PluginsInv, Idle
      <4> QED BY <2>3, <4>1 DEF OnObjects
    <3>2. calls'[b] = calls[b] BY <1>1, <3>1 DEF PluginsInv
    <3> QED BY <2>1, <2>3, <3>2 DEF OwnedBy
  <2>4. OwnedBy(owner)' BY <1>1, <2>1, <2>2, <2>3 DEF OwnedBy
  <2> QED BY <1>1, <2>1, <2>4 DEF Owned
<1> QED BY <1>1, <1>2, <1>3 DEF PluginsInv, PluginTypes, LoadedWere, Loaded, Closed

LEMMA ReturnStep ==
    ASSUME PluginsInv, NEW c \in Callers, Return(c)
    PROVE  PluginsInv'
<1> DEFINE x == calls[c].frames
           next == calls[c].next
           deeper == Descend[x]
           n == SelectInSeq(pluginRegistry, LAMBDA p : p = next[1])
           on == [calls[c] EXCEPT !.at = "entry", !.frames = deeper]
           k == IF x = <<>> THEN IF next = <<>> THEN Idle ELSE LoadAfter(n)
                ELSE IF deeper = <<>> THEN Idle ELSE on
<1>1. calls[c].at = "return" /\ calls' = [calls EXCEPT ![c] = k]
      /\ UNCHANGED <<dependencies, pluginRegistry, plugins, activePlugins, active, objects,
                     initialized>>
  BY DEF Return
<1>2. PluginTypes /\ CallTypes BY DEF PluginsInv, CallTypes
<1>3. RightCall(calls[c]) /\ calls[c] \in CallRecords BY DEF PluginsInv, RightCall
<1>4. n \in Nat
  <2> DEFINE I == {i \in 1 .. Len(pluginRegistry) : pluginRegistry[i] = next[1]}
  <2>1. n = IF I # {} THEN Min(I) ELSE 0 BY DEF SelectInSeq
  <2>2. I \subseteq Nat BY <1>2 DEF PluginTypes
  <2> HIDE DEF I, n
  <2>3. I # {} => Min(I) \in I BY <2>2, Least DEF Min
  <2> QED BY <2>1, <2>2, <2>3
<1>5. x # <<>> /\ deeper # <<>> => GoodCall(on)
  <2> SUFFICES ASSUME x # <<>>, deeper # <<>> PROVE GoodCall(on) OBVIOUS
  <2>1. x \in Frames /\ Covered(x)
    <3>1. x \in Seq(FrameSet) BY <1>3 DEF CallRecords
    <3> QED BY <1>1, <1>3, <3>1 DEF Frames, FrameSet, RightCall
  <2>2. LoadsFirst(deeper) BY <1>2, <2>1, DescendCovered DEF CallTypes
  <2>3. deeper \in Seq(FrameSet) BY <2>2, FramesAre DEF LoadsFirst
  <2> HIDE DEF deeper
  <2>4. on \in CallRecords /\ on.at = "entry" /\ on.frames = deeper
    BY <1>3, <2>3 DEF CallRecords
  <2> HIDE DEF on
  <2>5. deeper # <<>> OBVIOUS
  <2> QED BY <2>2, <2>4, <2>5 DEF GoodCall, RightCall, LoadsFirst, OnObjects
<1> HIDE DEF on, deeper, x, next, n
<1>6. GoodCall(k) BY <1>2, <1>4, <1>5, IdleIsGood, LoadAfterIsGood
<1> HIDE DEF k
<1> QED BY <1>1, <1>6, CallChanged

LEMMA NextOfAllStep ==
    ASSUME PluginsInv, NEW c \in Callers, NextOfAll(c)
    PROVE  PluginsInv'
<1> DEFINE next == calls[c].next
           k == IF calls[c].at = "started" THEN StartEach(next) ELSE StopEach(next)
<1>1. calls' = [calls EXCEPT ![c] = k]
      /\ UNCHANGED <<dependencies, pluginRegistry, plugins, activePlugins, active, objects,
                     initialized>>
  BY DEF NextOfAll
<1>2. CallTypes BY DEF PluginsInv, CallTypes
<1>3. next \in Seq(PluginIds) BY DEF PluginsInv, CallRecords
<1> HIDE DEF next
<1>4. GoodCall(k) BY <1>2, <1>3, StartEachIsGood, StopEachIsGood
<1> HIDE DEF k
<1> QED BY <1>1, <1>4, CallChanged

LEMMA LoadPluginEntryStep ==
    ASSUME PluginsInv, NEW c \in Callers, loadPluginEntry(c)
    PROVE  PluginsInv'
<1> DEFINE on == [calls[c] EXCEPT !.at = "initialize"]
           k == IF Head(calls[c].frames).plugin \in SystemPlugins THEN Idle ELSE on
<1>1. calls[c].at = "entry" /\ calls' = [calls EXCEPT ![c] = k]
      /\ UNCHANGED <<dependencies, pluginRegistry, plugins, activePlugins, active, objects,
                     initialized>>
  BY DEF loadPluginEntry
<1>2. RightCall(calls[c]) /\ calls[c] \in CallRecords BY DEF PluginsInv, RightCall
<1>3. on \in CallRecords /\ on.at = "initialize" /\ on.frames = calls[c].frames
  BY <1>2 DEF CallRecords
<1> HIDE DEF on
<1>4. GoodCall(on) BY <1>1, <1>2, <1>3 DEF GoodCall, RightCall, OnObjects
<1>5. GoodCall(k) BY <1>4, IdleIsGood
<1> HIDE DEF k
<1> QED BY <1>1, <1>5, CallChanged

LEMMA CallStep ==
    ASSUME PluginsInv, NEW c \in Callers, NEW k, GoodCall(k), Call(c, k)
    PROVE  PluginsInv'
BY CallChanged DEF Call

LEMMA PluginsInitial == PluginsInit => PluginsInv
<1> SUFFICES ASSUME PluginsInit PROVE PluginsInv OBVIOUS
<1>1. SetToSeq(SystemPlugins) \in Seq(PluginIds)
  <2> DEFINE n == Cardinality(SystemPlugins)
             s == SetToSeq(SystemPlugins)
  <2>1. n \in Nat BY PluginsAssumption, FS_CardinalityType
  <2>2. \E f \in [1 .. n -> SystemPlugins] : IsInjective(f)
    <3>1. PICK f : f \in Bijection(1 .. n, SystemPlugins)
      BY PluginsAssumption, FS_CardinalityType DEF ExistsBijection
    <3>2. f \in [1 .. n -> SystemPlugins] /\ IsInjective(f)
      BY <3>1 DEF Bijection, Injection, IsInjective
    <3> QED BY <3>2
  <2>3. s \in [1 .. n -> SystemPlugins] BY <2>2 DEF SetToSeq
  <2> HIDE DEF s, n
  <2>4. s \in [1 .. n -> PluginIds] BY <2>3, PluginsAssumption
  <2>5. s \in Seq(PluginIds) BY <2>1, <2>4
  <2> QED BY <2>5 DEF s
<1>2. PluginTypes BY <1>1, PluginsAssumption DEF PluginsInit, PluginTypes
<1>3. /\ plugins \in [PluginIds -> Nat] /\ activePlugins \in [PluginIds -> Nat]
      /\ objects \in Nat /\ initialized \subseteq PluginIds /\ LoadedWere /\ Closed(initialized)
      /\ \A p \in PluginIds : activePlugins[p] # 0 => activePlugins[p] \in active
  BY DEF PluginsInit, LoadedWere, Loaded, Closed
<1>4. IsFiniteSet({p \in PluginIds : activePlugins[p] # 0})
  <2> DEFINE A == {p \in PluginIds : activePlugins[p] # 0}
  <2>1. A = {} BY DEF PluginsInit
  <2> HIDE DEF A
  <2>2. IsFiniteSet(A) BY <2>1, FS_EmptySet
  <2> QED BY <2>2 DEF A
<1>5. /\ calls \in [Callers -> CallRecords] /\ \A c \in Callers : RightCall(calls[c])
  <2>1. RightCall(Idle) BY IdleIsGood DEF GoodCall
  <2>2. Idle \in CallRecords BY <2>1 DEF RightCall
  <2> QED BY <2>1, <2>2 DEF PluginsInit
<1>6. Owned
  <2> DEFINE owner == [i \in 1 .. objects |-> CHOOSE p \in PluginIds : TRUE]
  <2>1. objects = 0 BY DEF PluginsInit
  <2>2. owner \in [1 .. objects -> PluginIds] BY <2>1
  <2>3. \A c \in Callers : calls[c].at = "idle" BY DEF PluginsInit, Idle
  <2>4. \A p \in PluginIds : plugins[p] = 0 /\ activePlugins[p] = 0 BY DEF PluginsInit
  <2> HIDE DEF owner
  <2>5. OwnedBy(owner) BY <2>2, <2>3, <2>4 DEF OwnedBy, OnObjects
  <2> QED BY <2>2, <2>5 DEF Owned
<1> QED BY <1>2, <1>3, <1>4, <1>5, <1>6 DEF PluginsInv

LEMMA PluginsStep == PluginsInv /\ [PluginsNext]_pluginVars => PluginsInv'
<1> SUFFICES ASSUME PluginsInv, [PluginsNext]_pluginVars PROVE PluginsInv' OBVIOUS
<1>0. PluginTypes /\ CallTypes BY DEF PluginsInv, CallTypes
<1>1. ASSUME pluginRegistry' \in Seq(PluginIds),
             UNCHANGED <<dependencies, plugins, activePlugins, active, objects, initialized, calls>>
      PROVE  PluginsInv'
  <2>1. Owned'
    <3>1. PICK owner \in [1 .. objects -> PluginIds] : OwnedBy(owner) BY DEF PluginsInv, Owned
    <3>2. OwnedBy(owner)' BY <1>1, <3>1 DEF OwnedBy
    <3> QED BY <1>1, <3>1, <3>2 DEF Owned
  <2>2. ASSUME NEW c \in Callers PROVE RightCall(calls[c])'
    <3>1. RightCall(calls[c]) BY DEF PluginsInv
    <3> QED BY <1>1, <3>1 DEF RightCall, Covered, CoveredAt
  <2> QED BY <1>1, <2>1, <2>2 DEF PluginsInv, PluginTypes, LoadedWere, Loaded, Closed
<1>2. CASE UNCHANGED pluginVars BY <1>0, <1>1, <1>2 DEF pluginVars, PluginTypes
<1>3. ASSUME NEW p \in PluginIds, registerPlugin(p) \/ enablePlugin(p) \/ disablePlugin(p)
      PROVE  PluginsInv'
  <2>1. pluginRegistry' \in Seq(PluginIds)
    <3>1. pluginRegistry' = Append(pluginRegistry, p) \/ pluginRegistry' = pluginRegistry
      BY <1>3, Zenon DEF registerPlugin, enablePlugin, disablePlugin
    <3>2. pluginRegistry \in Seq(PluginIds) BY <1>0 DEF PluginTypes
    <3>3. Append(pluginRegistry, p) \in Seq(PluginIds) BY <3>2
    <3> QED BY <3>1, <3>2, <3>3
  <2> QED BY <1>1, <1>3, <2>1 DEF registerPlugin, enablePlugin, disablePlugin
<1>4. ASSUME NEW c \in Callers, NEW p \in PluginIds, loadPlugin(c, p) PROVE PluginsInv'
  <2>1. <<>> \in Seq(PluginIds) OBVIOUS
  <2>2. GoodCall(Loading(p, <<>>)) BY <1>0, <2>1, LoadingIsGood
  <2> QED BY <1>4, <2>2, CallStep DEF loadPlugin
<1>5. ASSUME NEW c \in Callers, NEW p \in PluginIds,
             startPlugin(c, p) \/ stopPlugin(c, p) \/ unloadPlugin(c, p)
      PROVE  PluginsInv'
  <2> DEFINE none == <<>>
  <2>1. none \in Seq(PluginIds) /\ Loaded(p)
    <3>1. Loaded(p) BY <1>5, Zenon DEF startPlugin, stopPlugin, unloadPlugin
    <3>2. none \in Seq(PluginIds) OBVIOUS
    <3> QED BY <3>1, <3>2
  <2>2. PICK at \in OnObjects : Call(c, OnObject(at, p, none))
    BY <1>5 DEF startPlugin, stopPlugin, unloadPlugin, OnObjects
  <2> HIDE DEF none
  <2>3. GoodCall(OnObject(at, p, none)) BY <1>0, <2>1, OnObjectIsGood
  <2> QED BY <2>2, <2>3, CallStep
<1>6. ASSUME NEW c \in Callers, loadInstalledPlugins(c) PROVE PluginsInv'
  <2>1. GoodCall(LoadAfter(0)) BY <1>0, LoadAfterIsGood
  <2> QED BY <1>6, <2>1, CallStep DEF loadInstalledPlugins
<1>7. ASSUME NEW c \in Callers, startAllPlugins(c) PROVE PluginsInv'
  <2>1. Only(pluginRegistry, enabled) \in Seq(PluginIds) BY <1>0, OnlyIs DEF PluginTypes
  <2>2. GoodCall(StartEach(Only(pluginRegistry, enabled))) BY <1>0, <2>1, StartEachIsGood
  <2> QED BY <1>7, <2>2, CallStep DEF startAllPlugins
<1>8. ASSUME NEW c \in Callers, stopAllPlugins(c) PROVE PluginsInv'
  <2> DEFINE A == {p \in PluginIds : activePlugins[p] # 0}
  <2>1. PICK todo \in SetToSeqs(A) : Call(c, StopEach(todo)) BY <1>8 DEF stopAllPlugins
  <2>2. IsFiniteSet(A) /\ A \subseteq PluginIds BY DEF PluginsInv
  <2> HIDE DEF A
  <2>3. Cardinality(A) \in Nat /\ todo \in [1 .. Cardinality(A) -> A]
    BY <2>2, FS_CardinalityType DEF SetToSeqs
  <2>4. todo \in [1 .. Cardinality(A) -> PluginIds] BY <2>2, <2>3
  <2>5. todo \in Seq(PluginIds) BY <2>3, <2>4
  <2>6. GoodCall(StopEach(todo)) BY <1>0, <2>5, StopEachIsGood
  <2> QED BY <2>1, <2>6, CallStep
<1> QED
  BY <1>2, <1>3, <1>4, <1>5, <1>6, <1>7, <1>8, InitializeStep, ReturnStep, StartedStep, StoppedStep,
     NextOfAllStep, DestroyedStep, LoadPluginEntryStep DEF PluginsNext

LEMMA PluginsThen == PluginsInv => PluginsInOrder
BY DEF PluginsInv, PluginsInOrder, Closed

-----------------------------------------------------------------------------
(* What overlaps *)

LEMMA OverlapsMove ==
    ASSUME [ServicesNext]_allVars
    PROVE  /\ [EventsNext]_eventVars /\ [ContractsNext]_contractsVars
           /\ [MachineNext]_machineVars /\ [ExecutionNext]_executionVars
           /\ [ApiNext]_apiVars /\ [DatabaseNext]_databaseVars /\ [PluginsNext]_pluginVars
BY DEF ServicesNext, OnlyMoves, allVars

OverlapsInv ==
    /\ EventsInv /\ DeploymentsInv /\ MachineInv
    /\ HooksInv /\ ApiInv /\ DatabaseInv

\* Calls that overlap keep their order and do not mix, however many there are and
\* whoever subscribes, deploys, changes plugins or connects between them: events reach
\* who was subscribed in the order they were published, entries of the history belong
\* to their own deployment, an execution that ran alone reports its own gas, a hook
\* calls every plugin that stays once, an answer of the server is about what it says
\* and the last call to connect stands (events.js, compiler.js, vm.js,
\* execution_pipeline.js, server.js and database.js).
THEOREM OverlapsInOrder == ServicesSpec => []OverlapsKeepOrder
<1>1. ServicesInit => OverlapsInv
  BY EventsInitial, DeploymentsInitial, MachineInitial, HooksInitial,
     ApiInitial, DatabaseInitial
     DEF ServicesInit, OverlapsInv
<1>2. OverlapsInv /\ [ServicesNext]_allVars => OverlapsInv'
  BY OverlapsMove, EventsStep, DeploymentsStep, MachineStep, HooksStep,
     ApiStep, DatabaseStep, EventsAssumption
     DEF OverlapsInv
<1>3. OverlapsInv => OverlapsKeepOrder
  BY EventsThen, DeploymentsThen, MachineThen, HooksThen, ApiThen, DatabaseThen
     DEF OverlapsInv, OverlapsKeepOrder
<1> QED BY <1>1, <1>2, <1>3, PTL DEF ServicesSpec

\* No plugin is initialized before all it depends on has been, and the object kept as
\* active is one that was started and not stopped, however the loads, starts, stops and
\* unloads of any number of callers overlap, whichever plugins depend on which (loadPlugin,
\* startPlugin, stopPlugin of plugins.js).
THEOREM LoadedInOrder == ServicesSpec => []PluginsInOrder
<1>1. ServicesInit => PluginsInv BY PluginsInitial DEF ServicesInit
<1>2. PluginsInv /\ [ServicesNext]_allVars => PluginsInv' BY OverlapsMove, PluginsStep
<1>3. PluginsInv => PluginsInOrder BY PluginsThen
<1> QED BY <1>1, <1>2, <1>3, PTL DEF ServicesSpec
=============================================================================
