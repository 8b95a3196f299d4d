------------------------- MODULE StateMachineProofs -------------------------
(***************************************************************************)
(* What holds of StateMachine for every set of calls, every bound on the   *)
(* calls in flight, every backend and every set of faults.                 *)
(***************************************************************************)
EXTENDS StateMachine, FiniteSetTheorems, SequenceTheorems, TLAPS

-----------------------------------------------------------------------------
(* Sequences *)

\* Popping a non-empty sequence.
LEMMA Pop ==
    ASSUME NEW S, NEW s \in Seq(S), s # <<>>
    PROVE  /\ SubSeq(s, 1, Len(s) - 1) \in Seq(S)
           /\ Len(SubSeq(s, 1, Len(s) - 1)) = Len(s) - 1
           /\ s[Len(s)] \in S
<1>1. Len(s) \in Nat \ {0}
  BY LenProperties, EmptySeq
<1>2. \A i \in 1 .. Len(s) - 1 : s[i] \in S
  BY <1>1, ElementOfSeq
<1> DEFINE n == Len(s) - 1
<1>3. n \in Nat /\ 1 \in Int
  BY <1>1
<1>4. \A i \in 1 .. n : s[i] \in S
  BY <1>2
<1>5. s[Len(s)] \in S
  BY <1>1, ElementOfSeq
<1> HIDE DEF n
<1>6. SubSeq(s, 1, n) \in Seq(S) /\ Len(SubSeq(s, 1, n)) = n
  <2>1. /\ SubSeq(s, 1, n) \in Seq(S)
        /\ Len(SubSeq(s, 1, n)) = IF 1 <= n THEN n - 1 + 1 ELSE 0
    BY <1>3, <1>4, SubSeqProperties
  <2>2. CASE n = 0
    BY <2>1, <2>2
  <2>3. CASE n # 0
    <3>1. n - 1 + 1 = n /\ 1 <= n
      BY <1>3, <2>3
    <3>2. QED
      BY <2>1, <3>1, Zenon
  <2>4. QED
    BY <2>2, <2>3
<1>7. QED
  BY <1>5, <1>6 DEF n

\* Keeping the last k elements of a sequence keeps its last element.
LEMMA KeepLast ==
    ASSUME NEW S, NEW s \in Seq(S), NEW k \in Nat, k < Len(s),
           NEW t, t = SubSeq(s, Len(s) - k + 1, Len(s))
    PROVE  /\ t \in Seq(S) /\ Len(t) = k
           /\ t # <<>> => t[Len(t)] = s[Len(s)]
<1>1. Len(s) \in Nat
  BY LenProperties
<1> DEFINE m == Len(s) - k + 1
<1>2. m \in Int /\ m \in 1 .. Len(s) + 1
  BY <1>1
<1>3. \A i \in m .. Len(s) : s[i] \in S
  BY <1>1, <1>2, ElementOfSeq
<1>4. /\ t \in Seq(S)
      /\ Len(t) = IF m <= Len(s) THEN Len(s) - m + 1 ELSE 0
      /\ \A i \in 1 .. Len(s) - m + 1 : t[i] = s[m + i - 1]
  <2> HIDE DEF m
  <2>1. Len(s) \in Int
    BY <1>1
  <2>2. t = SubSeq(s, m, Len(s))
    BY DEF m
  <2>3. QED
    BY <1>2, <1>3, <2>1, <2>2, SubSeqProperties
<1>5. t # <<>> => k # 0
  BY <1>1, <1>4, EmptySeq
<1>6. QED
  BY <1>1, <1>4, <1>5

\* addStateHistory keeps the history within its bound and ends it with the
\* entry it was given.
LEMMA NewestEntry ==
    ASSUME history \in Seq(Snapshot), Len(history) <= MaxHistoryLength,
           NEW v \in Nat, NEW s \in Effects
    PROVE  /\ addStateHistory(v, s) \in Seq(Snapshot)
           /\ Len(addStateHistory(v, s)) \in 1 .. MaxHistoryLength
           /\ addStateHistory(v, s)[Len(addStateHistory(v, s))] =
                [version |-> v, state |-> s]
<1> DEFINE e == [version |-> v, state |-> s]
           longer == Append(history, e)
<1>1. e \in Snapshot
  BY DEF Snapshot
<1>2. Len(history) \in Nat /\ MaxHistoryLength \in Nat \ {0}
  BY LenProperties, ConstantsAssumption
<1>3. /\ longer \in Seq(Snapshot) /\ longer # <<>>
      /\ Len(longer) = Len(history) + 1
      /\ longer[Len(history) + 1] = e
  <2> HIDE DEF e
  <2>1. QED
    BY <1>1, AppendProperties
<1>4. addStateHistory(v, s) =
        IF Len(longer) > MaxHistoryLength THEN Tail(longer) ELSE longer
  BY DEF addStateHistory
<1>h. e = [version |-> v, state |-> s]
  OBVIOUS
<1> HIDE DEF longer, e
<1>5. CASE Len(longer) > MaxHistoryLength
  <2>1. /\ Tail(longer) \in Seq(Snapshot)
        /\ Len(Tail(longer)) = Len(longer) - 1
        /\ \A i \in 1 .. Len(Tail(longer)) : Tail(longer)[i] = longer[i + 1]
    BY <1>3, HeadTailProperties
  <2>2. Len(history) = MaxHistoryLength
    BY <1>2, <1>3, <1>5
  <2>3. Tail(longer)[Len(Tail(longer))] = e
    BY <1>2, <1>3, <2>1, <2>2
  <2>4. QED
    BY <1>h, <1>2, <1>3, <1>4, <1>5, <2>1, <2>2, <2>3
<1>6. CASE ~(Len(longer) > MaxHistoryLength)
  BY <1>h, <1>2, <1>3, <1>4, <1>6
<1>7. QED
  BY <1>5, <1>6

\* addStateHistory keeps the history within its bound and ends it with the
\* version it was given.
LEMMA HistoryAppended ==
    ASSUME history \in Seq(Snapshot), Len(history) <= MaxHistoryLength,
           NEW v \in Nat, NEW s \in Effects
    PROVE  /\ addStateHistory(v, s) \in Seq(Snapshot)
           /\ Len(addStateHistory(v, s)) \in 1 .. MaxHistoryLength
           /\ addStateHistory(v, s)[Len(addStateHistory(v, s))].version = v
<1> DEFINE h == addStateHistory(v, s)
<1>1. /\ h \in Seq(Snapshot) /\ Len(h) \in 1 .. MaxHistoryLength
      /\ h[Len(h)] = [version |-> v, state |-> s]
  BY NewestEntry
<1> HIDE DEF h
<1>2. h[Len(h)].version = v
  BY <1>1
<1>3. QED
  BY <1>1, <1>2 DEF h

\* ... and with the state it was given.
LEMMA HistoryState ==
    ASSUME history \in Seq(Snapshot), Len(history) <= MaxHistoryLength,
           NEW v \in Nat, NEW s \in Effects, NEW h, h = addStateHistory(v, s)
    PROVE  h[Len(h)].state = s
<1>1. h[Len(h)] = [version |-> v, state |-> s]
  BY NewestEntry
<1>2. QED
  BY <1>1

-----------------------------------------------------------------------------
(* Type correctness and the history *)

\* TypeOK is inductive only together with the bound on the history, which
\* addStateHistory relies on when it drops a single entry.
HistoryInv == TypeOK /\ HistoryFollowsVersion

\* this.state becoming another object changes nothing but who is detached.
LEMMA DetachType ==
    ASSUME TypeOK
    PROVE  Detach \in [Calls -> {"idle", "running", "detached", "written", "saving",
                                 "aborting", "done", "failed", "lost"}]
BY DEF TypeOK, Detach

\* The initial machine has one entry in its history, of version 0.
LEMMA InitHistory == Init => HistoryInv
<1> SUFFICES ASSUME Init PROVE HistoryInv
  OBVIOUS
<1> USE DEF Init
<1>1. [version |-> 0, state |-> {}] \in Snapshot
  BY DEF Snapshot, Effects
<1>2. history \in Seq(Snapshot) /\ Len(history) = 1 /\ history[1].version = 0
  BY <1>1
<1>3. stack \in Seq(Effects)
  BY EmptySeq
<1>4. TypeOK
  BY <1>2, <1>3 DEF TypeOK, Effects, Idle
<1>5. QED
  BY <1>2, <1>4, ConstantsAssumption DEF HistoryInv, HistoryFollowsVersion

\* Every step keeps the types, the bound of the history and its newest version.
LEMMA StepHistory == HistoryInv /\ [Next]_vars => HistoryInv'
<1> SUFFICES ASSUME HistoryInv, [Next]_vars PROVE HistoryInv'
  OBVIOUS
<1>t. TypeOK /\ HistoryFollowsVersion
  BY DEF HistoryInv
<1>l. Len(history) \in Nat /\ Len(history) <= MaxHistoryLength
      /\ MaxHistoryLength \in Nat \ {0}
  BY <1>t, LenProperties, ConstantsAssumption DEF TypeOK, HistoryFollowsVersion
<1>0. CASE UNCHANGED vars
  BY <1>t, <1>0 DEF HistoryInv, TypeOK, HistoryFollowsVersion, vars, Idle
<1>1. ASSUME NEW c \in Calls, beginTransaction(c) PROVE HistoryInv'
  <2>1. stack' \in Seq(Effects)
    BY <1>t, <1>1, AppendProperties DEF TypeOK, beginTransaction
  <2>2. QED
    BY <1>t, <1>1, <2>1
    DEF HistoryInv, TypeOK, HistoryFollowsVersion, beginTransaction, Idle
<1>2. ASSUME NEW c \in Calls, Write(c) PROVE HistoryInv'
  BY <1>t, <1>2 DEF HistoryInv, TypeOK, HistoryFollowsVersion, Write, Idle, Effects
<1>3. ASSUME NEW c \in Calls, Throw(c) PROVE HistoryInv'
  BY <1>t, <1>3 DEF HistoryInv, TypeOK, HistoryFollowsVersion, Throw, Idle, machine
<1>4. ASSUME NEW c \in Calls, commitTransaction(c) PROVE HistoryInv'
  <2>1. stack' \in Seq(Effects)
    BY <1>t, <1>4, Pop DEF TypeOK, commitTransaction
  <2>2. version' \in Nat /\ state \in Effects
    BY <1>t, <1>4 DEF TypeOK, commitTransaction
  <2>3. /\ history' \in Seq(Snapshot)
        /\ Len(history') \in 1 .. MaxHistoryLength
        /\ history'[Len(history')].version = version'
    BY <1>t, <1>l, <1>4, <2>2, HistoryAppended DEF TypeOK, commitTransaction
  <2>4. TypeOK'
    BY <1>t, <1>4, <2>1, <2>2, <2>3
    DEF TypeOK, commitTransaction, Stored, Visible, Effects, Idle
  <2>5. QED
    BY <1>l, <2>3, <2>4 DEF HistoryInv, HistoryFollowsVersion
<1>5. ASSUME NEW c \in Calls, CommitRefused(c) PROVE HistoryInv'
  BY <1>t, <1>5 DEF HistoryInv, TypeOK, HistoryFollowsVersion, CommitRefused, Idle, machine
<1>6. ASSUME NEW c \in Calls, Settle(c) PROVE HistoryInv'
  BY <1>t, <1>6 DEF HistoryInv, TypeOK, HistoryFollowsVersion, Settle, Idle, Effects
<1>7. ASSUME NEW c \in Calls, rollbackTransaction(c) PROVE HistoryInv'
  <2>1. state' \in Effects /\ stack' \in Seq(Effects)
    <3>1. CASE stack = <<>>
      BY <1>t, <1>7, <3>1 DEF TypeOK, rollbackTransaction
    <3>2. CASE stack # <<>>
      <4>1. /\ SubSeq(stack, 1, Len(stack) - 1) \in Seq(Effects)
            /\ stack[Len(stack)] \in Effects
        BY <1>t, <3>2, Pop DEF TypeOK
      <4>2. QED
        BY <1>7, <3>2, <4>1, Zenon DEF rollbackTransaction
    <3>3. QED
      BY <3>1, <3>2
  <2>2. pc' \in [Calls -> {"idle", "running", "detached", "written", "saving",
                           "aborting", "done", "failed", "lost"}]
    BY <1>t, <1>7, DetachType DEF TypeOK, rollbackTransaction
  <2>3. QED
    BY <1>t, <1>7, <2>1, <2>2
    DEF HistoryInv, TypeOK, HistoryFollowsVersion, rollbackTransaction, Idle
<1>8. ASSUME NEW n \in Names, createSnapshot(n) PROVE HistoryInv'
  BY <1>t, <1>8
  DEF HistoryInv, TypeOK, HistoryFollowsVersion, createSnapshot, Idle, Snapshot
<1>9. ASSUME NEW old \in SUBSET Names, deleteSnapshots(old) PROVE HistoryInv'
  BY <1>t, <1>9 DEF HistoryInv, TypeOK, HistoryFollowsVersion, deleteSnapshots, Idle
<1>10. ASSUME NEW n \in Names, RestoreStart(n) PROVE HistoryInv'
  BY <1>t, <1>10 DEF HistoryInv, TypeOK, HistoryFollowsVersion, RestoreStart, Idle, machine
<1>11. CASE RestoreApply
  <2>1. reset \in [phase : {"captured", "restoring"}, snap : Snapshot]
    BY <1>t, <1>11 DEF TypeOK, RestoreApply, Idle
  <2>2. reset.snap.version \in Nat /\ reset.snap.state \in Effects
    BY <2>1 DEF Snapshot
  <2>3. /\ history' \in Seq(Snapshot)
        /\ Len(history') \in 1 .. MaxHistoryLength
        /\ history'[Len(history')].version = version'
    BY <1>t, <1>l, <1>11, <2>2, HistoryAppended DEF TypeOK, RestoreApply
  <2>4. reset' \in [phase : {"captured", "restoring"}, snap : Snapshot]
    <3>1. [reset.snap EXCEPT !.state = @ \cup shared] \in Snapshot
      BY <1>t, <2>1 DEF TypeOK, Snapshot, Effects
    <3>2. reset' = [reset EXCEPT !.phase = "restoring", !.snap.state = @ \cup shared]
      BY <1>11 DEF RestoreApply
    <3>3. QED
      BY <2>1, <3>1, <3>2 DEF Snapshot
  <2>5. TypeOK'
    BY <1>t, <1>11, <2>2, <2>3, <2>4, DetachType DEF TypeOK, RestoreApply, Stored
  <2>6. QED
    BY <1>l, <2>3, <2>5 DEF HistoryInv, HistoryFollowsVersion
<1>12. CASE RestoreSettle
  <2>1. reset \in [phase : {"captured", "restoring"}, snap : Snapshot]
    BY <1>t, <1>12 DEF TypeOK, RestoreSettle, Idle
  <2>2. backend' \in Effects
    BY <1>t, <1>12, <2>1 DEF TypeOK, RestoreSettle, Snapshot
  <2>3. QED
    BY <1>t, <1>12, <2>2 DEF HistoryInv, TypeOK, HistoryFollowsVersion, RestoreSettle, Idle
<1>13. ASSUME NEW m \in 0 .. MaxHistoryLength, pruneHistory(m) PROVE HistoryInv'
  <2>1. m \in Nat /\ m < Len(history)
        /\ history' = SubSeq(history, Len(history) - m + 1, Len(history))
    BY <1>l, <1>13 DEF pruneHistory
  <2>2. /\ history' \in Seq(Snapshot) /\ Len(history') = m
        /\ history' # <<>> => history'[Len(history')] = history[Len(history)]
    BY <1>t, <2>1, KeepLast DEF TypeOK
  <2>3. history # <<>>
    BY <2>1, EmptySeq
  <2>4. HistoryFollowsVersion'
    BY <1>t, <1>l, <1>13, <2>1, <2>2, <2>3 DEF HistoryFollowsVersion, pruneHistory
  <2>5. TypeOK'
    BY <1>t, <1>13, <2>2 DEF TypeOK, pruneHistory, Idle
  <2>6. QED
    BY <2>4, <2>5 DEF HistoryInv
<1>14. CASE clear
  <2>1. history' \in Seq(Snapshot) /\ Len(history') = 0 /\ stack' \in Seq(Effects)
    BY <1>14, EmptySeq DEF clear
  <2>2. QED
    BY <1>t, <1>l, <1>14, <2>1, DetachType
    DEF HistoryInv, TypeOK, HistoryFollowsVersion, clear, Stored, Effects
<1>15. CASE ClearSettle
  BY <1>t, <1>15 DEF HistoryInv, TypeOK, HistoryFollowsVersion, ClearSettle, Idle, Effects
<1>16. CASE initialize
  <2>1. [version |-> 0, state |-> backend] \in Snapshot
    BY <1>t DEF TypeOK, Snapshot
  <2>2. history' \in Seq(Snapshot) /\ Len(history') = 1 /\ history'[1].version = 0
    BY <1>16, <2>1 DEF initialize
  <2>3. stack' \in Seq(Effects)
    BY <1>16, EmptySeq DEF initialize
  <2>4. QED
    BY <1>t, <1>l, <1>16, <2>2, <2>3
    DEF HistoryInv, TypeOK, HistoryFollowsVersion, initialize, Idle, Effects
<1>17. QED
  BY <1>0, <1>1, <1>2, <1>3, <1>4, <1>5, <1>6, <1>7, <1>8, <1>9, <1>10, <1>11,
     <1>12, <1>13, <1>14, <1>15, <1>16 DEF Next, Step

\* Type correctness, for every machine (constructor and addStateHistory).
THEOREM TypeCorrect == Spec => []TypeOK
<1>1. HistoryInv => TypeOK
  BY DEF HistoryInv
<1>2. QED
  BY <1>1, InitHistory, StepHistory, PTL DEF Spec

\* The history never exceeds maxHistoryLength and its newest entry is that of
\* stateVersion, in every interleaving of commits, rollbacks, restores,
\* pruning, clear() and restarts (addStateHistory and its callers).
THEOREM HistoryCurrent == Spec => []HistoryFollowsVersion
<1>1. HistoryInv => HistoryFollowsVersion
  BY DEF HistoryInv
<1>2. QED
  BY <1>1, InitHistory, StepHistory, PTL DEF Spec

-----------------------------------------------------------------------------
(* The transaction stack *)

\* The open calls are finitely many, so that they can be counted.
LEMMA Countable ==
    ASSUME NEW T \in SUBSET Calls
    PROVE  IsFiniteSet(T) /\ Cardinality(T) \in Nat
BY ConstantsAssumption, FS_Subset, FS_CardinalityType

\* The stack bound survives a step that keeps the stack and closes no call,
\* one that pushes and opens a call, and one that closes a call and pops or
\* finds the stack empty.
LEMMA Counting ==
    ASSUME TypeOK, TypeOK', NoStrandedEntry, NEW c \in Calls,
           \/ Len(stack') = Len(stack) /\ Open' \in {Open, Open \cup {c}}
           \/ Len(stack') = Len(stack) + 1 /\ c \notin Open /\ Open' = Open \cup {c}
           \/ Len(stack') = Len(stack) - 1 /\ Open' = Open \ {c}
           \/ Len(stack') = 0
    PROVE  NoStrandedEntry'
<1>1. Len(stack) \in Nat /\ Len(stack') \in Nat
  BY LenProperties DEF TypeOK
<1>2. IsFiniteSet(Open) /\ Cardinality(Open) \in Nat /\ Cardinality(Open') \in Nat
  <2>1. Open \in SUBSET Calls /\ Open' \in SUBSET Calls
    BY DEF Open
  <2>2. QED
    BY <2>1, Countable
<1>3. /\ Cardinality(Open \cup {c}) =
           IF c \in Open THEN Cardinality(Open) ELSE Cardinality(Open) + 1
      /\ Cardinality(Open \ {c}) =
           IF c \in Open THEN Cardinality(Open) - 1 ELSE Cardinality(Open)
  BY <1>2, FS_AddElement, FS_RemoveElement
<1>4. Len(stack) <= Cardinality(Open)
  BY DEF NoStrandedEntry
<1>5. Len(stack') <= Cardinality(Open')
  <2>1. CASE Len(stack') = Len(stack) /\ Open' \in {Open, Open \cup {c}}
    <3>1. Cardinality(Open') \in {Cardinality(Open), Cardinality(Open \cup {c})}
      BY <2>1, Zenon
    <3>2. QED
      BY <1>1, <1>2, <1>3, <1>4, <2>1, <3>1
  <2>2. CASE Len(stack') = Len(stack) + 1 /\ c \notin Open /\ Open' = Open \cup {c}
    BY <1>1, <1>2, <1>3, <1>4, <2>2
  <2>3. CASE Len(stack') = Len(stack) - 1 /\ Open' = Open \ {c}
    BY <1>1, <1>2, <1>3, <1>4, <2>3
  <2>4. CASE Len(stack') = 0
    BY <1>2, <2>4
  <2>5. QED
    BY <2>1, <2>2, <2>3, <2>4
<1>6. QED
  BY <1>5 DEF NoStrandedEntry

\* Every step keeps as many open calls as stack entries.
LEMMA StepStack == TypeOK /\ TypeOK' /\ NoStrandedEntry /\ [Next]_vars => NoStrandedEntry'
<1> SUFFICES ASSUME TypeOK, TypeOK', NoStrandedEntry, [Next]_vars
             PROVE  NoStrandedEntry'
  OBVIOUS
<1>p. ASSUME stack # <<>>
      PROVE  Len(SubSeq(stack, 1, Len(stack) - 1)) = Len(stack) - 1
  BY <1>p, Pop DEF TypeOK
<1>k. ASSUME UNCHANGED <<pc, stack>> PROVE NoStrandedEntry'
  BY <1>k DEF NoStrandedEntry, Open
<1>d. ASSUME pc' = Detach, UNCHANGED stack PROVE NoStrandedEntry'
  BY <1>d DEF NoStrandedEntry, Open, Detach, TypeOK
<1>0. CASE UNCHANGED vars
  BY <1>0, <1>k DEF vars
<1>1. ASSUME NEW c \in Calls, beginTransaction(c) PROVE NoStrandedEntry'
  <2>1. Len(stack') = Len(stack) + 1
    BY <1>1, AppendProperties DEF beginTransaction, TypeOK
  <2>2. c \notin Open /\ Open' = Open \cup {c}
    BY <1>1 DEF beginTransaction, Open, TypeOK
  <2>3. QED
    BY <2>1, <2>2, Counting
<1>2. ASSUME NEW c \in Calls, Write(c) \/ Throw(c) \/ CommitRefused(c)
      PROVE  NoStrandedEntry'
  <2>1. Open' = Open /\ stack' = stack
    BY <1>2 DEF Write, Throw, CommitRefused, Open, TypeOK, machine
  <2>2. QED
    BY <2>1, Counting
<1>3. ASSUME NEW c \in Calls, commitTransaction(c) PROVE NoStrandedEntry'
  <2>1. Len(stack') = Len(stack) - 1
    BY <1>3, <1>p DEF commitTransaction
  <2>2. Open' = Open \ {c}
    BY <1>3 DEF commitTransaction, Open, TypeOK
  <2>3. QED
    BY <2>1, <2>2, Counting
<1>4. ASSUME NEW c \in Calls, Settle(c) PROVE NoStrandedEntry'
  <2>1. PICK outcome \in {"ok"} \cup Faults :
             pc' = [pc EXCEPT ![c] = IF outcome = "ok" THEN "done" ELSE "aborting"]
    BY <1>4 DEF Settle
  <2>2. Open' = Open \/ Open' = Open \cup {c}
    BY <1>4, <2>1 DEF Settle, Open, TypeOK
  <2>3. QED
    BY <1>4, <2>2, Counting DEF Settle
<1>5. ASSUME NEW c \in Calls, rollbackTransaction(c) PROVE NoStrandedEntry'
  <2>1. CASE stack = <<>>
    <3>1. Len(stack') = 0
      BY <1>5, <2>1, EmptySeq DEF rollbackTransaction
    <3>2. QED
      BY <3>1, Counting
  <2>2. CASE stack # <<>>
    <3>1. Len(stack') = Len(stack) - 1
      BY <1>5, <2>2, <1>p DEF rollbackTransaction
    <3>2. Open' = Open \ {c}
      BY <1>5, <2>2 DEF rollbackTransaction, Detach, Open, TypeOK
    <3>3. QED
      BY <3>1, <3>2, Counting
  <2>3. QED
    BY <2>1, <2>2
<1>6. ASSUME NEW n \in Names, createSnapshot(n) \/ RestoreStart(n)
      PROVE  NoStrandedEntry'
  BY <1>6, <1>k DEF createSnapshot, RestoreStart, machine
<1>7. ASSUME NEW old \in SUBSET Names, deleteSnapshots(old) PROVE NoStrandedEntry'
  BY <1>7, <1>k DEF deleteSnapshots
<1>8. CASE RestoreApply
  BY <1>8, <1>d DEF RestoreApply
<1>9. CASE RestoreSettle \/ ClearSettle
  BY <1>9, <1>k DEF RestoreSettle, ClearSettle
<1>10. ASSUME NEW m \in 0 .. MaxHistoryLength, pruneHistory(m) PROVE NoStrandedEntry'
  BY <1>10, <1>k DEF pruneHistory
<1>11. CASE clear \/ initialize
  <2>1. Len(stack') = 0
    BY <1>11, EmptySeq DEF clear, initialize
  <2>2. Open' \in SUBSET Calls
    BY DEF Open
  <2>3. Cardinality(Open') >= 0
    BY <2>2, Countable
  <2>4. QED
    BY <2>1, <2>3 DEF NoStrandedEntry
<1>12. QED
  BY <1>0, <1>1, <1>2, <1>3, <1>4, <1>5, <1>6, <1>7, <1>8, <1>9, <1>10, <1>11
  DEF Next, Step

\* However many calls overlap and whatever fails, is cleared or restarted, the
\* transaction stack never holds an entry that no call is left to pop
\* (beginTransaction, commitTransaction, rollbackTransaction).
THEOREM StackBalanced == Spec => []NoStrandedEntry
<1>1. Init => NoStrandedEntry
  <2> SUFFICES ASSUME Init PROVE NoStrandedEntry
    OBVIOUS
  <2>1. Len(stack) = 0
    BY EmptySeq DEF Init
  <2>2. Open \in SUBSET Calls
    BY DEF Open
  <2>3. Cardinality(Open) >= 0
    BY <2>2, Countable
  <2>4. QED
    BY <2>1, <2>3 DEF NoStrandedEntry
<1>2. QED
  BY <1>1, StepStack, TypeCorrect, PTL DEF Spec

-----------------------------------------------------------------------------
(* Callers that await each call: at most one call is in flight *)

\* What the store was when the open transaction began.
Base == IF stack # <<>> THEN stack[1] ELSE state

\* Callers that await each call leave at most one thing in flight.
Alone ==
    /\ \A c, d \in InFlight : c = d
    /\ reset.phase # "none" => InFlight = {}
    /\ \A c \in Calls : pc[c] # "detached"

\* The stack holds the entry of the call in flight until it commits or rolls back.
OneEntry ==
    /\ Len(stack) <= 1
    /\ \A c \in Calls : pc[c] \in {"running", "written"} => stack # <<>>
    /\ stack # <<>> => \E c \in Calls : pc[c] \in {"running", "written", "aborting"}

\* The history's newest entry is the state that a rollback would bring back.
HistoryShowsBase == history # <<>> => history[Len(history)].state = Base

AwaitedInv == Alone /\ OneEntry /\ HistoryShowsBase


\* Nothing is in flight when a caller that awaits each call makes the next.
LEMMA NothingInFlight ==
    ASSUME TypeOK, MaxInFlight = 1, Busy < MaxInFlight
    PROVE  InFlight = {} /\ reset.phase = "none"
<1>1. InFlight \in SUBSET Calls
  BY DEF InFlight
<1>2. IsFiniteSet(InFlight) /\ Cardinality(InFlight) \in Nat
  BY <1>1, Countable
<1>3. Cardinality(InFlight) = 0 /\ reset.phase = "none"
  BY <1>2 DEF Busy
<1>4. QED
  BY <1>2, <1>3, FS_EmptySet

\* An awaited stack is empty or holds the one entry a rollback goes back to.
LEMMA StackCases ==
    ASSUME TypeOK, OneEntry
    PROVE  \/ stack = <<>> /\ Base = state
           \/ /\ stack # <<>> /\ Len(stack) = 1
              /\ SubSeq(stack, 1, Len(stack) - 1) = <<>>
              /\ stack[Len(stack)] = Base /\ Base = stack[1] /\ Base \in Effects
<1>1. CASE stack = <<>>
  BY <1>1 DEF Base
<1>2. CASE stack # <<>>
  <2>1. Len(stack) \in Nat /\ Len(stack) # 0 /\ Len(stack) <= 1
    BY <1>2, EmptySeq, LenProperties DEF TypeOK, OneEntry
  <2>2. Len(stack) = 1
    <3>1. \A n \in Nat : n # 0 /\ n <= 1 => n = 1
      OBVIOUS
    <3>2. QED
      BY <2>1, <3>1, Zenon
  <2>3. /\ SubSeq(stack, 1, Len(stack) - 1) \in Seq(Effects)
        /\ Len(SubSeq(stack, 1, Len(stack) - 1)) = 0
        /\ stack[Len(stack)] \in Effects
    BY <1>2, <2>2, Pop DEF TypeOK
  <2>4. SubSeq(stack, 1, Len(stack) - 1) = <<>>
    BY <2>3, EmptySeq
  <2>5. QED
    BY <1>2, <2>2, <2>3, <2>4 DEF Base
<1>3. QED
  BY <1>1, <1>2

\* The first entry of a stack that was empty.
LEMMA FirstEntry ==
    ASSUME NEW S, NEW x \in S, NEW t, t = Append(<<>>, x)
    PROVE  t # <<>> /\ Len(t) = 1 /\ t[1] = x
<1>1. <<>> \in Seq(S) /\ Len(<<>>) = 0
  BY EmptySeq
<1>2. Len(t) = 0 + 1 /\ t # <<>> /\ t[0 + 1] = x
  BY <1>1, AppendProperties, Zenon
<1>3. 0 + 1 = 1
  OBVIOUS
<1>4. QED
  BY <1>2, <1>3, Zenon

\* A machine that keeps its stack, its history and its calls as they are.
LEMMA AwaitedKept ==
    ASSUME AwaitedInv, UNCHANGED <<state, stack, history, pc>>, reset'.phase = reset.phase
    PROVE  AwaitedInv'
BY DEF AwaitedInv, Alone, OneEntry, HistoryShowsBase, Base, InFlight

\* Every step keeps at most one call in flight, its entry on the stack and the
\* state a rollback brings back in the history.
LEMMA StepAwaited ==
    MaxInFlight = 1 /\ HistoryInv /\ AwaitedInv /\ [Next]_vars => AwaitedInv'
<1> SUFFICES ASSUME MaxInFlight = 1, HistoryInv, AwaitedInv, [Next]_vars
             PROVE  AwaitedInv'
  OBVIOUS
<1>t. TypeOK /\ HistoryFollowsVersion /\ Alone /\ OneEntry /\ HistoryShowsBase
  BY DEF HistoryInv, AwaitedInv
<1>l. Len(history) \in Nat /\ Len(history) <= MaxHistoryLength
  BY <1>t, LenProperties DEF TypeOK, HistoryFollowsVersion
<1>f. Busy < MaxInFlight => InFlight = {} /\ reset.phase = "none" /\ stack = <<>>
  BY <1>t, NothingInFlight DEF OneEntry, InFlight
<1>s. \/ stack = <<>> /\ Base = state
      \/ /\ stack # <<>> /\ Len(stack) = 1
         /\ SubSeq(stack, 1, Len(stack) - 1) = <<>>
         /\ stack[Len(stack)] = Base /\ Base = stack[1]
  BY <1>t, StackCases
<1>e. Len(<<>>) = 0 /\ Len(stack) <= 1
  BY <1>t, EmptySeq DEF OneEntry
<1>0. CASE UNCHANGED vars
  BY <1>0, AwaitedKept DEF vars
<1>1. ASSUME NEW c \in Calls, beginTransaction(c) PROVE AwaitedInv'
  <2>1. InFlight = {} /\ reset.phase = "none" /\ stack = <<>>
    BY <1>1, <1>f DEF beginTransaction
  <2>2. stack' # <<>> /\ Len(stack') = 1 /\ stack'[1] = state
    BY <1>1, <1>t, <2>1, FirstEntry DEF beginTransaction, TypeOK
  <2>3. InFlight' = {c} /\ pc'[c] = "running" /\ UNCHANGED <<reset, history, state>>
    BY <1>1, <1>t, <2>1 DEF beginTransaction, InFlight, TypeOK
  <2>4. \A d \in Calls : pc'[d] # "detached"
    BY <1>1, <1>t DEF beginTransaction, Alone, TypeOK
  <2>5. Base' = Base
    BY <2>1, <2>2, <2>3 DEF Base
  <2>6. HistoryShowsBase'
    BY <1>t, <2>3, <2>5 DEF HistoryShowsBase
  <2>7. Alone'
    BY <2>1, <2>3, <2>4 DEF Alone
  <2>8. OneEntry'
    BY <2>2, <2>3 DEF OneEntry
  <2>9. QED
    BY <2>6, <2>7, <2>8 DEF AwaitedInv
<1>2. ASSUME NEW c \in Calls, Write(c) \/ Throw(c) PROVE AwaitedInv'
  <2>1. /\ UNCHANGED <<stack, history, reset>>
        /\ pc[c] \in {"running", "written"}
        /\ pc' = [pc EXCEPT ![c] = pc'[c]] /\ pc'[c] \in {"written", "aborting"}
    BY <1>2, <1>t DEF Write, Throw, machine, Alone, TypeOK
  <2>2. InFlight' = InFlight /\ \A d \in Calls : pc'[d] # "detached"
    BY <1>t, <2>1 DEF InFlight, Alone, TypeOK
  <2>3. stack # <<>>
    BY <1>t, <2>1 DEF OneEntry
  <2>4. Base' = Base
    BY <2>1, <2>3 DEF Base
  <2>5. OneEntry'
    BY <1>t, <2>1, <2>3 DEF OneEntry, TypeOK
  <2>6. QED
    BY <1>t, <2>1, <2>2, <2>4, <2>5 DEF AwaitedInv, Alone, HistoryShowsBase
<1>3. ASSUME NEW c \in Calls, commitTransaction(c) PROVE AwaitedInv'
  <2>1. stack' = <<>> /\ UNCHANGED <<state, reset>>
    BY <1>3, <1>s DEF commitTransaction
  <2>2. pc' = [pc EXCEPT ![c] = "saving"] /\ pc[c] = "written"
    BY <1>3 DEF commitTransaction
  <2>3. Alone'
    BY <1>t, <2>1, <2>2 DEF Alone, InFlight, TypeOK
  <2>4. \A d \in Calls : pc'[d] \notin {"running", "written"}
    BY <1>t, <2>2 DEF Alone, InFlight, TypeOK
  <2>5. version + 1 \in Nat /\ state \in Effects /\ history \in Seq(Snapshot)
        /\ history' = addStateHistory(version + 1, state)
    BY <1>t, <1>3 DEF TypeOK, commitTransaction
  <2>6. history'[Len(history')].state = state
    BY <1>l, <2>5, HistoryState
  <2>7. HistoryShowsBase'
    BY <2>1, <2>6 DEF HistoryShowsBase, Base
  <2>8. OneEntry'
    BY <1>e, <2>1, <2>4 DEF OneEntry
  <2>9. QED
    BY <2>3, <2>7, <2>8 DEF AwaitedInv
<1>4. ASSUME NEW c \in Calls, CommitRefused(c) PROVE AwaitedInv'
  BY <1>4, <1>t DEF CommitRefused, OneEntry
<1>5. ASSUME NEW c \in Calls, Settle(c) PROVE AwaitedInv'
  <2>1. /\ UNCHANGED <<state, stack, history, reset>> /\ pc[c] = "saving"
        /\ pc' = [pc EXCEPT ![c] = pc'[c]] /\ pc'[c] \in {"done", "aborting"}
    BY <1>5, <1>t DEF Settle, TypeOK
  <2>2. Alone' /\ OneEntry'
    BY <1>t, <2>1 DEF Alone, OneEntry, InFlight, TypeOK
  <2>3. QED
    BY <1>t, <2>1, <2>2 DEF AwaitedInv, HistoryShowsBase, Base
<1>6. ASSUME NEW c \in Calls, rollbackTransaction(c) PROVE AwaitedInv'
  <2>1. pc[c] = "aborting" /\ UNCHANGED <<history, reset>>
    BY <1>6 DEF rollbackTransaction
  <2>2. \A d \in Calls : d # c => pc[d] \notin {"running", "written", "aborting"}
    BY <1>t, <2>1 DEF Alone, InFlight
  <2>3. pc' = [pc EXCEPT ![c] = "failed"]
    BY <1>6, <1>t, <2>1, <2>2 DEF rollbackTransaction, Detach, TypeOK
  <2>4. stack' = <<>> /\ Base' = Base
    BY <1>6, <1>s DEF rollbackTransaction, Base
  <2>5. Alone' /\ OneEntry'
    BY <1>t, <1>e, <2>1, <2>2, <2>3, <2>4 DEF Alone, OneEntry, InFlight, TypeOK
  <2>6. QED
    BY <1>t, <2>1, <2>4, <2>5 DEF AwaitedInv, HistoryShowsBase
<1>7. ASSUME NEW n \in Names, createSnapshot(n) PROVE AwaitedInv'
  BY <1>7, AwaitedKept DEF createSnapshot
<1>8. ASSUME NEW old \in SUBSET Names, deleteSnapshots(old) PROVE AwaitedInv'
  BY <1>8, AwaitedKept DEF deleteSnapshots
<1>9. ASSUME NEW n \in Names, RestoreStart(n) PROVE AwaitedInv'
  <2>1. InFlight = {} /\ UNCHANGED <<state, stack, history, pc>>
    BY <1>9, <1>f DEF RestoreStart, machine
  <2>2. QED
    BY <1>t, <2>1 DEF AwaitedInv, Alone, OneEntry, HistoryShowsBase, Base, InFlight
<1>10. CASE RestoreApply
  <2>1. InFlight = {} /\ stack = <<>> /\ stack' = <<>>
    BY <1>10, <1>t DEF RestoreApply, Alone, OneEntry, InFlight
  <2>2. pc' = pc
    BY <1>10, <1>t, <2>1 DEF RestoreApply, Detach, InFlight, TypeOK
  <2>3. reset \in [phase : {"captured", "restoring"}, snap : Snapshot]
    BY <1>10, <1>t DEF RestoreApply, TypeOK, Idle
  <2>4. reset.snap.version \in Nat /\ reset.snap.state \in Effects
    BY <2>3 DEF Snapshot
  <2>5. history'[Len(history')].state = state'
    BY <1>10, <1>t, <1>l, <2>4, HistoryState DEF RestoreApply, TypeOK
  <2>6. Alone' /\ OneEntry'
    BY <1>t, <2>1, <2>2 DEF Alone, OneEntry, InFlight
  <2>7. QED
    BY <2>1, <2>5, <2>6 DEF AwaitedInv, HistoryShowsBase, Base
<1>11. CASE RestoreSettle \/ ClearSettle
  <2>1. InFlight = {} /\ UNCHANGED <<state, stack, history, pc>>
    BY <1>11, <1>t DEF RestoreSettle, ClearSettle, Alone
  <2>2. QED
    BY <1>t, <2>1 DEF AwaitedInv, Alone, OneEntry, HistoryShowsBase, Base, InFlight
<1>12. ASSUME NEW m \in 0 .. MaxHistoryLength, pruneHistory(m) PROVE AwaitedInv'
  <2>1. m \in Nat /\ m < Len(history) /\ history \in Seq(Snapshot)
        /\ history' = SubSeq(history, Len(history) - m + 1, Len(history))
    BY <1>t, <1>l, <1>12 DEF pruneHistory, TypeOK
  <2>2. history # <<>>
    BY <1>e, <2>1
  <2>3. history' # <<>> => history'[Len(history')] = history[Len(history)]
    BY <2>1, KeepLast
  <2>4. UNCHANGED <<state, stack, pc, reset>>
    BY <1>12 DEF pruneHistory
  <2>5. QED
    BY <1>t, <2>2, <2>3, <2>4 DEF AwaitedInv, Alone, OneEntry, HistoryShowsBase, Base, InFlight
<1>13. CASE clear
  <2>1. InFlight = {} /\ stack' = <<>> /\ history' = <<>>
    BY <1>13, <1>f DEF clear
  <2>2. pc' = pc
    BY <1>13, <1>t, <2>1 DEF clear, Detach, InFlight, TypeOK
  <2>3. QED
    BY <1>t, <1>e, <2>1, <2>2 DEF AwaitedInv, Alone, OneEntry, HistoryShowsBase, InFlight
<1>14. CASE initialize
  <2>1. /\ stack' = <<>> /\ state' = backend /\ reset'.phase = "none"
        /\ history' = <<[version |-> 0, state |-> backend]>>
    BY <1>14 DEF initialize, Idle
  <2>2. InFlight' = {} /\ \A c \in Calls : pc'[c] \notin {"running", "written", "detached"}
    BY <1>14, <1>t DEF initialize, InFlight, Alone, TypeOK
  <2>3. history'[Len(history')].state = state'
    BY <2>1
  <2>4. QED
    BY <1>e, <2>1, <2>2, <2>3 DEF AwaitedInv, Alone, OneEntry, HistoryShowsBase, Base
<1>15. QED
  BY <1>0, <1>1, <1>2, <1>3, <1>4, <1>5, <1>6, <1>7, <1>8, <1>9, <1>10, <1>11,
     <1>12, <1>13, <1>14 DEF Next, Step

\* The machine starts with nothing in flight.
LEMMA InitAwaited == Init => AwaitedInv
<1> SUFFICES ASSUME Init PROVE AwaitedInv
  OBVIOUS
<1>1. InFlight = {} /\ stack = <<>> /\ Len(stack) = 0 /\ reset.phase = "none"
  BY EmptySeq DEF Init, InFlight, Idle
<1>2. history[Len(history)].state = state
  BY DEF Init
<1>3. QED
  BY <1>1, <1>2 DEF Init, AwaitedInv, Alone, OneEntry, HistoryShowsBase, Base

\* When callers await each call, the newest history entry is the state once
\* the call is over: after a commit, a refused commit, a rollback, a restore,
\* clear() or a restart, whatever the backend and whatever fails
\* (commitTransaction, rollbackTransaction, restoreSnapshot).
THEOREM AwaitedHistory ==
    ASSUME MaxInFlight = 1
    PROVE  Spec => []HistoryFollowsState
<1>1. HistoryInv /\ AwaitedInv => HistoryFollowsState
  <2> SUFFICES ASSUME HistoryInv, AwaitedInv, Quiescent
               PROVE  HistoryFollowsState
    BY DEF HistoryFollowsState
  <2>1. Busy < MaxInFlight
    BY DEF Quiescent
  <2>2. InFlight = {}
    BY <2>1, NothingInFlight DEF HistoryInv
  <2>3. stack = <<>>
    BY <2>2 DEF AwaitedInv, OneEntry, InFlight
  <2>4. QED
    BY <2>3 DEF AwaitedInv, HistoryShowsBase, Base, HistoryFollowsState
<1>2. HistoryInv /\ AwaitedInv /\ [Next]_vars => AwaitedInv'
  BY StepAwaited
<1>3. QED
  BY <1>1, <1>2, InitHistory, StepHistory, InitAwaited, PTL DEF Spec

-----------------------------------------------------------------------------
(* Awaited calls that write no nested object: what shows is committed *)

\* The call in flight has written exactly its own effect, ...
OwnEffect ==
    /\ shared = {}
    /\ \A c \in Calls : /\ pc[c] = "running" => state = Base
                        /\ pc[c] = "written" => state = Base \cup {c}
                        /\ pc[c] = "saving" => save[c] = state
    /\ reset.phase = "restoring" => reset.snap.state = state
    /\ reset.phase = "clearing" => state = {}

\* ... and a call that has not committed yet, or never will, shows nowhere.
Uncommitted ==
    {d \in Calls : \/ pc[d] \in {"idle", "running", "written"}
                   \/ pc[d] = "aborting" /\ (stack # <<>> \/ Faults = {})
                   \/ pc[d] = "failed" /\ Faults = {}}
Points == {snapshots[n] : n \in {m \in Names : snapshots[m] # NoSnapshot}}
          \cup (IF reset.phase \in {"captured", "restoring"} THEN {reset.snap} ELSE {})
Shown == {Base, backend} \cup {save[c] : c \in Calls} \cup {p.state : p \in Points}
NoTrace == \A d \in Uncommitted : \A shown \in Shown : d \notin shown

\* A commit that nothing can reject leaves no call to abort after it.
NoLateAbort == Faults = {} => \A c \in Calls : pc[c] = "aborting" => stack # <<>>

CommittedInv == OwnEffect /\ NoTrace /\ NoLateAbort

\* The backend holds what a rollback would bring back, except while a write
\* is on its way to it.
Pending == \/ \E c \in Calls : pc[c] = "saving"
           \/ reset.phase \in {"restoring", "clearing"}
DurableInv ==
    /\ Backend = "memory" => backend = Base
    /\ Backend = "database" /\ ~Pending => backend = Base

\* What shows after a step showed before it or is empty, except for the effect
\* of the one call that the step commits.
LEMMA NoTraceKept ==
    ASSUME NoTrace, NEW c,
           \A d \in Uncommitted' : d \in Uncommitted /\ d # c,
           \A shown \in Shown' : shown \in Shown \cup {{}, Base \cup {c}}
    PROVE  NoTrace'
<1>1. Base \in Shown
  BY DEF Shown
<1>2. QED
  BY <1>1 DEF NoTrace

\* A step that shows nothing new.
LEMMA NothingShown ==
    ASSUME NoTrace, Uncommitted' \subseteq Uncommitted,
           \A shown \in Shown' : shown \in Shown \cup {{}}
    PROVE  NoTrace'
BY DEF NoTrace

\* Every step keeps what shows equal to what has been committed.
LEMMA StepCommitted ==
    ASSUME MaxInFlight = 1, Nested = {}, HistoryInv, AwaitedInv, CommittedInv, [Next]_vars
    PROVE  CommittedInv'
<1>t. TypeOK /\ Alone /\ OneEntry /\ OwnEffect /\ NoTrace /\ NoLateAbort
  BY DEF HistoryInv, AwaitedInv, CommittedInv
<1>f. Busy < MaxInFlight => InFlight = {} /\ reset.phase = "none" /\ stack = <<>>
  BY <1>t, NothingInFlight DEF OneEntry, InFlight
<1>s. \/ stack = <<>> /\ Base = state
      \/ /\ stack # <<>> /\ Len(stack) = 1
         /\ SubSeq(stack, 1, Len(stack) - 1) = <<>>
         /\ stack[Len(stack)] = Base /\ Base = stack[1]
  BY <1>t, StackCases
<1>b. {} \in Effects /\ Base \in Shown /\ backend \in Shown
      /\ (\A c \in Calls : save[c] \in Shown) /\ \A p \in Points : p.state \in Shown
  BY DEF Effects, Shown
<1>0. CASE UNCHANGED vars
  <2>1. OwnEffect' /\ NoLateAbort'
    BY <1>0, <1>t DEF OwnEffect, NoLateAbort, Base, vars
  <2>2. Shown' = Shown /\ Uncommitted' = Uncommitted
    BY <1>0 DEF Shown, Points, Uncommitted, Base, vars
  <2>3. QED
    BY <1>t, <2>1, <2>2, NothingShown DEF CommittedInv
<1>1. ASSUME NEW c \in Calls, beginTransaction(c) PROVE CommittedInv'
  <2>1. InFlight = {} /\ reset.phase = "none" /\ stack = <<>> /\ Base = state
    BY <1>1, <1>f, <1>s DEF beginTransaction
  <2>2. /\ stack' # <<>> /\ stack'[1] = state /\ pc[c] = "idle"
        /\ pc' = [pc EXCEPT ![c] = "running"]
        /\ UNCHANGED <<state, shared, snapshots, backend, save, reset>>
    BY <1>1, <1>t, <2>1, FirstEntry DEF beginTransaction, TypeOK
  <2>3. Base' = Base
    BY <2>1, <2>2 DEF Base
  <2>4. OwnEffect' /\ NoLateAbort'
    BY <1>t, <2>1, <2>2, <2>3 DEF OwnEffect, NoLateAbort, InFlight, TypeOK
  <2>5. Shown' = Shown /\ Uncommitted' \subseteq Uncommitted
    BY <1>t, <2>1, <2>2, <2>3 DEF Shown, Points, Uncommitted, InFlight, TypeOK
  <2>6. QED
    BY <1>t, <2>4, <2>5, NothingShown DEF CommittedInv
<1>2. ASSUME NEW c \in Calls, Write(c) \/ Throw(c) PROVE CommittedInv'
  <2>1. pc[c] \in {"running", "written"} /\ stack # <<>> /\ reset.phase = "none"
    BY <1>2, <1>t DEF Write, Throw, Alone, OneEntry, InFlight
  <2>2. /\ UNCHANGED <<stack, shared, snapshots, backend, save, reset>>
        /\ pc' = [pc EXCEPT ![c] = pc'[c]] /\ pc'[c] \in {"written", "aborting"}
        /\ pc'[c] = "written" => state' = Base \cup {c}
    BY <1>2, <1>t, <2>1 DEF Write, Throw, machine, OwnEffect, TypeOK
  <2>3. Base' = Base
    BY <2>1, <2>2 DEF Base
  <2>4. \A d \in Calls : d # c => pc'[d] \notin {"running", "written", "saving"}
    BY <1>t, <2>1, <2>2 DEF Alone, InFlight, TypeOK
  <2>5. OwnEffect' /\ NoLateAbort'
    BY <1>t, <2>1, <2>2, <2>3, <2>4 DEF OwnEffect, NoLateAbort, TypeOK
  <2>6. Shown' = Shown /\ Uncommitted' \subseteq Uncommitted
    BY <1>t, <2>1, <2>2, <2>3 DEF Shown, Points, Uncommitted, TypeOK
  <2>7. QED
    BY <1>t, <2>5, <2>6, NothingShown DEF CommittedInv
<1>3. ASSUME NEW c \in Calls, commitTransaction(c) PROVE CommittedInv'
  <2>1. /\ pc[c] = "written" /\ stack' = <<>> /\ reset.phase = "none"
        /\ pc' = [pc EXCEPT ![c] = "saving"]
        /\ UNCHANGED <<state, shared, snapshots, reset>>
    BY <1>3, <1>s, <1>t DEF commitTransaction, Alone, InFlight
  <2>2. state = Base \cup {c} /\ Visible = state
    BY <1>t, <2>1 DEF OwnEffect, Visible
  <2>3. /\ Base' = state /\ save' = [save EXCEPT ![c] = state]
        /\ backend' \in {state, backend}
    BY <1>3, <2>1, <2>2 DEF commitTransaction, Base, Stored
  <2>4. \A d \in Calls : d # c => pc'[d] = pc[d] /\ pc[d] \notin
            {"running", "written", "saving", "aborting"}
    BY <1>t, <2>1 DEF Alone, InFlight, TypeOK
  <2>5. OwnEffect' /\ NoLateAbort'
    BY <1>t, <2>1, <2>3, <2>4 DEF OwnEffect, NoLateAbort, TypeOK
  <2>6. \A d \in Uncommitted' : d \in Uncommitted /\ d # c
    BY <1>t, <2>1, <2>4 DEF Uncommitted, TypeOK
  <2>7. \A shown \in Shown' : shown \in Shown \cup {{}, Base \cup {c}}
    <3>1. Points' = Points
      BY <2>1 DEF Points
    <3>2. \A d \in Calls : save'[d] \in {save[d], state}
      BY <1>t, <2>3 DEF TypeOK
    <3>3. QED
      BY <1>b, <2>2, <2>3, <3>1, <3>2 DEF Shown
  <2>8. QED
    BY <1>t, <2>5, <2>6, <2>7, NoTraceKept DEF CommittedInv
<1>4. ASSUME NEW c \in Calls, CommitRefused(c) PROVE CommittedInv'
  BY <1>4, <1>t DEF CommitRefused, OneEntry
<1>5. ASSUME NEW c \in Calls, Settle(c) PROVE CommittedInv'
  <2>1. /\ UNCHANGED <<state, shared, stack, snapshots, reset>> /\ pc[c] = "saving"
        /\ pc' = [pc EXCEPT ![c] = pc'[c]]
        /\ pc'[c] = "done" \/ (pc'[c] = "aborting" /\ Faults # {})
        /\ save' = [save EXCEPT ![c] = {}] /\ backend' \in {save[c], backend}
    <3>1. PICK outcome \in {"ok"} \cup Faults :
             /\ backend' = IF Backend = "database" /\ outcome # "write"
                              THEN save[c] ELSE backend
             /\ pc' = [pc EXCEPT ![c] = IF outcome = "ok" THEN "done" ELSE "aborting"]
      BY <1>5 DEF Settle
    <3>2. /\ pc' = [pc EXCEPT ![c] = pc'[c]]
          /\ pc'[c] = "done" \/ (pc'[c] = "aborting" /\ Faults # {})
      BY <1>t, <3>1 DEF TypeOK
    <3>3. backend' \in {save[c], backend}
      BY <3>1
    <3>4. /\ UNCHANGED <<state, shared, stack, snapshots, reset>> /\ pc[c] = "saving"
          /\ save' = [save EXCEPT ![c] = {}]
      BY <1>5 DEF Settle
    <3>5. QED
      BY <3>2, <3>3, <3>4
  <2>2. stack = <<>> /\ reset.phase = "none"
    BY <1>t, <2>1 DEF Alone, OneEntry, InFlight
  <2>3. \A d \in Calls : d # c => pc'[d] = pc[d] /\ pc[d] \notin
            {"running", "written", "saving", "aborting"}
    BY <1>t, <2>1 DEF Alone, InFlight, TypeOK
  <2>4. OwnEffect' /\ NoLateAbort'
    BY <1>t, <2>1, <2>2, <2>3 DEF OwnEffect, NoLateAbort, TypeOK
  <2>5. Uncommitted' \subseteq Uncommitted
    BY <1>t, <2>1, <2>2, <2>3 DEF Uncommitted, TypeOK
  <2>6. \A shown \in Shown' : shown \in Shown \cup {{}}
    <3>1. Points' = Points /\ Base' = Base
      BY <2>1 DEF Points, Base
    <3>2. \A d \in Calls : save'[d] \in {save[d], {}}
      BY <1>t, <2>1 DEF TypeOK
    <3>3. QED
      BY <1>b, <2>1, <3>1, <3>2 DEF Shown
  <2>7. QED
    BY <1>t, <2>4, <2>5, <2>6, NothingShown DEF CommittedInv
<1>6. ASSUME NEW c \in Calls, rollbackTransaction(c) PROVE CommittedInv'
  <2>1. /\ pc[c] = "aborting" /\ UNCHANGED <<shared, snapshots, backend, save, reset>>
        /\ stack' = <<>> /\ Base' = Base
    BY <1>6, <1>s DEF rollbackTransaction, Base
  <2>2. \A d \in Calls : d # c => pc[d] \notin {"running", "written", "saving", "aborting"}
    BY <1>t, <2>1 DEF Alone, InFlight
  <2>3. pc' = [pc EXCEPT ![c] = "failed"] /\ reset.phase = "none"
    BY <1>6, <1>t, <2>1, <2>2 DEF rollbackTransaction, Detach, Alone, InFlight, TypeOK
  <2>4. OwnEffect' /\ NoLateAbort'
    BY <1>t, <2>1, <2>2, <2>3 DEF OwnEffect, NoLateAbort, TypeOK
  <2>5. Shown' = Shown /\ Uncommitted' \subseteq Uncommitted
    BY <1>t, <2>1, <2>2, <2>3 DEF Shown, Points, Uncommitted, TypeOK
  <2>6. QED
    BY <1>t, <2>4, <2>5, NothingShown DEF CommittedInv
<1>7. ASSUME NEW n \in Names, createSnapshot(n) PROVE CommittedInv'
  <2>1. /\ stack = <<>> /\ reset.phase = "none" /\ Base = state
        /\ UNCHANGED <<state, shared, stack, backend, pc, save, reset>>
        /\ snapshots' = [snapshots EXCEPT ![n] = [version |-> version, state |-> state]]
    BY <1>7, <1>f, <1>s DEF createSnapshot
  <2>2. OwnEffect' /\ NoLateAbort' /\ Uncommitted' = Uncommitted /\ Base' = Base
    BY <1>t, <2>1 DEF OwnEffect, NoLateAbort, Uncommitted, Base
  <2>3. \A p \in Points' : p \in Points \/ p.state = Base
    BY <1>t, <2>1 DEF Points, TypeOK
  <2>4. \A shown \in Shown' : shown \in Shown
    BY <1>b, <2>1, <2>2, <2>3 DEF Shown
  <2>5. QED
    BY <1>t, <2>2, <2>4, NothingShown DEF CommittedInv
<1>8. ASSUME NEW old \in SUBSET Names, deleteSnapshots(old) PROVE CommittedInv'
  <2>1. UNCHANGED <<state, shared, stack, backend, pc, save, reset>>
    BY <1>8 DEF deleteSnapshots
  <2>2. OwnEffect' /\ NoLateAbort' /\ Uncommitted' = Uncommitted /\ Base' = Base
    BY <1>t, <2>1 DEF OwnEffect, NoLateAbort, Uncommitted, Base
  <2>3. Points' \subseteq Points
    BY <1>8, <1>t, <2>1 DEF deleteSnapshots, Points, TypeOK
  <2>4. \A shown \in Shown' : shown \in Shown
    BY <1>b, <2>1, <2>2, <2>3 DEF Shown
  <2>5. QED
    BY <1>t, <2>2, <2>4, NothingShown DEF CommittedInv
<1>9. ASSUME NEW n \in Names, RestoreStart(n) PROVE CommittedInv'
  <2>1. /\ UNCHANGED <<state, shared, stack, backend, pc, save, snapshots>>
        /\ reset' = [phase |-> "captured", snap |-> snapshots[n]]
        /\ snapshots[n] # NoSnapshot
    BY <1>9 DEF RestoreStart, machine
  <2>2. OwnEffect' /\ NoLateAbort' /\ Uncommitted' = Uncommitted /\ Base' = Base
    BY <1>t, <2>1 DEF OwnEffect, NoLateAbort, Uncommitted, Base
  <2>3. Points' \subseteq Points
    BY <2>1 DEF Points
  <2>4. \A shown \in Shown' : shown \in Shown
    BY <1>b, <2>1, <2>2, <2>3 DEF Shown
  <2>5. QED
    BY <1>t, <2>2, <2>4, NothingShown DEF CommittedInv
<1>10. CASE RestoreApply
  <2>1. InFlight = {} /\ stack = <<>> /\ stack' = <<>> /\ shared = {}
    BY <1>10, <1>t DEF RestoreApply, Alone, OneEntry, OwnEffect, InFlight
  <2>2. /\ pc' = pc /\ Base' = state' /\ state' = reset.snap.state
        /\ backend' \in {reset.snap.state, backend}
        /\ UNCHANGED <<shared, snapshots, save>>
    BY <1>10, <1>t, <2>1 DEF RestoreApply, Detach, InFlight, Base, Stored, TypeOK
  <2>3. reset \in [phase : {"captured", "restoring"}, snap : Snapshot]
        /\ reset.phase = "captured"
    BY <1>10, <1>t DEF RestoreApply, TypeOK, Idle
  <2>4. reset.snap \in Points /\ reset.snap.state \in Shown
    BY <1>b, <2>3 DEF Points
  <2>5. reset'.phase = "restoring" /\ reset'.snap.state = reset.snap.state
    <3>1. reset' = [reset EXCEPT !.phase = "restoring",
                                 !.snap.state = reset.snap.state \cup {}]
      BY <1>10, <2>1 DEF RestoreApply
    <3>2. QED
      BY <2>3, <3>1 DEF Snapshot
  <2>6. OwnEffect' /\ NoLateAbort'
    BY <1>t, <2>1, <2>2, <2>5 DEF OwnEffect, NoLateAbort, InFlight
  <2>7. Uncommitted' \subseteq Uncommitted
    BY <2>1, <2>2 DEF Uncommitted
  <2>8. \A p \in Points' : p \in Points \/ p.state = reset.snap.state
    BY <2>2, <2>5 DEF Points
  <2>9. \A shown \in Shown' : shown \in Shown
    BY <1>b, <2>2, <2>4, <2>8 DEF Shown
  <2>10. QED
    BY <1>t, <2>6, <2>7, <2>9, NothingShown DEF CommittedInv
<1>11. CASE RestoreSettle \/ ClearSettle
  <2>1. /\ UNCHANGED <<state, shared, stack, snapshots, pc, save>>
        /\ reset'.phase = "none"
        /\ backend' \in {backend, {}} \cup
             (IF reset.phase = "restoring" THEN {reset.snap.state} ELSE {})
    BY <1>11 DEF RestoreSettle, ClearSettle, Idle
  <2>2. OwnEffect' /\ NoLateAbort' /\ Uncommitted' = Uncommitted /\ Base' = Base
    BY <1>t, <2>1 DEF OwnEffect, NoLateAbort, Uncommitted, Base
  <2>3. Points' \subseteq Points
    BY <2>1 DEF Points
  <2>4. backend' \in Shown \cup {{}}
    <3>1. reset.phase = "restoring" => reset.snap \in Points
      BY DEF Points
    <3>2. QED
      BY <1>b, <2>1, <3>1
  <2>5. \A shown \in Shown' : shown \in Shown \cup {{}}
    BY <1>b, <2>1, <2>2, <2>3, <2>4 DEF Shown
  <2>6. QED
    BY <1>t, <2>2, <2>5, NothingShown DEF CommittedInv
<1>12. ASSUME NEW m \in 0 .. MaxHistoryLength, pruneHistory(m) PROVE CommittedInv'
  <2>1. UNCHANGED <<state, shared, stack, snapshots, backend, pc, save, reset>>
    BY <1>12 DEF pruneHistory
  <2>2. OwnEffect' /\ NoLateAbort' /\ Uncommitted' = Uncommitted /\ Shown' = Shown
    BY <1>t, <2>1 DEF OwnEffect, NoLateAbort, Uncommitted, Shown, Points, Base
  <2>3. QED
    BY <1>t, <2>2, NothingShown DEF CommittedInv
<1>13. CASE clear
  <2>1. InFlight = {} /\ stack = <<>>
    BY <1>13, <1>f DEF clear
  <2>2. /\ stack' = <<>> /\ state' = {} /\ pc' = pc
        /\ snapshots' = [n \in Names |-> NoSnapshot]
        /\ backend' \in {{}, backend} /\ reset'.phase = "clearing"
        /\ UNCHANGED <<shared, save>>
    BY <1>13, <1>t, <2>1 DEF clear, Detach, InFlight, Stored, TypeOK
  <2>3. OwnEffect' /\ NoLateAbort' /\ Base' = {} /\ Points' = {}
    BY <1>t, <2>1, <2>2 DEF OwnEffect, NoLateAbort, InFlight, Base, Points
  <2>4. Uncommitted' \subseteq Uncommitted
    BY <2>1, <2>2 DEF Uncommitted
  <2>5. \A shown \in Shown' : shown \in Shown \cup {{}}
    BY <1>b, <2>2, <2>3 DEF Shown
  <2>6. QED
    BY <1>t, <2>3, <2>4, <2>5, NothingShown DEF CommittedInv
<1>14. CASE initialize
  <2>1. /\ stack' = <<>> /\ state' = backend /\ reset'.phase = "none" /\ shared' = {}
        /\ snapshots' = [n \in Names |-> NoSnapshot]
        /\ save' = [c \in Calls |-> {}] /\ backend' = backend
    BY <1>14 DEF initialize, Idle
  <2>2. \A c \in Calls : /\ pc'[c] \notin {"running", "written", "saving", "aborting"}
                         /\ pc'[c] \in {pc[c], "lost"}
    BY <1>14, <1>t DEF initialize, InFlight, TypeOK
  <2>3. OwnEffect' /\ NoLateAbort' /\ Base' = backend /\ Points' = {}
    BY <2>1, <2>2 DEF OwnEffect, NoLateAbort, Base, Points
  <2>4. Uncommitted' \subseteq Uncommitted
    BY <2>1, <2>2 DEF Uncommitted
  <2>5. \A shown \in Shown' : shown \in Shown \cup {{}}
    BY <1>b, <2>1, <2>3 DEF Shown
  <2>6. QED
    BY <1>t, <2>3, <2>4, <2>5, NothingShown DEF CommittedInv
<1>15. QED
  BY <1>0, <1>1, <1>2, <1>3, <1>4, <1>5, <1>6, <1>7, <1>8, <1>9, <1>10, <1>11,
     <1>12, <1>13, <1>14 DEF Next, Step

\* Nothing shows in the initial machine.
LEMMA InitCommitted == Init => CommittedInv
<1> SUFFICES ASSUME Init PROVE CommittedInv
  OBVIOUS
<1>1. Base = {} /\ Points = {} /\ reset.phase = "none"
  BY DEF Init, Base, Points, Idle
<1>2. Shown \subseteq {{}}
  BY <1>1 DEF Init, Shown
<1>3. QED
  BY <1>1, <1>2 DEF Init, CommittedInv, OwnEffect, NoTrace, NoLateAbort

\* Awaited calls keep all three invariants.
LEMMA Awaited ==
    ASSUME MaxInFlight = 1, Nested = {}
    PROVE  Spec => [](HistoryInv /\ AwaitedInv /\ CommittedInv)
<1>1. HistoryInv /\ AwaitedInv /\ CommittedInv /\ [Next]_vars
        => HistoryInv' /\ AwaitedInv' /\ CommittedInv'
  BY StepHistory, StepAwaited, StepCommitted
<1>2. Init => HistoryInv /\ AwaitedInv /\ CommittedInv
  BY InitHistory, InitAwaited, InitCommitted
<1>3. QED
  BY <1>1, <1>2, PTL DEF Spec

\* When callers await each call, write no nested object and no commit can be
\* rejected, a call that reported failure has left no trace in the state, nor
\* will a restore or a restart bring one back (applyTransition: "Atomic
\* operations").
THEOREM AwaitedAtomicity ==
    ASSUME MaxInFlight = 1, Nested = {}, Faults = {}
    PROVE  Spec => []FailedLeavesNoTrace
<1>1. HistoryInv /\ AwaitedInv /\ CommittedInv => FailedLeavesNoTrace
  <2> SUFFICES ASSUME HistoryInv, AwaitedInv, CommittedInv, Quiescent,
                      NEW c \in Calls, pc[c] = "failed"
               PROVE  c \notin Visible
    BY DEF FailedLeavesNoTrace
  <2>1. InFlight = {}
    BY NothingInFlight DEF HistoryInv, Quiescent
  <2>2. state = Base /\ shared = {}
    BY <2>1 DEF AwaitedInv, OneEntry, CommittedInv, OwnEffect, InFlight, Base
  <2>3. c \in Uncommitted /\ Base \in Shown
    BY DEF Uncommitted, Shown
  <2>4. QED
    BY <2>2, <2>3 DEF CommittedInv, NoTrace, Visible
<1>2. QED
  BY <1>1, Awaited, PTL

\* Every step keeps in the backend what a rollback would bring back.
LEMMA StepDurable ==
    ASSUME MaxInFlight = 1, "write" \notin Faults, HistoryInv, AwaitedInv,
           Nested = {} => CommittedInv, Nested = {} \/ Backend = "memory",
           DurableInv, [Next]_vars
    PROVE  DurableInv'
<1>t. /\ TypeOK /\ Alone /\ OneEntry /\ Backend \in {"memory", "database"}
      /\ Backend = "database" => OwnEffect
  BY ConstantsAssumption DEF HistoryInv, AwaitedInv, CommittedInv
<1>f. Busy < MaxInFlight => InFlight = {} /\ reset.phase = "none" /\ stack = <<>>
  BY <1>t, NothingInFlight DEF OneEntry, InFlight
<1>s. \/ stack = <<>> /\ Base = state
      \/ /\ stack # <<>> /\ Len(stack) = 1
         /\ SubSeq(stack, 1, Len(stack) - 1) = <<>>
         /\ stack[Len(stack)] = Base /\ Base = stack[1]
  BY <1>t, StackCases
<1>k. ASSUME Base' = Base, backend' = backend, Pending => Pending' PROVE DurableInv'
  BY <1>k DEF DurableInv
<1>0. CASE UNCHANGED vars
  BY <1>0, <1>k DEF vars, Base, Pending
<1>1. ASSUME NEW c \in Calls, beginTransaction(c) PROVE DurableInv'
  <2>1. stack = <<>> /\ Base = state /\ stack'[1] = state /\ stack' # <<>>
    BY <1>1, <1>t, <1>f, <1>s, FirstEntry DEF beginTransaction, TypeOK
  <2>2. Base' = Base /\ backend' = backend
    BY <1>1, <2>1 DEF beginTransaction, Base
  <2>3. Pending => Pending'
    BY <1>1, <1>t DEF beginTransaction, Pending, TypeOK
  <2>4. QED
    BY <1>k, <2>2, <2>3
<1>2. ASSUME NEW c \in Calls, Write(c) \/ Throw(c) PROVE DurableInv'
  <2>1. stack # <<>> /\ UNCHANGED <<stack, backend, reset>>
    BY <1>2, <1>t DEF Write, Throw, machine, Alone, OneEntry
  <2>2. Pending => Pending'
    BY <1>2, <1>t DEF Write, Throw, Pending, TypeOK
  <2>3. QED
    BY <1>k, <2>1, <2>2 DEF Base
<1>3. ASSUME NEW c \in Calls, commitTransaction(c) PROVE DurableInv'
  <2>1. Base' = state /\ Pending'
    BY <1>3, <1>s, <1>t DEF commitTransaction, Base, Pending, TypeOK
  <2>2. Backend = "memory" => backend' = state
    BY <1>3 DEF commitTransaction, Stored
  <2>3. QED
    BY <2>1, <2>2 DEF DurableInv
<1>4. ASSUME NEW c \in Calls, CommitRefused(c) PROVE DurableInv'
  BY <1>4, <1>t DEF CommitRefused, OneEntry
<1>5. ASSUME NEW c \in Calls, Settle(c) PROVE DurableInv'
  <2>1. /\ UNCHANGED <<state, stack>> /\ pc[c] = "saving"
        /\ backend' = IF Backend = "database" THEN save[c] ELSE backend
    BY <1>5, <1>t DEF Settle
  <2>2. stack = <<>>
    BY <1>t, <2>1 DEF Alone, OneEntry, InFlight
  <2>3. Base' = state /\ Base = state
    BY <2>1, <2>2 DEF Base
  <2>4. Backend = "database" => save[c] = state
    BY <1>t, <2>1 DEF OwnEffect
  <2>5. QED
    BY <2>1, <2>3, <2>4 DEF DurableInv
<1>6. ASSUME NEW c \in Calls, rollbackTransaction(c) PROVE DurableInv'
  <2>1. Base' = Base /\ backend' = backend
    BY <1>6, <1>s DEF rollbackTransaction, Base
  <2>2. Pending => Pending'
    BY <1>6, <1>t DEF rollbackTransaction, Detach, Pending, TypeOK
  <2>3. QED
    BY <1>k, <2>1, <2>2
<1>7. ASSUME NEW n \in Names, createSnapshot(n) PROVE DurableInv'
  BY <1>7, <1>k DEF createSnapshot, Base, Pending
<1>8. ASSUME NEW old \in SUBSET Names, deleteSnapshots(old) PROVE DurableInv'
  BY <1>8, <1>k DEF deleteSnapshots, Base, Pending
<1>9. ASSUME NEW n \in Names, RestoreStart(n) PROVE DurableInv'
  BY <1>9, <1>k DEF RestoreStart, machine, Base, Pending
<1>10. CASE RestoreApply
  <2>1. stack' = <<>>
    BY <1>10, <1>t DEF RestoreApply, Alone, OneEntry, InFlight
  <2>2. Base' = reset.snap.state
    BY <1>10, <2>1 DEF RestoreApply, Base
  <2>3. Backend = "memory" => backend' = reset.snap.state
    BY <1>10 DEF RestoreApply, Stored
  <2>4. reset'.phase = "restoring"
    BY <1>10, <1>t DEF RestoreApply, TypeOK, Idle
  <2>5. QED
    BY <2>2, <2>3, <2>4 DEF DurableInv, Pending
<1>11. CASE RestoreSettle
  <2>1. /\ UNCHANGED <<state, stack>> /\ reset.phase = "restoring"
        /\ backend' = IF Backend = "database" THEN reset.snap.state ELSE backend
    BY <1>11, ConstantsAssumption DEF RestoreSettle
  <2>2. stack = <<>> /\ Base = state /\ Base' = state
    BY <1>t, <2>1 DEF Alone, OneEntry, InFlight, Base
  <2>3. Backend = "database" => reset.snap.state = state
    BY <1>t, <2>1 DEF OwnEffect
  <2>4. QED
    BY <2>1, <2>2, <2>3 DEF DurableInv
<1>12. CASE ClearSettle
  <2>1. /\ UNCHANGED <<state, stack>> /\ reset.phase = "clearing"
        /\ backend' = IF Backend = "database" THEN {} ELSE backend
    BY <1>12, ConstantsAssumption DEF ClearSettle
  <2>2. stack = <<>> /\ Base = state /\ Base' = state
    BY <1>t, <2>1 DEF Alone, OneEntry, InFlight, Base
  <2>3. Backend = "database" => state = {}
    BY <1>t, <2>1 DEF OwnEffect
  <2>4. QED
    BY <2>1, <2>2, <2>3 DEF DurableInv
<1>13. ASSUME NEW m \in 0 .. MaxHistoryLength, pruneHistory(m) PROVE DurableInv'
  BY <1>13, <1>k DEF pruneHistory, Base, Pending
<1>14. CASE clear
  <2>1. Base' = {} /\ reset'.phase = "clearing"
    BY <1>14 DEF clear, Base
  <2>2. Backend = "memory" => backend' = {}
    BY <1>14 DEF clear, Stored
  <2>3. QED
    BY <2>1, <2>2 DEF DurableInv, Pending
<1>15. CASE initialize
  BY <1>15 DEF initialize, Base, DurableInv
<1>16. QED
  BY <1>0, <1>1, <1>2, <1>3, <1>4, <1>5, <1>6, <1>7, <1>8, <1>9, <1>10, <1>11,
     <1>12, <1>13, <1>14, <1>15 DEF Next, Step

\* When callers await each call and the backend rejects none, memory and
\* backend agree between calls: after a commit, a failed call, a restore,
\* clear() or a restart; a database must also have been given no nested object
\* (setState in commitTransaction, restoreSnapshot, clear; initialize).
THEOREM AwaitedDurability ==
    ASSUME MaxInFlight = 1, "write" \notin Faults, Nested = {} \/ Backend = "memory"
    PROVE  Spec => []DurableInSync
<1> DEFINE Inv == HistoryInv /\ AwaitedInv /\ (Nested = {} => CommittedInv) /\ DurableInv
<1>1. Init => Inv
  <2> SUFFICES ASSUME Init PROVE Inv
    OBVIOUS
  <2>1. Base = {} /\ backend = {}
    BY DEF Init, Base
  <2>2. QED
    BY <2>1, InitHistory, InitAwaited, InitCommitted DEF DurableInv
<1>2. Inv /\ [Next]_vars => Inv'
  BY StepHistory, StepAwaited, StepCommitted, StepDurable
<1>3. Inv => DurableInSync
  <2> SUFFICES ASSUME Inv, Quiescent PROVE BackendView = Visible
    BY DEF DurableInSync
  <2>1. InFlight = {} /\ reset.phase = "none"
    BY NothingInFlight DEF HistoryInv, Quiescent
  <2>2. Base = state /\ ~Pending
    BY <2>1 DEF AwaitedInv, OneEntry, InFlight, Base, Pending
  <2>3. CASE Backend = "memory"
    BY <2>2, <2>3 DEF DurableInv, BackendView, Visible
  <2>4. CASE Backend = "database" /\ Nested = {}
    BY <2>2, <2>4 DEF DurableInv, CommittedInv, OwnEffect, BackendView, Visible
  <2>5. QED
    BY <2>3, <2>4, ConstantsAssumption
<1>4. QED
  BY <1>1, <1>2, <1>3, PTL DEF Spec

-----------------------------------------------------------------------------
(* The refinement of AtomicStore *)

\* The points the abstract store keeps.
Saved == {snapshots[n] : n \in {m \in Names : snapshots[m] # NoSnapshot}}
         \cup (IF reset.phase = "captured" THEN {reset.snap} ELSE {})

\* What a step must do to the abstract variables to be a step of AtomicStore.
LEMMA AbstractSteps ==
    /\ UNCHANGED <<Base, version, backend, Saved>> => UNCHANGED Promise!vars
    /\ (\E c \in Calls \ Base : /\ Base' = Base \cup {c} /\ version' = version + 1
                                /\ backend' \in {backend, Base'} /\ Saved' = Saved)
         => Promise!Next
    /\ backend' = Base /\ UNCHANGED <<Base, version, Saved>> => Promise!Next
    /\ (\E keep \in SUBSET Saved :
            /\ Saved' = keep \cup {[version |-> version, state |-> Base]}
            /\ UNCHANGED <<Base, version, backend>>) => Promise!Next
    /\ Saved' \in SUBSET Saved /\ UNCHANGED <<Base, version, backend>> => Promise!Next
    /\ (\E s \in Saved : /\ Base' = s.state /\ version' = s.version
                         /\ backend' \in {backend, s.state} /\ Saved' \in SUBSET Saved)
         => Promise!Next
    /\ (/\ Base' = {} /\ version' = 0 /\ Saved' = {} /\ backend' \in {backend, {}})
         => Promise!Next
    /\ (/\ Base' = backend /\ version' = 0 /\ Saved' = {} /\ backend' = backend)
         => Promise!Next
<1> USE DEF Base, Saved, Promise!Next
<1>1. UNCHANGED <<Base, version, backend, Saved>> => UNCHANGED Promise!vars
  BY DEF Promise!vars
<1>2. (\E c \in Calls \ Base : /\ Base' = Base \cup {c} /\ version' = version + 1
                               /\ backend' \in {backend, Base'} /\ Saved' = Saved)
         => Promise!Next
  BY DEF Promise!Apply
<1>3. backend' = Base /\ UNCHANGED <<Base, version, Saved>> => Promise!Next
  BY DEF Promise!Flush
<1>4. (\E keep \in SUBSET Saved :
            /\ Saved' = keep \cup {[version |-> version, state |-> Base]}
            /\ UNCHANGED <<Base, version, backend>>) => Promise!Next
  BY DEF Promise!Save
<1>5. Saved' \in SUBSET Saved /\ UNCHANGED <<Base, version, backend>> => Promise!Next
  BY DEF Promise!Drop
<1>6. (\E s \in Saved : /\ Base' = s.state /\ version' = s.version
                        /\ backend' \in {backend, s.state} /\ Saved' \in SUBSET Saved)
         => Promise!Next
  BY DEF Promise!Restore
<1>7. (/\ Base' = {} /\ version' = 0 /\ Saved' = {} /\ backend' \in {backend, {}})
         => Promise!Next
  BY DEF Promise!Clear
<1>8. (/\ Base' = backend /\ version' = 0 /\ Saved' = {} /\ backend' = backend)
         => Promise!Next
  BY DEF Promise!Restart
<1>9. QED
  BY <1>1, <1>2, <1>3, <1>4, <1>5, <1>6, <1>7, <1>8

\* Every step of awaited calls is a step of the atomic store, or none.
LEMMA StepRefines ==
    ASSUME MaxInFlight = 1, Nested = {}, HistoryInv, AwaitedInv, CommittedInv, [Next]_vars
    PROVE  [Promise!Next]_(Promise!vars)
<1>t. TypeOK /\ Alone /\ OneEntry /\ OwnEffect /\ NoTrace
  BY DEF HistoryInv, AwaitedInv, CommittedInv
<1>f. Busy < MaxInFlight => InFlight = {} /\ reset.phase = "none" /\ stack = <<>>
  BY <1>t, NothingInFlight DEF OneEntry, InFlight
<1>s. \/ stack = <<>> /\ Base = state
      \/ /\ stack # <<>> /\ Len(stack) = 1
         /\ SubSeq(stack, 1, Len(stack) - 1) = <<>>
         /\ stack[Len(stack)] = Base /\ Base = stack[1]
  BY <1>t, StackCases
<1>k. ASSUME UNCHANGED <<Base, version, backend, snapshots, reset>>
      PROVE  [Promise!Next]_(Promise!vars)
  BY <1>k, AbstractSteps DEF Saved
<1>0. CASE UNCHANGED vars
  BY <1>0, <1>k DEF vars, Base
<1>1. ASSUME NEW c \in Calls, beginTransaction(c) PROVE [Promise!Next]_(Promise!vars)
  <2>1. stack = <<>> /\ Base = state /\ stack'[1] = state /\ stack' # <<>>
    BY <1>1, <1>t, <1>f, <1>s, FirstEntry DEF beginTransaction, TypeOK
  <2>2. Base' = Base
    BY <2>1 DEF Base
  <2>3. QED
    BY <1>1, <1>k, <2>2 DEF beginTransaction
<1>2. ASSUME NEW c \in Calls, Write(c) \/ Throw(c) PROVE [Promise!Next]_(Promise!vars)
  <2>1. stack # <<>> /\ UNCHANGED <<stack, version, backend, snapshots, reset>>
    BY <1>2, <1>t DEF Write, Throw, machine, Alone, OneEntry
  <2>2. QED
    BY <1>k, <2>1 DEF Base
<1>3. ASSUME NEW c \in Calls, commitTransaction(c) PROVE [Promise!Next]_(Promise!vars)
  <2>1. /\ pc[c] = "written" /\ stack' = <<>> /\ version' = version + 1
        /\ UNCHANGED <<state, snapshots, reset>> /\ backend' \in {backend, state}
    BY <1>3, <1>s DEF commitTransaction, Stored
  <2>2. state = Base \cup {c} /\ Base' = state
    BY <1>t, <2>1 DEF OwnEffect, Base
  <2>3. c \notin Base
    BY <1>t, <2>1 DEF NoTrace, Uncommitted, Shown
  <2>4. Saved' = Saved
    BY <2>1 DEF Saved
  <2>5. \E d \in Calls \ Base : /\ Base' = Base \cup {d} /\ version' = version + 1
                                /\ backend' \in {backend, Base'} /\ Saved' = Saved
    BY <2>1, <2>2, <2>3, <2>4
  <2>6. QED
    BY <2>5, AbstractSteps
<1>4. ASSUME NEW c \in Calls, CommitRefused(c) PROVE [Promise!Next]_(Promise!vars)
  BY <1>4, <1>t DEF CommitRefused, OneEntry
<1>5. ASSUME NEW c \in Calls, Settle(c) PROVE [Promise!Next]_(Promise!vars)
  <2>1. /\ UNCHANGED <<state, stack, version, snapshots, reset>> /\ pc[c] = "saving"
        /\ backend' \in {save[c], backend}
    BY <1>5 DEF Settle
  <2>2. Base = state /\ Base' = Base /\ save[c] = Base
    BY <1>t, <2>1 DEF Alone, OneEntry, OwnEffect, InFlight, Base
  <2>3. Saved' = Saved
    BY <2>1 DEF Saved
  <2>4. CASE backend' = Base
    BY <2>1, <2>2, <2>3, <2>4, AbstractSteps
  <2>5. CASE backend' = backend
    BY <1>k, <2>1, <2>2, <2>5
  <2>6. QED
    BY <2>1, <2>2, <2>4, <2>5
<1>6. ASSUME NEW c \in Calls, rollbackTransaction(c) PROVE [Promise!Next]_(Promise!vars)
  <2>1. Base' = Base
    BY <1>6, <1>s DEF rollbackTransaction, Base
  <2>2. QED
    BY <1>6, <1>k, <2>1 DEF rollbackTransaction
<1>7. ASSUME NEW n \in Names, createSnapshot(n) PROVE [Promise!Next]_(Promise!vars)
  <2>1. /\ UNCHANGED <<Base, version, backend, reset>> /\ Base = state
        /\ snapshots' = [snapshots EXCEPT ![n] = [version |-> version, state |-> Base]]
        /\ reset.phase = "none"
    BY <1>7, <1>f, <1>s DEF createSnapshot, Base
  <2> DEFINE point == [version |-> version, state |-> Base]
             keep == {snapshots[m] : m \in {k \in Names \ {n} : snapshots[k] # NoSnapshot}}
  <2>2. keep \in SUBSET Saved
    BY DEF Saved
  <2>3. Saved' \in SUBSET (keep \cup {point})
    BY <1>t, <2>1 DEF Saved, TypeOK
  <2>4. CASE point = NoSnapshot
    <3>1. Saved' \in SUBSET Saved
      BY <1>t, <2>1, <2>4 DEF Saved, TypeOK
    <3>2. QED
      BY <2>1, <3>1, AbstractSteps
  <2>5. CASE point # NoSnapshot
    <3>1. Saved' = keep \cup {point}
      BY <1>t, <2>1, <2>5 DEF Saved, TypeOK
    <3>2. QED
      BY <2>1, <2>2, <3>1, AbstractSteps
  <2>6. QED
    BY <2>4, <2>5
<1>8. ASSUME NEW old \in SUBSET Names, deleteSnapshots(old)
      PROVE  [Promise!Next]_(Promise!vars)
  <2>1. UNCHANGED <<Base, version, backend, reset>>
    BY <1>8 DEF deleteSnapshots, Base
  <2>2. Saved' \in SUBSET Saved
    BY <1>8, <1>t DEF deleteSnapshots, Saved, TypeOK
  <2>3. QED
    BY <2>1, <2>2, AbstractSteps
<1>9. ASSUME NEW n \in Names, RestoreStart(n) PROVE [Promise!Next]_(Promise!vars)
  <2>1. /\ UNCHANGED <<Base, version, backend, snapshots>> /\ snapshots[n] # NoSnapshot
        /\ reset.phase = "none"
        /\ reset' = [phase |-> "captured", snap |-> snapshots[n]]
    BY <1>9 DEF RestoreStart, machine, Base
  <2>2. Saved' = Saved
    BY <2>1 DEF Saved
  <2>3. QED
    BY <2>1, <2>2, AbstractSteps
<1>10. CASE RestoreApply
  <2>1. stack' = <<>> /\ reset.phase = "captured"
    BY <1>10, <1>t DEF RestoreApply, Alone, OneEntry, InFlight
  <2>2. /\ Base' = reset.snap.state /\ version' = reset.snap.version
        /\ backend' \in {backend, reset.snap.state} /\ snapshots' = snapshots
    BY <1>10, <2>1 DEF RestoreApply, Base, Stored
  <2>3. reset'.phase # "captured"
    BY <1>10, <1>t DEF RestoreApply, TypeOK, Idle
  <2>4. reset.snap \in Saved /\ Saved' \in SUBSET Saved
    BY <2>1, <2>2, <2>3 DEF Saved
  <2>5. QED
    BY <2>2, <2>4, AbstractSteps
<1>11. CASE RestoreSettle \/ ClearSettle
  <2>1. /\ UNCHANGED <<state, stack, version, snapshots>>
        /\ reset.phase \in {"restoring", "clearing"} /\ reset'.phase = "none"
        /\ backend' \in {backend, IF reset.phase = "restoring" THEN reset.snap.state ELSE {}}
    BY <1>11 DEF RestoreSettle, ClearSettle, Idle
  <2>2. Base = state /\ Base' = Base
    BY <1>t, <2>1 DEF Alone, OneEntry, InFlight, Base
  <2>3. backend' \in {backend, Base} /\ Saved' = Saved
    BY <1>t, <2>1, <2>2 DEF OwnEffect, Saved
  <2>4. CASE backend' = Base
    BY <2>1, <2>2, <2>3, <2>4, AbstractSteps
  <2>5. CASE backend' = backend
    BY <2>1, <2>2, <2>3, <2>5, AbstractSteps
  <2>6. QED
    BY <2>3, <2>4, <2>5
<1>12. ASSUME NEW m \in 0 .. MaxHistoryLength, pruneHistory(m)
       PROVE  [Promise!Next]_(Promise!vars)
  BY <1>12, <1>k DEF pruneHistory, Base
<1>13. CASE clear
  <2>1. Base' = {} /\ version' = 0 /\ backend' \in {backend, {}}
    BY <1>13 DEF clear, Base, Stored
  <2>2. Saved' = {}
    BY <1>13 DEF clear, Saved
  <2>3. QED
    BY <2>1, <2>2, AbstractSteps
<1>14. CASE initialize
  <2>1. Base' = backend /\ version' = 0 /\ backend' = backend
    BY <1>14 DEF initialize, Base
  <2>2. Saved' = {}
    BY <1>14 DEF initialize, Saved, Idle
  <2>3. QED
    BY <2>1, <2>2, AbstractSteps
<1>15. QED
  BY <1>0, <1>1, <1>2, <1>3, <1>4, <1>5, <1>6, <1>7, <1>8, <1>9, <1>10, <1>11,
     <1>12, <1>13, <1>14 DEF Next, Step

\* When callers await each call and write no nested object, the machine
\* implements the atomic store, whatever its backend and whatever fails: a
\* transition shows as a whole or not at all, a restart finds a state the store
\* once had, a restore returns to a point that was saved (applyTransition,
\* restoreSnapshot, clear, initialize).
THEOREM Refinement ==
    ASSUME MaxInFlight = 1, Nested = {}
    PROVE  Spec => ActsAtomically
<1>1. Init => Promise!Init
  BY DEF Init, Promise!Init, Idle
<1>2. HistoryInv /\ AwaitedInv /\ CommittedInv /\ [Next]_vars
        => [Promise!Next]_(Promise!vars)
  BY StepRefines
<1>3. QED
  BY <1>1, <1>2, Awaited, PTL DEF Spec, ActsAtomically, Promise!Spec
=============================================================================
