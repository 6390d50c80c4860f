-------------------------- MODULE EventQueueProofs --------------------------
(***************************************************************************)
(* For any events, priorities and times: the agenda stays sorted, nothing  *)
(* is left in the past, and time never runs backwards.                     *)
(***************************************************************************)
EXTENDS EventQueue, TLAPS, SequenceTheorems

\* What inserting into a sequence gives, position by position.
LEMMA InsertAtPositions ==
    ASSUME NEW S, NEW s \in Seq(S), NEW i \in 1 .. Len(s) + 1, NEW e \in S
    PROVE  /\ InsertAt(s, i, e) \in Seq(S)
           /\ Len(InsertAt(s, i, e)) = Len(s) + 1
           /\ \A j \in 1 .. i - 1 : InsertAt(s, i, e)[j] = s[j]
           /\ InsertAt(s, i, e)[i] = e
           /\ \A j \in i + 1 .. Len(s) + 1 : InsertAt(s, i, e)[j] = s[j - 1]
<1> DEFINE front == SubSeq(s, 1, i - 1)
           back == SubSeq(s, i, Len(s))
<1>1. /\ front \in Seq(S) /\ Len(front) = i - 1
      /\ \A j \in 1 .. i - 1 : front[j] = s[j]
  BY SubSeqProperties
<1>2. /\ back \in Seq(S) /\ Len(back) = Len(s) + 1 - i
      /\ \A j \in 1 .. Len(s) + 1 - i : back[j] = s[i + j - 1]
  BY SubSeqProperties
<1>3. /\ <<e>> \in Seq(S) /\ Len(<<e>>) = 1 /\ <<e>>[1] = e
  OBVIOUS
<1> HIDE DEF front, back
<1> DEFINE start == front \o <<e>>
<1>4. /\ start \in Seq(S) /\ Len(start) = i
      /\ \A j \in 1 .. i : start[j] = IF j < i THEN s[j] ELSE e
  BY <1>1, <1>3, ConcatProperties, SMTT(30)
<1> HIDE DEF start
<1>5. /\ start \o back \in Seq(S) /\ Len(start \o back) = Len(s) + 1
      /\ \A j \in 1 .. i - 1 : (start \o back)[j] = s[j]
      /\ (start \o back)[i] = e
      /\ \A j \in i + 1 .. Len(s) + 1 : (start \o back)[j] = s[j - 1]
  <2>1. /\ start \o back \in Seq(S) /\ Len(start \o back) = Len(start) + Len(back)
        /\ \A j \in 1 .. Len(start) + Len(back) :
              (start \o back)[j] = IF j <= Len(start) THEN start[j] ELSE back[j - Len(start)]
    BY <1>2, <1>4, ConcatProperties, SMTT(30)
  <2>2. Len(start) + Len(back) = Len(s) + 1
    BY <1>2, <1>4
  <2>3. ASSUME NEW j \in 1 .. i PROVE (start \o back)[j] = start[j]
    BY <2>1, <2>2, <1>4, SMTT(30)
  <2>4. ASSUME NEW j \in i + 1 .. Len(s) + 1 PROVE (start \o back)[j] = s[j - 1]
    <3>1. j - i \in 1 .. Len(s) + 1 - i /\ i + (j - i) - 1 = j - 1
      OBVIOUS
    <3>2. (start \o back)[j] = back[j - i]
      BY <2>1, <2>2, <1>4
    <3> QED BY <3>1, <3>2, <1>2, SMTT(30)
  <2> QED BY <1>4, <2>1, <2>2, <2>3, <2>4, SMTT(30)
<1>6. InsertAt(s, i, e) = start \o back
  BY Zenon DEF InsertAt, start, front, back
<1> QED BY <1>5, <1>6, Zenon

\* What removing from a sequence gives, position by position.
LEMMA RemoveAtPositions ==
    ASSUME NEW S, NEW s \in Seq(S), NEW i \in 1 .. Len(s)
    PROVE  /\ RemoveAt(s, i) \in Seq(S)
           /\ Len(RemoveAt(s, i)) = Len(s) - 1
           /\ \A j \in 1 .. Len(s) - 1 :
                 RemoveAt(s, i)[j] = IF j < i THEN s[j] ELSE s[j + 1]
<1> DEFINE front == SubSeq(s, 1, i - 1)
           back == SubSeq(s, i + 1, Len(s))
<1>1. /\ front \in Seq(S) /\ Len(front) = i - 1
      /\ \A j \in 1 .. i - 1 : front[j] = s[j]
  BY SubSeqProperties
<1>2. /\ back \in Seq(S) /\ Len(back) = Len(s) - i
      /\ \A j \in 1 .. Len(s) - i : back[j] = s[i + j]
  BY SubSeqProperties
<1> HIDE DEF front, back
<1>3. /\ front \o back \in Seq(S) /\ Len(front \o back) = Len(s) - 1
      /\ \A j \in 1 .. Len(s) - 1 :
            (front \o back)[j] = IF j < i THEN s[j] ELSE s[j + 1]
  <2>1. /\ front \o back \in Seq(S) /\ Len(front \o back) = Len(front) + Len(back)
        /\ \A j \in 1 .. Len(front) + Len(back) :
              (front \o back)[j] = IF j <= Len(front) THEN front[j] ELSE back[j - Len(front)]
    BY <1>1, <1>2, ConcatProperties, ZenonT(30)
  <2>2. Len(front) + Len(back) = Len(s) - 1
    BY <1>1, <1>2
  <2>3. ASSUME NEW j \in 1 .. Len(s) - 1
        PROVE  (front \o back)[j] = IF j < i THEN s[j] ELSE s[j + 1]
    <3>1. CASE j < i
      BY <2>1, <2>2, <3>1, <1>1, SMTT(30)
    <3>2. CASE j >= i
      <4>1. j - (i - 1) \in 1 .. Len(s) - i /\ i + (j - (i - 1)) = j + 1
        BY <3>2
      <4>2. (front \o back)[j] = back[j - (i - 1)]
        BY <2>1, <2>2, <3>2, <1>1, SMTT(30)
      <4>3. back[j - (i - 1)] = s[j + 1]
        BY <4>1, <1>2
      <4> QED BY <4>2, <4>3, <3>2
    <3>3. i \in Int /\ j \in Int
      OBVIOUS
    <3>4. (j <= i \/ j > i) /\ (j < i \/ j >= i)
      BY <3>3
    <3> QED BY <3>1, <3>2, <3>4, Zenon
  <2> QED BY <2>1, <2>2, <2>3
<1>4. RemoveAt(s, i) = front \o back
  BY Zenon DEF RemoveAt, front, back
<1> QED BY <1>3, <1>4, Zenon

-----------------------------------------------------------------------------
\* The agenda with the event in position i taken out stays sorted, and that
\* event is no longer on it.
LEMMA RemovedSorted ==
    ASSUME NEW s \in Seq(Event), NEW w \in [Event -> Time], NEW t \in Time,
           NEW i \in 1 .. Len(s), Sorted(s, w), NoneBefore(s, w, t)
    PROVE  /\ RemoveAt(s, i) \in Seq(Event)
           /\ Sorted(RemoveAt(s, i), w) /\ NoneBefore(RemoveAt(s, i), w, t)
           /\ \A j \in 1 .. Len(RemoveAt(s, i)) : RemoveAt(s, i)[j] # s[i]
<1> DEFINE r == RemoveAt(s, i)
           from(j) == IF j < i THEN j ELSE j + 1
<1>1. /\ r \in Seq(Event) /\ Len(r) = Len(s) - 1 /\ Len(s) \in Nat
      /\ \A j \in 1 .. Len(s) - 1 : r[j] = IF j < i THEN s[j] ELSE s[j + 1]
  BY RemoveAtPositions
<1> HIDE DEF r
<1>2. ASSUME NEW j \in 1 .. Len(r)
      PROVE  from(j) \in 1 .. Len(s) /\ from(j) # i /\ r[j] = s[from(j)]
  <2>1. CASE j < i
    BY <1>1, <2>1
  <2>2. CASE ~(j < i)
    BY <1>1, <2>2, SMTT(30)
  <2> QED BY <2>1, <2>2
<1>3. ASSUME NEW j \in 1 .. Len(r), NEW k \in 1 .. Len(r), j < k
      PROVE  from(j) < from(k)
  BY <1>1, <1>3, SMTT(30)
<1> HIDE DEF from
<1>4. Sorted(r, w)
  BY <1>2, <1>3 DEF Sorted
<1>5. NoneBefore(r, w, t)
  BY <1>2 DEF NoneBefore
<1>6. ASSUME NEW j \in 1 .. Len(r) PROVE r[j] # s[i]
  <2>1. from(j) \in 1 .. Len(s) /\ from(j) # i /\ r[j] = s[from(j)]
    BY <1>2, Zenon
  <2>2. from(j) \in Int /\ i \in Int
    BY <1>1, <2>1
  <2>3. from(j) < i \/ i < from(j)
    BY <2>1, <2>2
  <2> QED BY <2>1, <2>3 DEF Sorted
<1> QED BY <1>1, <1>4, <1>5, <1>6, ZenonT(30) DEF r

\* Putting an event that is not on the agenda into its slot keeps it sorted.
LEMMA PlacedSorted ==
    ASSUME NEW s \in Seq(Event), NEW w \in [Event -> Time],
           NEW e \in Event, NEW t \in Time, NEW now \in Time, t >= now,
           Sorted(s, w), NoneBefore(s, w, now),
           \A j \in 1 .. Len(s) : s[j] # e,
           NEW i \in 1 .. Len(s) + 1, Slot(s, [w EXCEPT ![e] = t], e, i)
    PROVE  /\ InsertAt(s, i, e) \in Seq(Event)
           /\ Sorted(InsertAt(s, i, e), [w EXCEPT ![e] = t])
           /\ NoneBefore(InsertAt(s, i, e), [w EXCEPT ![e] = t], now)
<1> DEFINE r == InsertAt(s, i, e)
           v == [w EXCEPT ![e] = t]
           from(j) == IF j < i THEN j ELSE j - 1
<1>1. /\ r \in Seq(Event) /\ Len(r) = Len(s) + 1 /\ Len(s) \in Nat
      /\ \A j \in 1 .. i - 1 : r[j] = s[j]
      /\ r[i] = e
      /\ \A j \in i + 1 .. Len(s) + 1 : r[j] = s[j - 1]
  <2>1. Len(s) \in Nat
    OBVIOUS
  <2> QED BY <2>1, InsertAtPositions
<1> HIDE DEF r
<1>2. ASSUME NEW j \in 1 .. Len(r), j # i
      PROVE  from(j) \in 1 .. Len(s) /\ r[j] = s[from(j)]
  <2>1. CASE j < i
    BY <1>1, <2>1
  <2>2. CASE ~(j < i)
    BY <1>1, <1>2, <2>2, SMTT(30)
  <2> QED BY <2>1, <2>2
<1>3. ASSUME NEW j \in 1 .. Len(r), NEW k \in 1 .. Len(r), j < k, j # i, k # i
      PROVE  from(j) < from(k)
  BY <1>1, <1>3
<1>4. /\ v \in [Event -> Time] /\ v[e] = t
      /\ \A j \in 1 .. Len(s) : s[j] \in Event /\ v[s[j]] = w[s[j]]
  BY SMTT(30) DEF Time
<1>5. ASSUME NEW j \in 1 .. Len(r), NEW k \in 1 .. Len(r), j < k
      PROVE  r[j] # r[k] /\ ~Before(v, r[k], r[j])
  <2>1. CASE j = i
    <3>1. k - 1 \in i .. Len(s) /\ k - 1 \in 1 .. Len(s) /\ r[k] = s[k - 1] /\ r[j] = e
      BY <1>1, <1>5, <2>1
    <3>2. ~Before(v, s[k - 1], e)
      BY <3>1, ZenonT(30) DEF Slot
    <3> QED BY <3>1, <3>2
  <2>2. CASE k = i
    <3>1. from(j) \in 1 .. i - 1 /\ from(j) \in 1 .. Len(s) /\ r[j] = s[from(j)] /\ r[k] = e
      BY <1>1, <1>2, <1>5, <2>2, SMTT(30)
    <3>2. Before(v, r[j], e)
      BY <3>1, ZenonT(30) DEF Slot
    <3>3. r[j] \in Event /\ v[r[j]] \in Int /\ v[e] \in Int
      BY <3>1, <1>4, SMTT(30) DEF Time
    <3>4. priority[e] \in Int /\ priority[r[j]] \in Int
      BY <3>3, EventAssumption
    <3> QED BY <3>1, <3>2, <3>3, <3>4, SMTT(30) DEF Before
  <2>3. CASE j # i /\ k # i
    <3>1. /\ from(j) \in 1 .. Len(s) /\ from(k) \in 1 .. Len(s) /\ from(j) < from(k)
          /\ r[j] = s[from(j)] /\ r[k] = s[from(k)]
      BY <1>2, <1>3, <1>5, <2>3, ZenonT(30)
    <3> HIDE DEF v, from
    <3>2. r[j] # r[k] /\ ~Before(w, r[k], r[j])
      BY <3>1 DEF Sorted
    <3> QED BY <3>1, <3>2, <1>4, ZenonT(30) DEF Before
  <2> QED BY <2>1, <2>2, <2>3
<1>6. ASSUME NEW j \in 1 .. Len(r) PROVE v[r[j]] >= now
  <2>1. CASE j = i
    BY <1>1, <1>4, <2>1, ZenonT(30)
  <2>2. CASE j # i
    <3>1. from(j) \in 1 .. Len(s) /\ r[j] = s[from(j)]
      BY <1>2, <2>2, SMTT(30)
    <3> HIDE DEF v, from
    <3> QED BY <3>1, <1>4, SMTT(30) DEF NoneBefore
  <2> QED BY <2>1, <2>2, SMTT(30)
<1> HIDE DEF v
<1>7. Sorted(r, v) /\ NoneBefore(r, v, now)
  BY <1>5, <1>6 DEF Sorted, NoneBefore
<1> QED BY <1>1, <1>7 DEF r, v

-----------------------------------------------------------------------------
\* The inductive invariant: that nothing is in the past survives a service
\* only because the event at the head is the earliest one.
QueueIInv == TypeOK /\ AgendaSorted /\ NothingInThePast

\* The empty queue satisfies it.
LEMMA QueueIInvInit == Init => QueueIInv
<1> SUFFICES ASSUME Init PROVE QueueIInv
  OBVIOUS
<1>1. TypeOK
  BY EventAssumption DEF Init, TypeOK, Time
<1>2. Len(agenda) = 0
  BY DEF Init
<1> QED BY <1>1, <1>2 DEF QueueIInv, AgendaSorted, NothingInThePast, Sorted, NoneBefore

\* Placing an event that is not on s makes an agenda that satisfies it.
LEMMA PlaceKeeps ==
    ASSUME NEW s \in Seq(Event), when \in [Event -> Time], curTick \in Time,
           NEW e \in Event, NEW t \in Time, t >= curTick,
           Sorted(s, when), NoneBefore(s, when, curTick),
           \A j \in 1 .. Len(s) : s[j] # e,
           Place(s, e, t)
    PROVE  /\ agenda' \in Seq(Event) /\ when' \in [Event -> Time]
           /\ Sorted(agenda', when') /\ NoneBefore(agenda', when', curTick)
<1>1. when' = [when EXCEPT ![e] = t]
  BY DEF Place
<1>2. PICK i \in 1 .. Len(s) + 1 : Slot(s, when', e, i) /\ agenda' = InsertAt(s, i, e)
  BY DEF Place
<1>3. when' \in [Event -> Time]
  BY <1>1
<1>4. Slot(s, [when EXCEPT ![e] = t], e, i)
  BY <1>1, <1>2, Zenon
<1>5. /\ InsertAt(s, i, e) \in Seq(Event)
      /\ Sorted(InsertAt(s, i, e), [when EXCEPT ![e] = t])
      /\ NoneBefore(InsertAt(s, i, e), [when EXCEPT ![e] = t], curTick)
  BY <1>4, PlacedSorted, ZenonT(30)
<1> QED BY <1>1, <1>2, <1>3, <1>5, Zenon

\* Every operation of the queue preserves it and never turns time back.
LEMMA QueueIInvStep == QueueIInv /\ [Next]_vars => QueueIInv' /\ curTick' >= curTick
<1> SUFFICES ASSUME QueueIInv, [Next]_vars PROVE QueueIInv' /\ curTick' >= curTick
  OBVIOUS
<1>0. /\ agenda \in Seq(Event) /\ when \in [Event -> Time] /\ squashed \in SUBSET Event
      /\ curTick \in Time /\ curTick \in Int
      /\ Sorted(agenda, when) /\ NoneBefore(agenda, when, curTick)
  BY DEF QueueIInv, TypeOK, AgendaSorted, NothingInThePast, Time
<1>1. ASSUME /\ agenda' \in Seq(Event) /\ when' \in [Event -> Time]
             /\ squashed' \in SUBSET Event /\ curTick' = curTick
             /\ Sorted(agenda', when') /\ NoneBefore(agenda', when', curTick)
      PROVE  QueueIInv' /\ curTick' >= curTick
  BY <1>0, <1>1, SMTT(30) DEF QueueIInv, TypeOK, AgendaSorted, NothingInThePast
<1>2. ASSUME NEW e \in Event, NEW t \in Time, Schedule(e, t)
      PROVE  QueueIInv' /\ curTick' >= curTick
  <2>1. t >= curTick /\ Place(agenda, e, t) /\ UNCHANGED <<squashed, curTick>>
    BY <1>2 DEF Schedule
  <2>2. \A j \in 1 .. Len(agenda) : agenda[j] # e
    BY <1>2 DEF Schedule, scheduled
  <2>3. /\ agenda' \in Seq(Event) /\ when' \in [Event -> Time]
        /\ Sorted(agenda', when') /\ NoneBefore(agenda', when', curTick)
    BY <1>0, <2>1, <2>2, PlaceKeeps, ZenonT(30)
  <2> QED BY <1>0, <1>1, <2>1, <2>3, ZenonT(30)
<1>3. ASSUME NEW e \in Event, Deschedule(e)
      PROVE  QueueIInv' /\ curTick' >= curTick
  <2>1. PICK i \in 1 .. Len(agenda) : agenda[i] = e /\ agenda' = RemoveAt(agenda, i)
    BY <1>3 DEF Deschedule
  <2>2. /\ RemoveAt(agenda, i) \in Seq(Event)
        /\ Sorted(RemoveAt(agenda, i), when) /\ NoneBefore(RemoveAt(agenda, i), when, curTick)
    BY <1>0, RemovedSorted
  <2>3. squashed' \in SUBSET Event /\ UNCHANGED <<when, curTick>>
    BY <1>0, <1>3, SMTT(30) DEF Deschedule
  <2> QED BY <1>0, <1>1, <2>1, <2>2, <2>3, ZenonT(30)
<1>4. ASSUME NEW e \in Event, NEW t \in Time, Reschedule(e, t)
      PROVE  QueueIInv' /\ curTick' >= curTick
  <2>1. PICK i \in 1 .. Len(agenda) : agenda[i] = e /\ Place(RemoveAt(agenda, i), e, t)
    BY <1>4 DEF Reschedule
  <2> DEFINE s == RemoveAt(agenda, i)
  <2>2. /\ s \in Seq(Event) /\ Sorted(s, when) /\ NoneBefore(s, when, curTick)
        /\ \A j \in 1 .. Len(s) : s[j] # agenda[i]
    BY <1>0, RemovedSorted, SMTT(30)
  <2>3. t >= curTick /\ squashed' \in SUBSET Event /\ curTick' = curTick
    BY <1>0, <1>4, SMTT(30) DEF Reschedule
  <2>4. Place(s, e, t) /\ \A j \in 1 .. Len(s) : s[j] # e
    BY <2>1, <2>2, Zenon
  <2> HIDE DEF s
  <2>5. /\ agenda' \in Seq(Event) /\ when' \in [Event -> Time]
        /\ Sorted(agenda', when') /\ NoneBefore(agenda', when', curTick)
    BY <1>0, <2>2, <2>3, <2>4, PlaceKeeps, ZenonT(30)
  <2> QED BY <1>1, <2>3, <2>5, SMTT(30)
<1>5. ASSUME NEW e \in Event, Squash(e)
      PROVE  QueueIInv' /\ curTick' >= curTick
  <2>1. squashed' \in SUBSET Event /\ UNCHANGED <<agenda, when, curTick>>
    BY <1>0, <1>5 DEF Squash
  <2> QED BY <1>0, <1>1, <2>1, SMTT(30)
<1>6. CASE ServiceOne
  <2>1. agenda # <<>> /\ agenda' = Tail(agenda) /\ when' = when
    BY <1>6 DEF ServiceOne
  <2>2. /\ Len(agenda) \in Nat /\ 1 \in 1 .. Len(agenda) /\ Head(agenda) = agenda[1]
        /\ agenda' \in Seq(Event) /\ Len(agenda') = Len(agenda) - 1
        /\ \A j \in 1 .. Len(agenda') : agenda'[j] = agenda[j + 1]
    BY <1>0, <2>1, HeadTailProperties, SMTT(30)
  <2>3. Sorted(agenda', when')
    BY <1>0, <2>1, <2>2, SMTT(30) DEF Sorted
  <2>4. /\ when[Head(agenda)] \in Time /\ when[Head(agenda)] >= curTick
        /\ NoneBefore(agenda', when', when[Head(agenda)])
    <3>1. agenda[1] \in Event /\ when[agenda[1]] \in Time /\ when[agenda[1]] >= curTick
      BY <1>0, <2>2, SMTT(30) DEF NoneBefore
    <3>2. ASSUME NEW j \in 1 .. Len(agenda') PROVE when[agenda'[j]] >= when[agenda[1]]
      <4>1. j + 1 \in 1 .. Len(agenda) /\ 1 < j + 1 /\ agenda'[j] = agenda[j + 1]
        BY <2>2
      <4>2. ~Before(when, agenda[j + 1], agenda[1])
        BY <1>0, <2>2, <4>1, SMTT(30) DEF Sorted
      <4>3. agenda[j + 1] \in Event /\ when[agenda[j + 1]] \in Int /\ when[agenda[1]] \in Int
        BY <1>0, <4>1, <3>1, SMTT(30) DEF Time
      <4> QED BY <4>1, <4>2, <4>3, SMTT(30) DEF Before
    <3> QED BY <3>1, <3>2, <2>1, <2>2, ZenonT(30) DEF NoneBefore
  <2>5. NoneBefore(agenda', when', curTick)
    BY <1>0, <2>1, <2>2, SMTT(30) DEF NoneBefore
  <2>6. CASE Head(agenda) \in squashed
    <3>1. squashed' \in SUBSET Event /\ curTick' = curTick
      BY <1>0, <1>6, <2>6, SMTT(30) DEF ServiceOne
    <3> QED BY <1>0, <1>1, <2>1, <2>2, <2>3, <2>5, <3>1, SMTT(30)
  <2>7. CASE Head(agenda) \notin squashed
    <3>1. squashed' = squashed /\ curTick' = when[Head(agenda)]
      BY <1>6, <2>7 DEF ServiceOne
    <3> QED BY <1>0, <2>1, <2>2, <2>3, <2>4, <3>1, SMTT(30)
            DEF QueueIInv, TypeOK, AgendaSorted, NothingInThePast
  <2> QED BY <2>6, <2>7, SMTT(30)
<1>7. CASE UNCHANGED vars
  BY <1>0, <1>1, <1>7, SMTT(30) DEF vars
<1> QED BY <1>2, <1>3, <1>4, <1>5, <1>6, <1>7, SMTT(30) DEF Next

\* It holds in every reachable state.
LEMMA QueueIInvAlways == Spec => []QueueIInv
<1>1. QueueIInv /\ [Next]_vars => QueueIInv'
  BY QueueIInvStep
<1> QED BY QueueIInvInit, <1>1, PTL DEF Spec

\* The agenda is always sorted and without repetition, for any set of events,
\* any priorities and any horizon (EventQueue::insert, remove, serviceOne).
THEOREM AgendaSortedCorrect == Spec => []AgendaSorted
<1>1. QueueIInv => AgendaSorted
  BY SMTT(30) DEF QueueIInv
<1> QED BY QueueIInvAlways, <1>1, PTL

\* No event is ever left behind in the past (doSimLoop's assertion).
THEOREM NothingInThePastCorrect == Spec => []NothingInThePast
<1>1. QueueIInv => NothingInThePast
  BY DEF QueueIInv
<1> QED BY QueueIInvAlways, <1>1, PTL

\* Simulated time never runs backwards (setCurTick in serviceOne).
THEOREM TimeForwardCorrect == Spec => TimeForward
<1>1. QueueIInv /\ [Next]_vars => [curTick' >= curTick]_vars
  BY QueueIInvStep
<1> QED BY QueueIInvAlways, <1>1, PTL DEF Spec, TimeForward
=============================================================================
