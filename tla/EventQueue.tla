---------------------------- MODULE EventQueue ----------------------------
(***************************************************************************)
(* What the simulator's event queue promises (sim/eventq.hh): events are   *)
(* served in order of time, then of priority, and among equals the last    *)
(* one scheduled comes first.                                              *)
(*                                                                         *)
(* agenda holds the scheduled events in the order in which they will be    *)
(* served.  What an event's handler does to the queue are further steps.   *)
(* EventQueueBins is the data structure that implements this.              *)
(***************************************************************************)
EXTENDS Integers, SequencesExt

CONSTANTS Event, priority,
          MaxTick             \* bound on the times at which events are scheduled

ASSUME EventAssumption == priority \in [Event -> Int] /\ MaxTick \in Nat

VARIABLES agenda, when, squashed, curTick

vars == <<agenda, when, squashed, curTick>>

Time == 0 .. MaxTick

TypeOK ==
    /\ agenda \in Seq(Event)
    /\ when \in [Event -> Time]
    /\ squashed \in SUBSET Event
    /\ curTick \in Time

-----------------------------------------------------------------------------
scheduled(e) == \E i \in 1 .. Len(agenda) : agenda[i] = e

\* operator< on events, with w the times they are scheduled for.
Before(w, a, b) == w[a] < w[b] \/ (w[a] = w[b] /\ priority[a] < priority[b])

\* Where event e belongs in s: behind all earlier events, in front of the others.
Slot(s, w, e, i) ==
    /\ \A j \in 1 .. i - 1 : Before(w, s[j], e)
    /\ \A j \in i .. Len(s) : ~Before(w, s[j], e)

Init ==
    /\ agenda = <<>>
    /\ when = [e \in Event |-> 0]
    /\ squashed = {}
    /\ curTick = 0

\* s is the agenda without e.
Place(s, e, t) ==
    /\ when' = [when EXCEPT ![e] = t]
    /\ \E i \in 1 .. Len(s) + 1 : Slot(s, when', e, i) /\ agenda' = InsertAt(s, i, e)

Schedule(e, t) ==
    /\ t >= curTick /\ ~scheduled(e)
    /\ Place(agenda, e, t)
    /\ UNCHANGED <<squashed, curTick>>

Deschedule(e) ==
    /\ \E i \in 1 .. Len(agenda) : agenda[i] = e /\ agenda' = RemoveAt(agenda, i)
    /\ squashed' = squashed \ {e}
    /\ UNCHANGED <<when, curTick>>

Reschedule(e, t) ==
    /\ t >= curTick
    /\ \E i \in 1 .. Len(agenda) : agenda[i] = e /\ Place(RemoveAt(agenda, i), e, t)
    /\ squashed' = squashed \ {e}
    /\ UNCHANGED curTick

\* squash() itself has no guard; its callers hold a scheduled event.
Squash(e) ==
    /\ scheduled(e)
    /\ squashed' = squashed \cup {e}
    /\ UNCHANGED <<agenda, when, curTick>>

\* A squashed event is dropped without advancing time.
ServiceOne ==
    /\ agenda # <<>>
    /\ agenda' = Tail(agenda)
    /\ IF Head(agenda) \in squashed
       THEN squashed' = squashed \ {Head(agenda)} /\ UNCHANGED curTick
       ELSE curTick' = when[Head(agenda)] /\ UNCHANGED squashed
    /\ UNCHANGED when

Next ==
    \/ ServiceOne
    \/ \E e \in Event : \/ Deschedule(e) \/ Squash(e)
                        \/ \E t \in Time : Schedule(e, t) \/ Reschedule(e, t)

Spec == Init /\ [][Next]_vars

-----------------------------------------------------------------------------
Sorted(s, w) ==
    \A i, j \in 1 .. Len(s) : i < j => s[i] # s[j] /\ ~Before(w, s[j], s[i])

NoneBefore(s, w, t) == \A i \in 1 .. Len(s) : w[s[i]] >= t

\* Every event is on the agenda at most once and none is behind a later one:
\* what EventQueue::debugVerify looks for.
AgendaSorted == Sorted(agenda, when)

\* No event is ever left behind in the past, whatever is squashed,
\* descheduled or moved: doSimLoop's assertion "event scheduled in the past".
NothingInThePast == NoneBefore(agenda, when, curTick)

\* Simulated time never runs backwards (setCurTick in serviceOne).
TimeForward == [][curTick' >= curTick]_vars
=============================================================================
