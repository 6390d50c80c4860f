-------------------------- MODULE EventQueueBins --------------------------
(***************************************************************************)
(* The event queue as it is built (sim/eventq.cc, sim/eventq_impl.hh): a   *)
(* list of bins linked by nextBin through their top events, each bin a     *)
(* stack linked by nextInBin.  Only the nextBin of a top event is kept up  *)
(* to date; those below it, and both links of an event that is not queued, *)
(* are stale.                                                              *)
(*                                                                         *)
(* EventQueue's agenda is kept equal to the events the links reach, so     *)
(* what EventQueue promises can be asked of the bins directly.             *)
(***************************************************************************)
EXTENDS EventQueue

CONSTANT NULL

ASSUME BinsAssumption == NULL \notin Event

VARIABLES q,          \* head, and nextBin and nextInBin of all events; NULL for none
          Scheduled,  \* the events whose flag Scheduled is set
          panicked    \* has panic("event not found!") been called?

binVars == <<q, Scheduled, panicked, vars>>

-----------------------------------------------------------------------------
SameBin(w, a, b) == w[a] = w[b] /\ priority[a] = priority[b]

\* Mutant of insertBefore: the new top of a bin keeps its stale nextBin.
KeepStaleLink(l, w, event, curr) ==
    IF curr = NULL \/ (curr # NULL /\ Before(w, event, curr))
    THEN [l EXCEPT !.nextBin[event] = curr, !.nextInBin[event] = NULL]
    ELSE [l EXCEPT !.nextBin[event] = NULL, !.nextInBin[event] = curr]

insertBefore(l, w, event, curr) ==
    IF curr = NULL \/ (curr # NULL /\ Before(w, event, curr))
    THEN [l EXCEPT !.nextBin[event] = curr, !.nextInBin[event] = NULL]
    ELSE [l EXCEPT !.nextBin[event] = l.nextBin[curr], !.nextInBin[event] = curr]

\* Mutant of LastBefore: the priority is not looked at.
LastBeforeInTime(l, w, event) ==
    LET walk[prev \in Event] ==
            LET curr == l.nextBin[prev]
            IN  IF curr # NULL /\ w[curr] < w[event] THEN walk[curr] ELSE prev
    IN  walk[l.head]

\* The loop of insert and remove: the last bin, from the head, before event's.
LastBefore(l, w, event) ==
    LET walk[prev \in Event] ==
            LET curr == l.nextBin[prev]
            IN  IF curr # NULL /\ Before(w, curr, event) THEN walk[curr] ELSE prev
    IN  walk[l.head]

insert(l, w, event) ==
    IF l.head = NULL \/ (l.head # NULL /\ ~Before(w, l.head, event))
    THEN [insertBefore(l, w, event, l.head) EXCEPT !.head = event]
    ELSE LET prev == LastBefore(l, w, event)
         IN  [insertBefore(l, w, event, l.nextBin[prev]) EXCEPT !.nextBin[prev] = event]

\* The event above event in the stack of top, NULL if it is not there.
Above(l, event, top) ==
    LET find[curr \in Event] ==
            IF l.nextInBin[curr] = event THEN curr
            ELSE IF l.nextInBin[curr] = NULL THEN NULL
            ELSE find[l.nextInBin[curr]]
    IN  find[top]

\* Mutant of removeItem: the new top of the bin is not given the link to the
\* next bin.
NoFixUp(l, event, top) ==
    LET next == l.nextInBin[top]
    IN  IF event = top
        THEN [links |-> l, top |-> IF next = NULL THEN l.nextBin[top] ELSE next]
        ELSE LET curr == Above(l, event, top)
             IN  [links |-> [l EXCEPT !.nextInBin[curr] = l.nextInBin[event]], top |-> top]

\* The links, and the top of the bin, without event.
removeItem(l, event, top) ==
    LET next == l.nextInBin[top]
    IN  IF event = top
        THEN IF next = NULL
             THEN [links |-> l, top |-> l.nextBin[top]]
             ELSE [links |-> [l EXCEPT !.nextBin[next] = l.nextBin[top]], top |-> next]
        ELSE LET curr == Above(l, event, top)
             IN  [links |-> [l EXCEPT !.nextInBin[curr] = l.nextInBin[event]], top |-> top]

\* The bin that remove searches, NULL where it would panic.
BinOf(l, w, event) ==
    IF l.head = NULL THEN NULL
    ELSE IF SameBin(w, l.head, event) THEN l.head
    ELSE LET curr == l.nextBin[LastBefore(l, w, event)]
         IN  IF curr # NULL /\ SameBin(w, curr, event) THEN curr ELSE NULL

Found(l, w, event) ==
    LET top == BinOf(l, w, event)
    IN  top # NULL /\ (event = top \/ Above(l, event, top) # NULL)

remove(l, w, event) ==
    LET top == BinOf(l, w, event)
        r == removeItem(l, event, top)
    IN  IF ~Found(l, w, event) THEN l
        ELSE IF top = l.head THEN [r.links EXCEPT !.head = r.top]
        ELSE [r.links EXCEPT !.nextBin[LastBefore(l, w, event)] = r.top]

-----------------------------------------------------------------------------
BinsInit ==
    /\ q = [head |-> NULL, nextBin |-> [e \in Event |-> NULL],
            nextInBin |-> [e \in Event |-> NULL]]
    /\ when = [e \in Event |-> 0]
    /\ Scheduled = {} /\ squashed = {}
    /\ curTick = 0 /\ panicked = FALSE
    /\ agenda = <<>>

\* Mutant of schedule: the assertion when >= getCurTick() is dropped.
scheduleInThePast(e, t) ==
    /\ e \notin Scheduled
    /\ when' = [when EXCEPT ![e] = t]
    /\ q' = insert(q, when', e)
    /\ Scheduled' = Scheduled \cup {e}
    /\ UNCHANGED <<squashed, curTick, panicked>>

schedule(e, t) ==
    /\ t >= curTick /\ e \notin Scheduled
    /\ when' = [when EXCEPT ![e] = t]
    /\ q' = insert(q, when', e)
    /\ Scheduled' = Scheduled \cup {e}
    /\ UNCHANGED <<squashed, curTick, panicked>>

deschedule(e) ==
    /\ e \in Scheduled
    /\ q' = remove(q, when, e)
    /\ panicked' = ~Found(q, when, e)
    /\ squashed' = squashed \ {e} /\ Scheduled' = Scheduled \ {e}
    /\ UNCHANGED <<when, curTick>>

\* With always set, the event need not be scheduled.
reschedule(e, t) ==
    /\ t >= curTick
    /\ when' = [when EXCEPT ![e] = t]
    /\ q' = insert(IF e \in Scheduled THEN remove(q, when, e) ELSE q, when', e)
    /\ panicked' = (e \in Scheduled /\ ~Found(q, when, e))
    /\ squashed' = squashed \ {e} /\ Scheduled' = Scheduled \cup {e}
    /\ UNCHANGED curTick

\* squash() itself has no guard; its callers hold a scheduled event.
squash(e) ==
    /\ e \in Scheduled
    /\ squashed' = squashed \cup {e}
    /\ UNCHANGED <<q, when, Scheduled, curTick, panicked>>

serviceOne ==
    /\ q.head # NULL
    /\ LET event == q.head
           next == q.nextInBin[event]
       IN  /\ Scheduled' = Scheduled \ {event}
           /\ q' = IF next # NULL
                   THEN [q EXCEPT !.nextBin[next] = q.nextBin[event], !.head = next]
                   ELSE [q EXCEPT !.head = q.nextBin[event]]
           /\ IF event \in squashed
              THEN squashed' = squashed \ {event} /\ UNCHANGED curTick
              ELSE curTick' = when[event] /\ UNCHANGED squashed
    /\ UNCHANGED <<when, panicked>>

\* The events reached through the links, bin after bin, from the top down.
Reached(l) ==
    LET bin[e \in Event] ==
            <<e>> \o (IF l.nextInBin[e] = NULL THEN <<>> ELSE bin[l.nextInBin[e]])
        from[e \in Event] ==
            bin[e] \o (IF l.nextBin[e] = NULL THEN <<>> ELSE from[l.nextBin[e]])
    IN  IF l.head = NULL THEN <<>> ELSE from[l.head]

BinsNext ==
    /\ ~panicked
    /\ \/ serviceOne
       \/ \E e \in Event : \/ deschedule(e) \/ squash(e)
                           \/ \E t \in Time : schedule(e, t) \/ reschedule(e, t)
    /\ agenda' = Reached(q')

BinsSpec == BinsInit /\ [][BinsNext]_binVars

-----------------------------------------------------------------------------
\* The linked bins are the promised agenda: no insertion or removal, in the
\* middle of a bin, at its top or at the head, loses, repeats or misplaces an
\* event, and no stale link is ever followed.
ImplementsAgenda == Spec

\* Removing a scheduled event always finds it: panic is never called.
NeverPanics == ~panicked
=============================================================================
