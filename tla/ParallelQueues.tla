-------------------------- MODULE ParallelQueues --------------------------
(***************************************************************************)
(* Simulation on several event queues, one thread each: simulate() and     *)
(* doSimLoop() (sim/simulate.cc), the global events that stop all threads  *)
(* at a barrier (sim/global_event.cc, base/barrier.hh), and the async      *)
(* queues through which a thread reaches the others (sim/eventq.cc).       *)
(*                                                                         *)
(* The threads run freely inside a quantum.  What one of them schedules on *)
(* another's queue, and every global event, waits in the async queue until *)
(* the owner drains it: when it enters the loop and after each quantum     *)
(* event "sync".  Each thread's steps are atomic between two accesses to   *)
(* what the threads share.  No queue changes hands (ScopedMigration), so   *)
(* the service lock of a queue is only ever taken by its own thread.       *)
(***************************************************************************)
EXTENDS Integers, FiniteSets, SequencesExt

CONSTANTS
    N,              \* numMainEventQueues; thread 1 is the main thread
    simQuantum,
    Local,          \* the objects' own events
    src, dst,       \* the thread that schedules a local event, the queue it is for
    Exits, Stats,   \* exit and statistics events that may be created
    Async,          \* those of them that the guest or a signal asks for
    Early,          \* whether it may ask while a thread has still to drain
    Repeat,         \* the periods they may have, 0 for none
    priority,       \* of all events
    NumCycles,      \* arguments of simulate()
    EndTick         \* bound: no simulate() call is told to go beyond it

Threads == 1 .. N
Requests == Exits \cup Stats
Globals == Requests \cup {"sync", "limit"}
Events == Local \cup Globals

ASSUME ParallelAssumption ==
    /\ N \in Nat \ {0, 1} /\ simQuantum \in Nat \ {0}
    /\ src \in [Local -> Threads] /\ dst \in [Local -> Threads]
    /\ priority \in [Events -> Int] /\ Repeat \subseteq Nat /\ Async \subseteq Requests /\ Early \in BOOLEAN
    /\ Exits \cap Stats = {} /\ Local \cap Globals = {} /\ "sync" \notin Requests
    /\ "limit" \notin Requests /\ "thread" \notin Globals
    /\ NumCycles \subseteq Nat /\ EndTick \in Nat

VARIABLES
    pc, curTick,
    queue, asyncQueue,   \* per thread, of [ev, when]; the former in order of service
    current,             \* the global event a thread is in
    numLeft, generation, \* the barriers: of the global events and "thread"
    gen                  \* the generation a waiting thread saw

vars == <<pc, curTick, queue, asyncQueue, current, numLeft, generation, gen>>

Barriers == Globals \cup {"thread"}

Entry == [ev : Events, when : Nat]

\* Type invariant: a barrier that nobody is short of is set for all threads again.
TypeOK ==
    /\ pc \in [Threads -> {"python", "entry", "enter", "drain", "loop", "first",
                           "process", "processed", "second", "after"}]
    /\ curTick \in [Threads -> Nat]
    /\ queue \in [Threads -> Seq(Entry)] /\ asyncQueue \in [Threads -> Seq(Entry)]
    /\ current \in [Threads -> Globals]
    /\ numLeft \in [Barriers -> 1 .. N] /\ generation \in [Barriers -> Nat]
    /\ gen \in [Threads -> Nat]

\* Mutant of QuantumEnd: every second synchronisation is left out.
DoubleQuantum(now) == now + 2 * simQuantum

\* When the quantum that starts now is over.
QuantumEnd(now) == now + simQuantum

isExitEvent(g) == g \in Exits \cup {"limit"}

-----------------------------------------------------------------------------
\* EventQueue::insert, whose bins EventQueueBins spells out.
Before(a, b) ==
    a.when < b.when \/ (a.when = b.when /\ priority[a.ev] < priority[b.ev])

insert(s, e) ==
    SelectSeq(s, LAMBDA x : Before(x, e)) \o <<e>> \o SelectSeq(s, LAMBDA x : ~Before(x, e))

remove(s, g) == SelectSeq(s, LAMBDA e : e.ev # g)

Holds(s, g) == \E i \in 1 .. Len(s) : s[i].ev = g

\* Mutant of handleAsyncInsertions: leaves everything where it is.
NothingDrained(t) == UNCHANGED <<queue, asyncQueue>>

handleAsyncInsertions(t) ==
    /\ queue' = [queue EXCEPT ![t] = FoldLeft(insert, queue[t], asyncQueue[t])]
    /\ asyncQueue' = [asyncQueue EXCEPT ![t] = <<>>]

\* Event::scheduled of the local event for thread t.
scheduled(t, e) == Holds(queue[t], e) \/ Holds(asyncQueue[t], e)

\* Mutant of scheduleGlobal: each queue moves the event a quantum ahead of its
\* own clock.
OwnClock(g, w) ==
    asyncQueue' = [t \in Threads |->
        Append(asyncQueue[t], [ev |-> g, when |-> Max({w, curTick[t] + simQuantum})])]

\* BaseGlobalEvent::schedule while the threads run.
scheduleGlobal(g, w) ==
    asyncQueue' = [t \in Threads |-> Append(asyncQueue[t], [ev |-> g, when |-> w])]

\* Mutant of Arrive: those who wait cannot tell that the last one has come.
SameGeneration(t, b, blocked, last) ==
    /\ gen' = [gen EXCEPT ![t] = generation[b]]
    /\ numLeft' = [numLeft EXCEPT ![b] = IF @ = 1 THEN N ELSE @ - 1]
    /\ pc' = [pc EXCEPT ![t] = IF numLeft[b] = 1 THEN last ELSE blocked]
    /\ UNCHANGED generation

\* Barrier::wait up to the point where it blocks: the last one passes.
Arrive(t, b, blocked, last) ==
    /\ gen' = [gen EXCEPT ![t] = generation[b]]
    /\ IF numLeft[b] = 1
       THEN /\ numLeft' = [numLeft EXCEPT ![b] = N]
            /\ generation' = [generation EXCEPT ![b] = @ + 1]
            /\ pc' = [pc EXCEPT ![t] = last]
       ELSE /\ numLeft' = [numLeft EXCEPT ![b] = @ - 1]
            /\ pc' = [pc EXCEPT ![t] = blocked]
            /\ UNCHANGED generation

Released(t, b) == gen[t] # generation[b]

Blocked(t) == pc[t] \in {"first", "second"} /\ ~Released(t, current[t])

Inside(t) == pc[t] \in {"first", "process", "processed", "second", "after"}

\* Past a quantum event or into the loop, but not yet through handleAsyncInsertions.
Behind(t) ==
    \/ pc[t] \in {"drain", "after"} \/ (pc[t] = "enter" /\ Released(t, "thread"))
    \/ (pc[t] = "second" /\ Released(t, current[t]))

\* An event object that is neither scheduled nor being processed.
Free(g) == \A t \in Threads : ~scheduled(t, g) /\ ~(Inside(t) /\ current[t] = g)

-----------------------------------------------------------------------------
\* The limit event of the first simulate() is created with the threads.
Init ==
    /\ pc = [t \in Threads |-> IF t = 1 THEN "python" ELSE "entry"]
    /\ curTick = [t \in Threads |-> 0]
    /\ \E start \in [Local -> {0, 1}] :
          queue = [t \in Threads |->
                     LET own == SetToSeq({e \in Local : src[e] = t /\ dst[e] = t})
                     IN FoldLeft(insert, <<>>,
                           [i \in 1 .. Len(own) |-> [ev |-> own[i], when |-> start[own[i]]]])]
    /\ asyncQueue = [t \in Threads |-> <<>>]
    /\ current = [t \in Threads |-> "limit"]
    /\ numLeft = [b \in Barriers |-> N]
    /\ generation = [b \in Barriers |-> 0]
    /\ gen = [t \in Threads |-> 0]

\* simulate() up to its arrival at the barrier: not in parallel mode, the limit
\* and the new quantum event go straight into the queues.
simulate(n) ==
    /\ pc[1] = "python"
    /\ curTick[1] + n <= EndTick
    /\ LET limit == [ev |-> "limit", when |-> curTick[1] + n]
           sync == [ev |-> "sync", when |-> QuantumEnd(curTick[1])]
       IN queue' = [t \in Threads |-> insert(insert(remove(queue[t], "limit"), limit), sync)]
    /\ pc' = [pc EXCEPT ![1] = "entry"]
    /\ numLeft' = [numLeft EXCEPT !["sync"] = N]
    /\ generation' = [generation EXCEPT !["sync"] = 0]
    /\ UNCHANGED <<curTick, asyncQueue, current, gen>>

\* schedStatEvent or exitSimLoop called by the script, between two runs.
ScriptRequest(g, d) ==
    /\ pc[1] = "python" /\ Free(g)
    /\ LET e == [ev |-> g, when |-> curTick[1] + d + simQuantum]
       IN queue' = [t \in Threads |-> insert(queue[t], e)]
    /\ UNCHANGED <<pc, curTick, asyncQueue, current, numLeft, generation, gen>>

\* threadBarrier->wait()
threadBarrier(t) ==
    /\ pc[t] = "entry"
    /\ Arrive(t, "thread", "enter", "drain")
    /\ UNCHANGED <<curTick, queue, asyncQueue, current>>

Enter(t) ==
    /\ pc[t] = "enter" /\ Released(t, "thread")
    /\ pc' = [pc EXCEPT ![t] = "drain"]
    /\ UNCHANGED <<curTick, queue, asyncQueue, current, numLeft, generation, gen>>

\* doSimLoop before its loop
Drain(t) ==
    /\ pc[t] = "drain"
    /\ handleAsyncInsertions(t)
    /\ pc' = [pc EXCEPT ![t] = "loop"]
    /\ UNCHANGED <<curTick, current, numLeft, generation, gen>>

\* exitSimLoop or schedStatEvent, called for a signal in doSimLoop or by an
\* object's event just served: a new global event, a quantum from now.
Request(t, g) ==
    /\ pc[t] = "loop" /\ Free(g)
    /\ Early \/ \A u \in Threads : ~Behind(u)
    /\ scheduleGlobal(g, curTick[t] + simQuantum)
    /\ UNCHANGED <<pc, curTick, queue, current, numLeft, generation, gen>>

\* Mutant of serviceLocal: an event for another queue is not a quantum ahead.
SendsTooSoon(t) ==
    /\ pc[t] = "loop" /\ Head(queue[t]).ev \in Local
    /\ LET now == Head(queue[t]).when
           rest == Tail(queue[t])
       IN
       /\ curTick' = [curTick EXCEPT ![t] = now]
       /\ queue' = [queue EXCEPT ![t] = rest]
       /\ \/ UNCHANGED asyncQueue
          \/ \E e \in Local, d \in {0, 1} :
                /\ src[e] = t /\ dst[e] # t /\ ~scheduled(dst[e], e)
                /\ asyncQueue' = [asyncQueue EXCEPT ![dst[e]] =
                                    Append(@, [ev |-> e, when |-> now + d])]
    /\ UNCHANGED <<pc, current, numLeft, generation, gen>>

\* serviceOne with a local event, whose handler may schedule another one: soon
\* on its own queue, a quantum or more ahead on another's.
serviceLocal(t) ==
    /\ pc[t] = "loop" /\ Head(queue[t]).ev \in Local
    /\ LET now == Head(queue[t]).when
           rest == Tail(queue[t])
       IN
       /\ curTick' = [curTick EXCEPT ![t] = now]
       /\ \/ queue' = [queue EXCEPT ![t] = rest] /\ UNCHANGED asyncQueue
          \/ \E e \in Local :
                /\ src[e] = t /\ dst[e] = t /\ ~Holds(rest, e)
                /\ queue' = [queue EXCEPT ![t] = insert(rest, [ev |-> e, when |-> now + 1])]
                /\ UNCHANGED asyncQueue
          \/ \E e \in Local, d \in {0, 1} :
                /\ src[e] = t /\ dst[e] # t /\ ~scheduled(dst[e], e)
                /\ queue' = [queue EXCEPT ![t] = rest]
                /\ asyncQueue' = [asyncQueue EXCEPT ![dst[e]] =
                                    Append(@, [ev |-> e, when |-> now + simQuantum + d])]
    /\ UNCHANGED <<pc, current, numLeft, generation, gen>>

\* Mutant of serviceGlobal: no thread waits before the event is processed.
EveryoneProcesses(t) ==
    /\ pc[t] = "loop" /\ Head(queue[t]).ev \in Globals
    /\ LET e == Head(queue[t])
       IN /\ curTick' = [curTick EXCEPT ![t] = e.when]
          /\ queue' = [queue EXCEPT ![t] = Tail(queue[t])]
          /\ current' = [current EXCEPT ![t] = e.ev]
          /\ Arrive(t, e.ev, "process", "process")
    /\ UNCHANGED asyncQueue

\* serviceOne with a global event: BarrierEvent::process up to the first barrier.
serviceGlobal(t) ==
    /\ pc[t] = "loop" /\ Head(queue[t]).ev \in Globals
    /\ LET e == Head(queue[t])
       IN /\ curTick' = [curTick EXCEPT ![t] = e.when]
          /\ queue' = [queue EXCEPT ![t] = Tail(queue[t])]
          /\ current' = [current EXCEPT ![t] = e.ev]
          /\ Arrive(t, e.ev, "first", "process")
    /\ UNCHANGED asyncQueue

\* process() of the global event, by the last thread at the first barrier.  A
\* periodic one schedules itself (exit) or its successor (statistics).
process(t) ==
    /\ pc[t] = "process"
    /\ \/ /\ current[t] = "sync"
          /\ scheduleGlobal("sync", QuantumEnd(curTick[t]))
       \/ \E r \in Repeat \ {0} :
             \/ /\ current[t] \in Exits
                /\ scheduleGlobal(current[t], curTick[t] + r)
             \/ /\ current[t] \in Stats
                /\ scheduleGlobal(current[t], curTick[t] + r + simQuantum)
       \/ /\ current[t] # "sync" /\ (0 \in Repeat \/ current[t] = "limit")
          /\ UNCHANGED asyncQueue
    /\ pc' = [pc EXCEPT ![t] = "processed"]
    /\ UNCHANGED <<curTick, queue, current, numLeft, generation, gen>>

\* Mutant of secondBarrier: nobody waits for the others.
NoSecondBarrier(t) ==
    /\ pc[t] = "processed" \/ (pc[t] = "first" /\ Released(t, current[t]))
    /\ pc' = [pc EXCEPT ![t] = "after"]
    /\ UNCHANGED <<curTick, queue, asyncQueue, current, numLeft, generation, gen>>

\* The second barrier of BarrierEvent::process.
secondBarrier(t) ==
    /\ pc[t] = "processed" \/ (pc[t] = "first" /\ Released(t, current[t]))
    /\ Arrive(t, current[t], "second", "after")
    /\ UNCHANGED <<curTick, queue, asyncQueue, current>>

\* The rest of BarrierEvent::process and of serviceOne, and the return from
\* doSimLoop; the main thread then takes the quantum event off all queues.
finish(t) ==
    /\ pc[t] = "after" \/ (pc[t] = "second" /\ Released(t, current[t]))
    /\ \/ /\ current[t] = "sync"
          /\ handleAsyncInsertions(t)
          /\ pc' = [pc EXCEPT ![t] = "loop"]
       \/ /\ isExitEvent(current[t])
          /\ queue' = IF t = 1 THEN [u \in Threads |-> remove(queue[u], "sync")] ELSE queue
          /\ pc' = [pc EXCEPT ![t] = IF t = 1 THEN "python" ELSE "entry"]
          /\ UNCHANGED asyncQueue
       \/ /\ current[t] # "sync" /\ ~isExitEvent(current[t])
          /\ pc' = [pc EXCEPT ![t] = "loop"]
          /\ UNCHANGED <<queue, asyncQueue>>
    /\ UNCHANGED <<curTick, current, numLeft, generation, gen>>

Step(t) ==
    \/ threadBarrier(t) \/ Enter(t) \/ Drain(t) \/ serviceLocal(t) \/ serviceGlobal(t)
    \/ process(t) \/ secondBarrier(t) \/ finish(t)

Next ==
    \/ \E n \in NumCycles : simulate(n)
    \/ \E g \in Requests, d \in {0, 1} : ScriptRequest(g, d)
    \/ \E t \in Threads, g \in Async : Request(t, g)
    \/ \E t \in Threads : Step(t)

\* Every thread runs on; nobody has to call simulate() or to ask for anything.
Spec == Init /\ [][Next]_vars /\ \A t \in Threads : WF_vars(Step(t))

-----------------------------------------------------------------------------
\* Two threads never wait for the others in different global events, which
\* would be for ever: the total order that BaseGlobalEvent::schedule is for.
NoCrossedBarriers ==
    \A t, u \in Threads :
       (Blocked(t) /\ Blocked(u)) => current[t] = current[u]

\* Nothing is scheduled in a thread's past, in its queue or still on the way to
\* it: the assertions of schedule() and doSimLoop, and the reason for which
\* async events are at least a quantum ahead.
NothingInThePast ==
    \A t \in Threads :
       /\ \A i \in 1 .. Len(queue[t]) : queue[t][i].when >= curTick[t]
       /\ \A i \in 1 .. Len(asyncQueue[t]) : asyncQueue[t][i].when >= curTick[t]

\* While a thread runs process(), the others stand still in the same event, at
\* its first barrier or already at the second: the promise of class GlobalEvent.
ProcessAlone ==
    \A t, u \in Threads :
       (pc[t] = "process" /\ u # t) =>
          /\ current[u] = current[t]
          /\ pc[u] = "first" \/ (pc[u] = "second" /\ Blocked(u))

\* The clocks of the threads are never more than a quantum apart, and while a
\* global event is processed they agree.
ClockSkew ==
    \A t, u \in Threads :
       /\ curTick[t] <= curTick[u] + simQuantum
       /\ pc[t] = "process" => curTick[u] = curTick[t]

\* When simulate() takes the quantum event off the queues it finds it in each
\* of them: one still in an async queue would be "event not found".
QuantumEventFound ==
    (isExitEvent(current[1]) /\ (pc[1] = "after" \/ (pc[1] = "second" /\ Released(1, current[1]))))
       => \A t \in Threads : Holds(queue[t], "sync") /\ ~Holds(asyncQueue[t], "sync")

\* While the script has control, no subordinate thread is in the loop: each is
\* on its way back to threadBarrier or waits there.
OthersWait ==
    pc[1] = "python" =>
       \A t \in Threads \ {1} :
          \/ pc[t] = "entry" \/ (pc[t] = "enter" /\ ~Released(t, "thread"))
          \/ pc[t] \in {"second", "after"} /\ isExitEvent(current[t])

\* simulate() returns once it was called: no thread is left behind at a barrier.
SimulateReturns == (pc[1] = "entry") ~> (pc[1] = "python")
=============================================================================
