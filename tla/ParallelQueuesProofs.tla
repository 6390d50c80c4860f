----------------------- MODULE ParallelQueuesProofs -----------------------
(***************************************************************************)
(* The barrier protocol of the parallel simulation, for any number of      *)
(* threads, whatever their queues hold: a global event is processed by one *)
(* thread while the others stand still, and no thread simulates while the  *)
(* script has control.                                                     *)
(***************************************************************************)
EXTENDS ParallelQueues, FiniteSetTheorems, TLAPS

Places == {"python", "entry", "enter", "drain", "loop", "first",
           "process", "processed", "second", "after"}

\* Thread t is in Barrier::wait of b.
At(t, b) ==
    IF b = "thread" THEN pc[t] = "enter"
    ELSE pc[t] \in {"first", "second"} /\ current[t] = b

Waiting(b) == {t \in Threads : At(t, b) /\ gen[t] = generation[b]}

PlacesOK ==
    /\ pc \in [Threads -> Places] /\ current \in [Threads -> Globals]
    /\ numLeft \in [Barriers -> Int] /\ generation \in [Barriers -> Nat]
    /\ gen \in [Threads -> Nat]
    /\ \A t \in Threads : pc[t] = "python" => t = 1

\* A barrier counts the threads that wait at it.
CountsOK ==
    /\ \A b \in Barriers : numLeft[b] = N - Cardinality(Waiting(b))
    /\ \A t \in Threads, b \in Barriers : At(t, b) => gen[t] <= generation[b]

\* Thread t is between the two barriers of its global event.
Between(t) ==
    \/ pc[t] \in {"process", "processed"}
    \/ pc[t] = "first" /\ Released(t, current[t])
    \/ pc[t] = "second" /\ ~Released(t, current[t])

\* Thread t is on its way out of the loop, or not yet back in it.
Away(t) ==
    \/ pc[t] \in {"python", "entry"}
    \/ pc[t] = "enter" /\ ~Released(t, "thread")
    \/ /\ pc[t] = "after" \/ (pc[t] = "second" /\ Released(t, current[t]))
       /\ isExitEvent(current[t])

\* All threads are between the barriers, of the same event, or none is; all
\* are away or none is; and one at most processes.
TogetherOK ==
    \A t, u \in Threads :
        /\ Between(t) => Between(u) /\ current[u] = current[t]
        /\ Away(t) => Away(u)
        /\ {pc[t], pc[u]} \subseteq {"process", "processed"} => t = u

BarrierInv == PlacesOK /\ CountsOK /\ TogetherOK

-----------------------------------------------------------------------------
\* There are N threads.
LEMMA ThreadsFinite ==
    /\ N \in Nat \ {0} /\ 1 \in Threads
    /\ IsFiniteSet(Threads) /\ Cardinality(Threads) = N
<1>1. N \in Nat \ {0}
  BY ParallelAssumption
<1>2. IsFiniteSet(Threads) /\ Cardinality(Threads) = N
  BY <1>1, FS_Interval, SMTT(30) DEF Threads
<1>3. QED
  BY <1>1, <1>2 DEF Threads

\* The threads that wait at a barrier can be counted.
LEMMA WaitingFinite ==
    ASSUME NEW S \in SUBSET Threads
    PROVE  IsFiniteSet(S) /\ Cardinality(S) \in Nat
BY ThreadsFinite, FS_Subset, FS_CardinalityType, SMTT(30)

\* One more waits: the count goes up by one; when it was one short, all wait.
LEMMA OneMore ==
    ASSUME NEW S \in SUBSET Threads, NEW t \in Threads \ S
    PROVE  /\ Cardinality(S \cup {t}) = Cardinality(S) + 1
           /\ N - Cardinality(S) = 1 => S = Threads \ {t}
<1>1. IsFiniteSet(S) /\ Cardinality(S) \in Nat
  BY WaitingFinite
<1>2. Cardinality(S \cup {t}) = Cardinality(S) + 1
  BY <1>1, FS_AddElement, ZenonT(30)
<1>3. ASSUME N - Cardinality(S) = 1 PROVE S = Threads \ {t}
  <2>1. S \cup {t} \subseteq Threads /\ Cardinality(S \cup {t}) = Cardinality(Threads)
    BY <1>1, <1>2, <1>3, ThreadsFinite, SMTT(30)
  <2>2. S \cup {t} = Threads
    BY <2>1, ThreadsFinite, FS_Subset, SMTT(30)
  <2>3. QED
    BY <2>2
<1>4. QED
  BY <1>2, <1>3

\* Thread t arrives at b from a place where it does not wait.  Unless it is
\* the last, it is counted and nothing else changes; if it is, all the others
\* wait at b, and none of them does any longer.
LEMMA Arrives ==
    ASSUME PlacesOK, CountsOK, NEW t \in Threads, NEW b \in Barriers,
           NEW blocked \in Places \ {"python"}, NEW last \in Places \ {"python"},
           Arrive(t, b, blocked, last), current' \in [Threads -> Globals],
           \A u \in Threads \ {t} : current'[u] = current[u],
           \A c \in Barriers : t \notin Waiting(c),
           pc'[t] = blocked => \A c \in Barriers : At(t, c)' <=> c = b,
           pc'[t] = last => \A c \in Barriers : ~At(t, c)'
    PROVE  /\ PlacesOK' /\ CountsOK'
           /\ \A u \in Threads \ {t} : pc'[u] = pc[u] /\ gen'[u] = gen[u]
           /\ gen'[t] = generation[b]
           /\ \/ pc'[t] = blocked /\ generation' = generation
              \/ /\ pc'[t] = last /\ Waiting(b) = Threads \ {t}
                 /\ generation' = [generation EXCEPT ![b] = generation[b] + 1]
<1>0. /\ pc \in [Threads -> Places] /\ gen \in [Threads -> Nat]
      /\ numLeft \in [Barriers -> Int] /\ generation \in [Barriers -> Nat]
  BY DEF PlacesOK
<1>1. /\ \A u \in Threads \ {t} : pc'[u] = pc[u] /\ gen'[u] = gen[u]
      /\ gen'[t] = generation[b] /\ gen' \in [Threads -> Nat]
      /\ pc' \in [Threads -> Places] /\ pc'[t] \in {blocked, last}
  BY <1>0 DEF Arrive
<1>2. \A u \in Threads \ {t}, c \in Barriers : At(u, c)' <=> At(u, c)
  BY <1>1 DEF At
<1>3. \A u \in Threads, c \in Barriers : At(u, c) => gen[u] <= generation[c]
  BY DEF CountsOK
<1>4. CASE numLeft[b] # 1
  <2>1. /\ numLeft' = [numLeft EXCEPT ![b] = numLeft[b] - 1]
        /\ pc'[t] = blocked /\ generation' = generation
    BY <1>0, <1>4 DEF Arrive
  <2>2. Waiting(b)' = Waiting(b) \cup {t}
    BY <1>1, <1>2, <2>1, ZenonT(30) DEF Waiting
  <2>3. \A c \in Barriers \ {b} : Waiting(c)' = Waiting(c)
    BY <1>1, <1>2, <2>1, SMTT(30) DEF Waiting
  <2>4. Cardinality(Waiting(b)') = Cardinality(Waiting(b)) + 1
        /\ Cardinality(Waiting(b)) \in Nat
    <3>1. Waiting(b) \in SUBSET Threads /\ t \in Threads \ Waiting(b)
      BY DEF Waiting
    <3>2. QED
      BY <2>2, <3>1, OneMore, WaitingFinite, SMTT(30)
  <2>5. \A c \in Barriers : numLeft'[c] = N - Cardinality(Waiting(c)')
    <3>1. TAKE c \in Barriers
    <3>2. numLeft[c] = N - Cardinality(Waiting(c)) /\ numLeft[c] \in Int /\ N \in Nat
      BY <1>0, ThreadsFinite, SMTT(30) DEF CountsOK
    <3>3. CASE c = b
      BY <1>0, <2>1, <2>4, <3>2, <3>3, SMTT(30)
    <3>4. CASE c # b
      BY <1>0, <2>1, <2>3, <3>2, <3>4, SMTT(30)
    <3>5. QED
      BY <3>3, <3>4, SMTT(30)
  <2>6. \A u \in Threads, c \in Barriers : At(u, c)' => gen'[u] <= generation'[c]
    BY <1>0, <1>1, <1>2, <1>3, <2>1, SMTT(30)
  <2>7. PlacesOK'
    BY <1>0, <1>1, <2>1, SMTT(30) DEF PlacesOK
  <2>8. QED
    BY <1>1, <2>1, <2>5, <2>6, <2>7, SMTT(30) DEF CountsOK
<1>5. CASE numLeft[b] = 1
  <2>1. /\ numLeft' = [numLeft EXCEPT ![b] = N] /\ pc'[t] = last
        /\ generation' = [generation EXCEPT ![b] = generation[b] + 1]
    BY <1>0, <1>5, SMTT(30) DEF Arrive
  <2>2. Waiting(b) = Threads \ {t}
    <3>1. Waiting(b) \in SUBSET Threads /\ t \in Threads \ Waiting(b)
      BY DEF Waiting
    <3>2. N - Cardinality(Waiting(b)) = 1
      BY <1>5, SMTT(30) DEF CountsOK
    <3>3. QED
      BY <3>1, <3>2, OneMore, ZenonT(30)
  <2>3. Waiting(b)' = {}
    <3>1. ASSUME NEW u \in Threads PROVE ~(At(u, b)' /\ gen'[u] = generation'[b])
      <4>1. generation'[b] = generation[b] + 1 /\ generation[b] \in Nat
        BY <1>0, <2>1, SMTT(30)
      <4>2. CASE u = t
        BY <2>1, <4>2, SMTT(30)
      <4>3. CASE u # t
        BY <1>0, <1>1, <1>2, <1>3, <4>1, <4>3, SMTT(30)
      <4>4. QED
        BY <4>2, <4>3, SMTT(30)
    <3>2. QED
      BY <3>1, SMTT(30) DEF Waiting
  <2>4. \A c \in Barriers \ {b} : Waiting(c)' = Waiting(c)
    BY <1>0, <1>1, <1>2, <2>1, SMTT(30) DEF Waiting
  <2>5. \A c \in Barriers : numLeft'[c] = N - Cardinality(Waiting(c)')
    <3>1. TAKE c \in Barriers
    <3>2. CASE c = b
      <4>1. Cardinality({}) = 0
        BY FS_EmptySet, SMTT(30)
      <4>2. Waiting(c)' = {} /\ numLeft'[c] = N
        BY <1>0, <2>1, <2>3, <3>2, SMTT(30)
      <4>3. QED
        BY <4>1, <4>2, ThreadsFinite, SMTT(30)
    <3>3. CASE c # b
      BY <1>0, <2>1, <2>4, <3>3, SMTT(30) DEF CountsOK
    <3>4. QED
      BY <3>2, <3>3
  <2>6. \A u \in Threads, c \in Barriers : At(u, c)' => gen'[u] <= generation'[c]
    <3>1. TAKE u \in Threads, c \in Barriers
    <3>2. generation[c] \in Nat /\ generation'[c] >= generation[c]
      BY <1>0, <2>1, SMTT(30)
    <3>3. CASE u = t
      BY <2>1, <3>3, SMTT(30)
    <3>4. CASE u # t
      <4>1. At(u, c)' => gen'[u] <= generation[c] /\ gen'[u] \in Nat
        BY <1>0, <1>1, <1>2, <1>3, <3>4, SMTT(30)
      <4>2. generation'[c] \in Nat
        BY <1>0, <2>1, SMTT(30)
      <4>3. QED
        BY <3>2, <4>1, <4>2, SMTT(30)
    <3>5. QED
      BY <3>3, <3>4, SMTT(30)
  <2>7. PlacesOK'
    BY <1>0, <1>1, <2>1, ThreadsFinite, SMTT(30) DEF PlacesOK
  <2>8. QED
    BY <1>1, <2>1, <2>2, <2>5, <2>6, <2>7, SMTT(30) DEF CountsOK
<1>6. QED
  BY <1>4, <1>5, ZenonT(30)

-----------------------------------------------------------------------------
\* Where a thread may wait is outside the loop, at the first barrier or at the
\* second; the two groups of TogetherOK exclude one another.
LEMMA Disjoint ==
    ASSUME NEW t \in Threads
    PROVE  /\ Between(t) => ~Away(t)
           /\ pc[t] \in {"drain", "loop"} => ~Between(t) /\ ~Away(t)
           /\ pc[t] = "enter" /\ Released(t, "thread") => ~Between(t) /\ ~Away(t)
BY DEF Between, Away

\* Every global event has a barrier of its own, and the quantum is not an exit.
LEMMA GlobalBarrier ==
    /\ "thread" \in Barriers /\ "thread" \notin Globals
    /\ \A g \in Globals : g \in Barriers /\ g # "thread"
    /\ "sync" \in Globals /\ ~isExitEvent("sync")
BY ParallelAssumption DEF Barriers, Globals, Requests, isExitEvent

\* A thread arrives at the barrier in front of the simulation loop; the last one
\* releases all of them.
LEMMA ThreadBarrierStep ==
    ASSUME BarrierInv, NEW t \in Threads, threadBarrier(t)
    PROVE  BarrierInv'
<1>1. /\ pc[t] = "entry" /\ Arrive(t, "thread", "enter", "drain") /\ current' = current
  BY DEF threadBarrier
<1>2. Away(t) /\ \A c \in Barriers : t \notin Waiting(c)
  BY <1>1, SMTT(30) DEF Away, Waiting, At
<1>3. \A u \in Threads : Away(u) /\ ~Between(u)
  BY <1>2, Disjoint, SMTT(30) DEF BarrierInv, TogetherOK
<1>4. /\ PlacesOK' /\ CountsOK'
      /\ \A u \in Threads \ {t} : pc'[u] = pc[u] /\ gen'[u] = gen[u]
      /\ gen'[t] = generation["thread"]
      /\ \/ pc'[t] = "enter" /\ generation' = generation
         \/ /\ pc'[t] = "drain" /\ Waiting("thread") = Threads \ {t}
            /\ generation' = [generation EXCEPT !["thread"] = generation["thread"] + 1]
  <2>1. "thread" \in Barriers /\ "enter" \in Places \ {"python"}
        /\ "drain" \in Places \ {"python"}
    BY GlobalBarrier, SMTT(30) DEF Places
  <2>2. pc'[t] = "enter" => \A c \in Barriers : At(t, c)' <=> c = "thread"
    BY <1>1, SMTT(30) DEF At
  <2>3. pc'[t] = "drain" => \A c \in Barriers : ~At(t, c)'
    BY <1>1, SMTT(30) DEF At
  <2>4. PlacesOK /\ CountsOK /\ current' \in [Threads -> Globals]
        /\ \A u \in Threads \ {t} : current'[u] = current[u]
    BY <1>1, SMTT(30) DEF BarrierInv, PlacesOK
  <2>5. QED
    BY <1>1, <1>2, <2>1, <2>2, <2>3, <2>4, Arrives, SMTT(30)
<1>5. CASE pc'[t] = "enter" /\ generation' = generation
  <2>1. \A u \in Threads : Away(u)' /\ ~Between(u)'
    BY <1>1, <1>3, <1>4, <1>5, SMTT(30) DEF Away, Between, Released, isExitEvent
  <2>2. \A u \in Threads : pc'[u] \notin {"process", "processed"}
    BY <2>1 DEF Between
  <2>3. QED
    BY <1>4, <2>1, <2>2, SMTT(30) DEF BarrierInv, TogetherOK
<1>6. CASE /\ pc'[t] = "drain" /\ Waiting("thread") = Threads \ {t}
           /\ generation' = [generation EXCEPT !["thread"] = generation["thread"] + 1]
  <2>1. generation'["thread"] = generation["thread"] + 1 /\ generation["thread"] \in Nat
    BY <1>6, GlobalBarrier, SMTT(30) DEF BarrierInv, PlacesOK
  <2>2. \A u \in Threads \ {t} : pc[u] = "enter" /\ gen[u] = generation["thread"]
    BY <1>6, SMTT(30) DEF Waiting, At
  <2>3. \A u \in Threads : pc'[u] = "drain" \/ (pc'[u] = "enter" /\ Released(u, "thread")')
    BY <1>4, <1>6, <2>1, <2>2, SMTT(30) DEF Released
  <2>4. \A u \in Threads : ~Away(u)' /\ ~Between(u)'
    BY <2>3, SMTT(30) DEF Away, Between
  <2>5. \A u \in Threads : pc'[u] \notin {"process", "processed"}
    BY <2>4, SMTT(30) DEF Between
  <2>6. QED
    BY <1>4, <2>4, <2>5, ZenonT(30) DEF BarrierInv, TogetherOK
<1>7. QED
  BY <1>4, <1>5, <1>6, ZenonT(30)

\* A thread arrives at the first barrier of a global event; the last one is the
\* one that processes it.
LEMMA ServiceGlobalStep ==
    ASSUME BarrierInv, NEW t \in Threads, serviceGlobal(t)
    PROVE  BarrierInv'
<1> DEFINE g == Head(queue[t]).ev
<1>1. /\ pc[t] = "loop" /\ g \in Globals /\ Arrive(t, g, "first", "process")
      /\ current' = [current EXCEPT ![t] = g]
  BY DEF serviceGlobal
<1> HIDE DEF g
<1>2. \A c \in Barriers : t \notin Waiting(c)
  BY <1>1, SMTT(30) DEF Waiting, At
<1>3. \A u \in Threads : ~Away(u) /\ ~Between(u)
  BY <1>1, Disjoint, SMTT(30) DEF BarrierInv, TogetherOK
<1>4. /\ current' \in [Threads -> Globals] /\ current'[t] = g
      /\ \A u \in Threads \ {t} : current'[u] = current[u]
  BY <1>1, SMTT(30) DEF BarrierInv, PlacesOK
<1>5. /\ PlacesOK' /\ CountsOK'
      /\ \A u \in Threads \ {t} : pc'[u] = pc[u] /\ gen'[u] = gen[u]
      /\ gen'[t] = generation[g]
      /\ \/ pc'[t] = "first" /\ generation' = generation
         \/ /\ pc'[t] = "process" /\ Waiting(g) = Threads \ {t}
            /\ generation' = [generation EXCEPT ![g] = generation[g] + 1]
  <2>1. g \in Barriers /\ g # "thread" /\ "first" \in Places \ {"python"}
        /\ "process" \in Places \ {"python"}
    BY <1>1, GlobalBarrier, SMTT(30) DEF Places
  <2>2. pc'[t] = "first" => \A c \in Barriers : At(t, c)' <=> c = g
    BY <1>4, <2>1, SMTT(30) DEF At
  <2>3. pc'[t] = "process" => \A c \in Barriers : ~At(t, c)'
    BY DEF At
  <2>4. PlacesOK /\ CountsOK
    BY SMTT(30) DEF BarrierInv
  <2>5. QED
    BY <1>1, <1>2, <1>4, <2>1, <2>2, <2>3, <2>4, Arrives, SMTT(30)
<1>6. CASE pc'[t] = "first" /\ generation' = generation
  <2>1. \A u \in Threads : ~Away(u)' /\ ~Between(u)'
    BY <1>3, <1>4, <1>5, <1>6, SMTT(30) DEF Away, Between, Released, isExitEvent
  <2>2. \A u \in Threads : pc'[u] \notin {"process", "processed"}
    BY <2>1 DEF Between
  <2>3. QED
    BY <1>5, <2>1, <2>2, SMTT(30) DEF BarrierInv, TogetherOK
<1>7. CASE /\ pc'[t] = "process" /\ Waiting(g) = Threads \ {t}
           /\ generation' = [generation EXCEPT ![g] = generation[g] + 1]
  <2>1. g # "thread" /\ generation'[g] = generation[g] + 1 /\ generation[g] \in Nat
    BY <1>1, <1>7, GlobalBarrier, ZenonT(30) DEF BarrierInv, PlacesOK
  <2>2. \A u \in Threads \ {t} : /\ pc[u] \in {"first", "second"} /\ current[u] = g
                                 /\ gen[u] = generation[g]
    BY <1>7, <2>1, SMTT(30) DEF Waiting, At
  <2>3. \A u \in Threads \ {t} : pc[u] = "first"
    BY <1>3, <2>2, SMTT(30) DEF Between, Released
  <2>4. \A u \in Threads \ {t} : pc'[u] = "first" /\ Released(u, current[u])'
    BY <1>4, <1>5, <2>1, <2>2, <2>3, SMTT(30) DEF Released
  <2>5. \A u \in Threads : Between(u)' /\ current'[u] = g /\ ~Away(u)'
    BY <1>4, <1>7, <2>2, <2>4, SMTT(30) DEF Between, Away
  <2>6. \A u \in Threads : pc'[u] \in {"process", "processed"} => u = t
    BY <2>4, SMTT(30)
  <2>7. QED
    BY <1>5, <2>5, <2>6, ZenonT(30) DEF BarrierInv, TogetherOK
<1>8. QED
  BY <1>5, <1>6, <1>7, SMTT(30)

\* A thread arrives at the second barrier; the last one ends the event.
LEMMA SecondBarrierStep ==
    ASSUME BarrierInv, NEW t \in Threads, secondBarrier(t)
    PROVE  BarrierInv'
<1> DEFINE g == current[t]
<1>1. /\ pc[t] = "processed" \/ (pc[t] = "first" /\ Released(t, g))
      /\ Arrive(t, g, "second", "after") /\ current' = current
  BY DEF secondBarrier
<1>2. g \in Globals /\ g \in Barriers /\ g # "thread"
  BY GlobalBarrier, SMTT(30) DEF BarrierInv, PlacesOK
<1>3. \A c \in Barriers : t \notin Waiting(c)
  BY <1>1, SMTT(30) DEF Waiting, At, Released
<1>4. Between(t)
  BY <1>1, SMTT(30) DEF Between
<1>5. \A u \in Threads : Between(u) /\ current[u] = g
  BY <1>4, SMTT(30) DEF BarrierInv, TogetherOK
<1>6. current' \in [Threads -> Globals] /\ \A u \in Threads : current'[u] = g
  BY <1>1, <1>5, SMTT(30) DEF BarrierInv, PlacesOK
<1> HIDE DEF g
<1>7. /\ PlacesOK' /\ CountsOK'
      /\ \A u \in Threads \ {t} : pc'[u] = pc[u] /\ gen'[u] = gen[u]
      /\ gen'[t] = generation[g]
      /\ \/ pc'[t] = "second" /\ generation' = generation
         \/ /\ pc'[t] = "after" /\ Waiting(g) = Threads \ {t}
            /\ generation' = [generation EXCEPT ![g] = generation[g] + 1]
  <2>1. "second" \in Places \ {"python"} /\ "after" \in Places \ {"python"}
    BY DEF Places
  <2>2. pc'[t] = "second" => \A c \in Barriers : At(t, c)' <=> c = g
    BY <1>2, <1>6, SMTT(30) DEF At
  <2>3. pc'[t] = "after" => \A c \in Barriers : ~At(t, c)'
    BY DEF At
  <2>4. PlacesOK /\ CountsOK /\ \A u \in Threads \ {t} : current'[u] = current[u]
    BY <1>1, SMTT(30) DEF BarrierInv
  <2>5. QED
    BY <1>1, <1>2, <1>3, <1>6, <2>1, <2>2, <2>3, <2>4, Arrives, SMTT(30)
<1>8. CASE pc'[t] = "second" /\ generation' = generation
  <2>1. \A u \in Threads : Between(u)'
    BY <1>5, <1>6, <1>7, <1>8, SMTT(30) DEF Between, Released
  <2>2. \A u \in Threads : ~Away(u)'
    BY <2>1, SMTT(30) DEF Between, Away
  <2>3. \A u \in Threads : pc'[u] \in {"process", "processed"} => u # t /\ pc[u] = pc'[u]
    BY <1>7, <1>8, SMTT(30)
  <2>4. QED
    BY <1>6, <1>7, <2>1, <2>2, <2>3, SMTT(30) DEF BarrierInv, TogetherOK
<1>9. CASE /\ pc'[t] = "after" /\ Waiting(g) = Threads \ {t}
           /\ generation' = [generation EXCEPT ![g] = generation[g] + 1]
  <2>1. generation'[g] = generation[g] + 1 /\ generation[g] \in Nat
    BY <1>2, <1>9, SMTT(30) DEF BarrierInv, PlacesOK
  <2>2. \A u \in Threads \ {t} : pc[u] \in {"first", "second"} /\ gen[u] = generation[g]
    BY <1>2, <1>9, SMTT(30) DEF Waiting, At
  <2>3. \A u \in Threads \ {t} : pc[u] = "second"
    BY <1>5, <2>2, SMTT(30) DEF Between, Released
  <2>4. \A u \in Threads : pc'[u] = "after" \/ (pc'[u] = "second" /\ Released(u, current[u])')
    BY <1>6, <1>7, <1>9, <2>1, <2>2, <2>3, SMTT(30) DEF Released
  <2>5. \A u \in Threads : ~Between(u)' /\ (Away(u)' <=> isExitEvent(g))
    BY <1>6, <2>4, SMTT(30) DEF Between, Away, isExitEvent
  <2>6. \A u \in Threads : pc'[u] \notin {"process", "processed"}
    BY <2>4, SMTT(30)
  <2>7. QED
    BY <1>7, <2>5, <2>6, ZenonT(30) DEF BarrierInv, TogetherOK
<1>10. QED
  BY <1>7, <1>8, <1>9, ZenonT(30)

\* A thread that moves on without touching a barrier.
LEMMA MovesOn ==
    ASSUME BarrierInv, NEW t \in Threads, NEW p \in Places,
           p \in {"python", "entry", "drain", "loop", "processed"}, p = "python" => t = 1,
           \A c \in Barriers : t \notin Waiting(c),
           pc' = [pc EXCEPT ![t] = p], UNCHANGED <<current, numLeft, generation, gen>>
    PROVE  /\ PlacesOK' /\ CountsOK' /\ pc'[t] = p
           /\ \A u \in Threads \ {t} : /\ pc'[u] = pc[u]
                                       /\ Between(u)' <=> Between(u)
                                       /\ Away(u)' <=> Away(u)
<1>1. pc' \in [Threads -> Places] /\ pc'[t] = p
      /\ \A u \in Threads \ {t} : pc'[u] = pc[u]
  BY DEF BarrierInv, PlacesOK
<1>2. \A u \in Threads \ {t} : \A c \in Barriers : At(u, c)' <=> At(u, c)
  BY <1>1 DEF At
<1>3. \A c \in Barriers : ~At(t, c)'
  BY <1>1, SMTT(30) DEF At
<1>4. \A c \in Barriers : Waiting(c)' = Waiting(c)
  BY <1>2, <1>3, SMTT(30) DEF Waiting
<1>5. PlacesOK'
  BY <1>1, SMTT(30) DEF BarrierInv, PlacesOK
<1>6. CountsOK'
  BY <1>2, <1>3, <1>4, SMTT(30) DEF BarrierInv, CountsOK
<1>7. \A u \in Threads \ {t} : (Between(u)' <=> Between(u)) /\ (Away(u)' <=> Away(u))
  BY <1>1, SMTT(30) DEF Between, Away, Released, isExitEvent
<1>8. QED
  BY <1>1, <1>5, <1>6, <1>7, SMTT(30)

\* A released thread enters its loop.
LEMMA EnterStep ==
    ASSUME BarrierInv, NEW t \in Threads, Enter(t) \/ Drain(t)
    PROVE  BarrierInv'
<1> DEFINE p == IF Enter(t) THEN "drain" ELSE "loop"
<1>1. /\ pc[t] = "drain" \/ (pc[t] = "enter" /\ Released(t, "thread"))
      /\ pc' = [pc EXCEPT ![t] = p] /\ UNCHANGED <<current, numLeft, generation, gen>>
  BY DEF Enter, Drain
<1>2. p \in {"drain", "loop"} /\ p \in Places
  BY SMTT(30) DEF Places
<1>3. \A c \in Barriers : t \notin Waiting(c)
  BY <1>1, SMTT(30) DEF Waiting, At, Released
<1> HIDE DEF p
<1>4. \A u \in Threads : ~Away(u) /\ ~Between(u)
  BY <1>1, Disjoint, SMTT(30) DEF BarrierInv, TogetherOK
<1>5. /\ PlacesOK' /\ CountsOK' /\ pc'[t] = p
      /\ \A u \in Threads \ {t} : /\ pc'[u] = pc[u]
                                  /\ Between(u)' <=> Between(u)
                                  /\ Away(u)' <=> Away(u)
  BY <1>1, <1>2, <1>3, MovesOn, ZenonT(30)
<1>6. ~Between(t)' /\ ~Away(t)'
  BY <1>2, <1>5, ZenonT(30) DEF Between, Away
<1>7. \A u \in Threads : ~Between(u)' /\ ~Away(u)'
  BY <1>4, <1>5, <1>6, ZenonT(30)
<1>8. \A u \in Threads : pc'[u] \notin {"process", "processed"}
  BY <1>7, SMTT(30) DEF Between
<1>9. QED
  BY <1>5, <1>7, <1>8, SMTT(30) DEF BarrierInv, TogetherOK

\* The one thread that processes the event moves on to the second barrier.
LEMMA ProcessStep ==
    ASSUME BarrierInv, NEW t \in Threads, process(t)
    PROVE  BarrierInv'
<1>1. /\ pc[t] = "process" /\ pc' = [pc EXCEPT ![t] = "processed"]
      /\ UNCHANGED <<current, numLeft, generation, gen>>
  BY DEF process
<1>2. \A c \in Barriers : t \notin Waiting(c)
  BY <1>1, SMTT(30) DEF Waiting, At
<1>3. Between(t) /\ "processed" \in Places
  BY <1>1, SMTT(30) DEF Between, Places
<1>4. \A u \in Threads : Between(u) /\ ~Away(u) /\ current[u] = current[t]
  BY <1>3, Disjoint, SMTT(30) DEF BarrierInv, TogetherOK
<1>5. /\ PlacesOK' /\ CountsOK' /\ pc'[t] = "processed"
      /\ \A u \in Threads \ {t} : /\ pc'[u] = pc[u]
                                  /\ Between(u)' <=> Between(u)
                                  /\ Away(u)' <=> Away(u)
  BY <1>1, <1>2, <1>3, MovesOn, ZenonT(30)
<1>6. \A u \in Threads : Between(u)' /\ ~Away(u)' /\ current'[u] = current[t]
  BY <1>1, <1>4, <1>5, SMTT(30) DEF Between, Away
<1>7. \A u \in Threads : pc'[u] \in {"process", "processed"} => u = t
  BY <1>1, <1>5, SMTT(30) DEF BarrierInv, TogetherOK
<1>8. QED
  BY <1>5, <1>6, <1>7, SMTT(30) DEF BarrierInv, TogetherOK

\* A released thread goes back to its loop, or out of it after an exit event.
LEMMA FinishStep ==
    ASSUME BarrierInv, NEW t \in Threads, finish(t)
    PROVE  BarrierInv'
<1> DEFINE p == IF isExitEvent(current[t]) THEN IF t = 1 THEN "python" ELSE "entry" ELSE "loop"
<1>1. /\ pc[t] = "after" \/ (pc[t] = "second" /\ Released(t, current[t]))
      /\ pc' = [pc EXCEPT ![t] = p] /\ UNCHANGED <<current, numLeft, generation, gen>>
  BY GlobalBarrier DEF finish
<1>2. p \in {"python", "entry", "loop"} /\ p \in Places /\ (p = "python" => t = 1)
      /\ (p = "loop" <=> ~isExitEvent(current[t]))
  BY DEF Places
<1>3. \A c \in Barriers : t \notin Waiting(c)
  BY <1>1, SMTT(30) DEF Waiting, At, Released
<1> HIDE DEF p
<1>4. ~Between(t) /\ (Away(t) <=> isExitEvent(current[t]))
  BY <1>1, SMTT(30) DEF Between, Away
<1>5. \A u \in Threads : ~Between(u) /\ (Away(u) <=> isExitEvent(current[t]))
  BY <1>4 DEF BarrierInv, TogetherOK
<1>6. /\ PlacesOK' /\ CountsOK' /\ pc'[t] = p
      /\ \A u \in Threads \ {t} : /\ pc'[u] = pc[u]
                                  /\ Between(u)' <=> Between(u)
                                  /\ Away(u)' <=> Away(u)
  BY <1>1, <1>2, <1>3, MovesOn, ZenonT(30)
<1>7. ~Between(t)' /\ (Away(t)' <=> isExitEvent(current[t]))
  BY <1>2, <1>6, ZenonT(30) DEF Between, Away
<1>8. \A u \in Threads : ~Between(u)' /\ (Away(u)' <=> isExitEvent(current[t]))
  BY <1>5, <1>6, <1>7, SMTT(30)
<1>9. \A u \in Threads : pc'[u] \notin {"process", "processed"}
  BY <1>8, SMTT(30) DEF Between
<1>10. QED
  BY <1>6, <1>8, <1>9, SMTT(30) DEF BarrierInv, TogetherOK

\* simulate() sets up a new quantum event while nobody is in the old one.
LEMMA SimulateStep ==
    ASSUME BarrierInv, NEW n \in NumCycles, simulate(n)
    PROVE  BarrierInv'
<1>1. /\ pc[1] = "python" /\ pc' = [pc EXCEPT ![1] = "entry"]
      /\ numLeft' = [numLeft EXCEPT !["sync"] = N]
      /\ generation' = [generation EXCEPT !["sync"] = 0]
      /\ current' = current /\ gen' = gen
  BY DEF simulate
<1>2. 1 \in Threads /\ "sync" \in Barriers /\ "sync" # "thread" /\ N \in Nat
  BY ThreadsFinite, GlobalBarrier, SMTT(30)
<1>3. /\ pc \in [Threads -> Places] /\ numLeft \in [Barriers -> Int]
      /\ generation \in [Barriers -> Nat]
  BY DEF BarrierInv, PlacesOK
<1>4. Away(1)
  BY <1>1, SMTT(30) DEF Away
<1>5. \A u \in Threads : Away(u) /\ ~Between(u)
  BY <1>2, <1>4, Disjoint, SMTT(30) DEF BarrierInv, TogetherOK
<1>6. \A u \in Threads : ~At(u, "sync") /\ (pc[u] \in {"first", "second"} => current[u] # "sync")
  BY <1>2, <1>5, GlobalBarrier, SMTT(30) DEF Away, At
<1>7. /\ pc' \in [Threads -> Places] /\ pc'[1] = "entry"
      /\ \A u \in Threads \ {1} : pc'[u] = pc[u]
  BY <1>1, <1>2, <1>3, SMTT(30) DEF Places
<1>8. /\ generation' \in [Barriers -> Nat] /\ numLeft' \in [Barriers -> Int]
      /\ \A c \in Barriers \ {"sync"} : generation'[c] = generation[c] /\ numLeft'[c] = numLeft[c]
      /\ numLeft'["sync"] = N
  BY <1>1, <1>2, <1>3, SMTT(30)
<1>9. \A u \in Threads, c \in Barriers : At(u, c)' <=> At(u, c)
  BY <1>1, <1>7, SMTT(30) DEF At
<1>10. Waiting("sync")' = {} /\ \A c \in Barriers \ {"sync"} : Waiting(c)' = Waiting(c)
  BY <1>1, <1>2, <1>6, <1>8, <1>9, SMTT(30) DEF Waiting
<1>11. PlacesOK'
  BY <1>1, <1>7, <1>8, SMTT(30) DEF BarrierInv, PlacesOK
<1>12. CountsOK'
  <2>1. ASSUME NEW c \in Barriers PROVE numLeft'[c] = N - Cardinality(Waiting(c)')
    <3>1. CASE c = "sync"
      <4>1. Cardinality({}) = 0
        BY FS_EmptySet, SMTT(30)
      <4>2. Waiting(c)' = {} /\ numLeft'[c] = N
        BY <1>8, <1>10, <3>1, SMTT(30)
      <4>3. QED
        BY <1>2, <4>1, <4>2, SMTT(30)
    <3>2. CASE c # "sync"
      BY <1>8, <1>10, <3>2, SMTT(30) DEF BarrierInv, CountsOK
    <3>3. QED
      BY <3>1, <3>2, SMTT(30)
  <2>2. ASSUME NEW u \in Threads, NEW c \in Barriers, At(u, c)'
        PROVE  gen'[u] <= generation'[c]
    <3>1. c # "sync" /\ At(u, c)
      BY <1>6, <1>9, <2>2, ZenonT(30)
    <3>2. QED
      BY <1>1, <1>8, <3>1, SMTT(30) DEF BarrierInv, CountsOK
  <2>3. QED
    BY <2>1, <2>2, SMTT(30) DEF CountsOK
<1>13. \A u \in Threads : Away(u)' /\ ~Between(u)'
  <2>1. TAKE u \in Threads
  <2>2. CASE u = 1
    BY <1>7, <2>2, SMTT(30) DEF Away, Between
  <2>3. CASE u # 1
    <3>1. pc'[u] = pc[u] /\ current'[u] = current[u] /\ gen'[u] = gen[u]
      BY <1>1, <1>7, <2>3, ZenonT(30)
    <3>2. "thread" \in Barriers \ {"sync"} /\ current[u] \in Barriers
      BY <1>2, GlobalBarrier, SMTT(30) DEF BarrierInv, PlacesOK
    <3>3. generation'["thread"] = generation["thread"]
          /\ (pc[u] \in {"first", "second"} => generation'[current[u]] = generation[current[u]])
      BY <1>6, <1>8, <3>2, SMTT(30)
    <3>4. QED
      BY <1>5, <3>1, <3>3, SMTT(30) DEF Away, Between, Released, isExitEvent
  <2>4. QED
    BY <2>2, <2>3, SMTT(30)
<1>14. \A u \in Threads : pc'[u] \notin {"process", "processed"}
  BY <1>13, SMTT(30) DEF Between
<1>15. QED
  BY <1>11, <1>12, <1>13, <1>14, SMTT(30) DEF BarrierInv, TogetherOK

\* What happens inside the queues concerns no barrier.
LEMMA QueueStep ==
    ASSUME BarrierInv, UNCHANGED <<pc, current, numLeft, generation, gen>>
    PROVE  BarrierInv'
<1>1. \A u \in Threads, c \in Barriers : At(u, c)' <=> At(u, c)
  BY DEF At
<1>2. \A c \in Barriers : Waiting(c)' = Waiting(c)
  BY <1>1, SMTT(30) DEF Waiting
<1>3. PlacesOK' /\ CountsOK'
  BY <1>1, <1>2, SMTT(30) DEF BarrierInv, PlacesOK, CountsOK
<1>4. \A u \in Threads : (Between(u)' <=> Between(u)) /\ (Away(u)' <=> Away(u))
  BY DEF Between, Away, Released, isExitEvent
<1>5. QED
  BY <1>3, <1>4, SMTT(30) DEF BarrierInv, TogetherOK

-----------------------------------------------------------------------------
\* At first every thread is on its way to the loop and every barrier is open.
LEMMA BarrierInit == ASSUME Init PROVE BarrierInv
<1>1. /\ pc = [t \in Threads |-> IF t = 1 THEN "python" ELSE "entry"]
      /\ current = [t \in Threads |-> "limit"] /\ numLeft = [b \in Barriers |-> N]
      /\ generation = [b \in Barriers |-> 0] /\ gen = [t \in Threads |-> 0]
  BY DEF Init
<1>2. \A t \in Threads : pc[t] \in {"python", "entry"} /\ pc[t] \in Places
                         /\ (pc[t] = "python" => t = 1)
  BY <1>1 DEF Places
<1>3. PlacesOK
  <2>1. "limit" \in Globals /\ N \in Int
    BY ThreadsFinite DEF Globals
  <2>2. pc \in [Threads -> Places]
    BY <1>1 DEF Places
  <2>3. QED
    BY <1>1, <1>2, <2>1, <2>2, SMTT(30) DEF PlacesOK
<1>4. \A t \in Threads, b \in Barriers : ~At(t, b)
  BY <1>2 DEF At
<1>5. CountsOK
  <2>1. ASSUME NEW b \in Barriers PROVE numLeft[b] = N - Cardinality(Waiting(b))
    <3>1. Waiting(b) = {} /\ numLeft[b] = N
      BY <1>1, <1>4, SMTT(30) DEF Waiting
    <3>2. Cardinality({}) = 0
      BY FS_EmptySet, SMTT(30)
    <3>3. QED
      BY <3>1, <3>2, ThreadsFinite, SMTT(30)
  <2>2. QED
    BY <1>4, <2>1, SMTT(30) DEF CountsOK
<1>6. TogetherOK
  BY <1>2, SMTT(30) DEF TogetherOK, Between, Away
<1>7. QED
  BY <1>3, <1>5, <1>6, SMTT(30) DEF BarrierInv

\* Every step keeps the threads together.
LEMMA BarrierNext == ASSUME BarrierInv, [Next]_vars PROVE BarrierInv'
<1>1. ASSUME NEW n \in NumCycles, simulate(n) PROVE BarrierInv'
  BY <1>1, SimulateStep, SMTT(30)
<1>2. ASSUME NEW g \in Requests, NEW d \in {0, 1}, ScriptRequest(g, d) PROVE BarrierInv'
  BY <1>2, QueueStep, SMTT(30) DEF ScriptRequest
<1>3. ASSUME NEW t \in Threads, NEW g \in Async, Request(t, g) PROVE BarrierInv'
  BY <1>3, QueueStep, SMTT(30) DEF Request
<1>4. ASSUME NEW t \in Threads, Step(t) PROVE BarrierInv'
  <2>1. CASE threadBarrier(t)
    BY <2>1, ThreadBarrierStep, SMTT(30)
  <2>2. CASE Enter(t) \/ Drain(t)
    BY <2>2, EnterStep, SMTT(30)
  <2>3. CASE serviceLocal(t)
    BY <2>3, QueueStep, ZenonT(30) DEF serviceLocal
  <2>4. CASE serviceGlobal(t)
    BY <2>4, ServiceGlobalStep
  <2>5. CASE process(t)
    BY <2>5, ProcessStep
  <2>6. CASE secondBarrier(t)
    BY <2>6, SecondBarrierStep
  <2>7. CASE finish(t)
    BY <2>7, FinishStep
  <2>8. QED
    BY <1>4, <2>1, <2>2, <2>3, <2>4, <2>5, <2>6, <2>7, SMTT(30) DEF Step
<1>5. CASE UNCHANGED vars
  BY <1>5, QueueStep, SMTT(30) DEF vars
<1>6. QED
  BY <1>1, <1>2, <1>3, <1>4, <1>5, SMTT(30) DEF Next

\* BarrierInv is an invariant of the parallel simulation.
THEOREM BarrierCorrect == Spec => []BarrierInv
<1>1. Init => BarrierInv
  BY BarrierInit
<1>2. BarrierInv /\ [Next]_vars => BarrierInv'
  BY BarrierNext
<1>3. QED
  BY <1>1, <1>2, PTL DEF Spec

\* For any number of threads and anything in their queues, a global event is
\* processed by one thread while all others stand still in the same event.
THEOREM ProcessAloneCorrect == Spec => []ProcessAlone
<1>1. BarrierInv => ProcessAlone
  <2>1. SUFFICES ASSUME BarrierInv, NEW t \in Threads, NEW u \in Threads,
                        pc[t] = "process", u # t
                 PROVE  /\ current[u] = current[t]
                        /\ pc[u] = "first" \/ (pc[u] = "second" /\ Blocked(u))
    BY DEF ProcessAlone
  <2>2. Between(t)
    BY <2>1 DEF Between
  <2>3. Between(u) /\ current[u] = current[t] /\ pc[u] \notin {"process", "processed"}
    BY <2>1, <2>2, SMTT(30) DEF BarrierInv, TogetherOK
  <2>4. QED
    BY <2>3 DEF Between, Blocked
<1>2. QED
  BY <1>1, BarrierCorrect, PTL

\* While the script has control between two calls of simulate(), no subordinate
\* thread is in its loop, whatever ended the previous call.
THEOREM OthersWaitCorrect == Spec => []OthersWait
<1>1. BarrierInv => OthersWait
  <2>1. SUFFICES ASSUME BarrierInv, pc[1] = "python", NEW t \in Threads \ {1}
                 PROVE  \/ pc[t] = "entry" \/ (pc[t] = "enter" /\ ~Released(t, "thread"))
                        \/ pc[t] \in {"second", "after"} /\ isExitEvent(current[t])
    BY DEF OthersWait
  <2>2. Away(1) /\ 1 \in Threads
    BY <2>1, ThreadsFinite, SMTT(30) DEF Away
  <2>3. Away(t) /\ pc[t] # "python"
    BY <2>1, <2>2 DEF BarrierInv, TogetherOK, PlacesOK
  <2>4. QED
    BY <2>3 DEF Away
<1>2. QED
  BY <1>1, BarrierCorrect, PTL
=============================================================================
