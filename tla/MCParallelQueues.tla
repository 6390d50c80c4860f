------------------------- MODULE MCParallelQueues -------------------------
(***************************************************************************)
(* Two event queues with an event each of their own, and one that the      *)
(* first sends to the second.                                              *)
(***************************************************************************)
EXTENDS ParallelQueues

\* own<i> lives on queue i; msg goes from queue 1 to queue 2.
MCLocal == {"own1", "own2", "msg"}
MCsrc == [own1 |-> 1, own2 |-> 2, msg |-> 1]
MCdst == [own1 |-> 1, own2 |-> 2, msg |-> 2]

\* Default_Pri, Stat_Event_Pri, Progress_Event_Pri, Sim_Exit_Pri (sim/eventq.hh)
MCpriority ==
    [e \in Events |-> CASE e \in Local -> 0 [] e \in Stats -> 90 [] e = "sync" -> 95
                        [] OTHER -> 100]
=============================================================================
