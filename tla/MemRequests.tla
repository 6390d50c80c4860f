---------------------------- MODULE MemRequests ----------------------------
(***************************************************************************)
(* What the timing path promises to those who send on it: a packet that    *)
(* was queued is completed exactly once.                                   *)
(***************************************************************************)
CONSTANT Pkt
VARIABLE outstanding

Init == outstanding = {}

Issue(p) == p \notin outstanding /\ outstanding' = outstanding \cup {p}

Complete(p) == p \in outstanding /\ outstanding' = outstanding \ {p}

Next == \E p \in Pkt : Issue(p) \/ Complete(p)

Spec ==
    /\ Init /\ [][Next]_outstanding
    /\ \A p \in Pkt : []<>(p \notin outstanding)
=============================================================================
