-------------------------- MODULE MCEventQueueBins --------------------------
(* Four events of two priorities at three times: bins of up to three      *)
(* events, lists of up to four bins.                                       *)
EXTENDS EventQueueBins, TLC

CONSTANTS e1, e2, e3, e4

MCEvent == {e1, e2, e3, e4}
MCPriority == [e \in MCEvent |-> IF e = e4 THEN 0 ELSE 1]
MCSymmetry == Permutations({e1, e2, e3})
=============================================================================
