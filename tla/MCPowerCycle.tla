---------------------------- MODULE MCPowerCycle ----------------------------
(* Two devices, one with interruptible tasks; their delays differ, and     *)
(* most are no multiples of the clock period.                              *)
EXTENDS TaskHistory

MCDev == 1 .. N - 1
MCSet == [id \in MCDev |-> IF id = 1 THEN 3 ELSE 1]
MCSelf == [id \in MCDev |-> IF id = 1 THEN 5 ELSE 3]
MCInterrupt == [id \in MCDev |-> IF id = 1 THEN 1 ELSE 2]
MCInterruptable == [id \in MCDev |-> id = 1]
=============================================================================
