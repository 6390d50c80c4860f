---------------------------- MODULE MCDFSLeakage ----------------------------
(* The thresholds of MCDFSPower for DFSLeakage.                            *)
EXTENDS DFSLeakage

MCDown == [k \in 2 .. 5 |-> 2 * k + 1]
MCUp == [k \in 1 .. 4 |-> 2 * k + 4]
=============================================================================
