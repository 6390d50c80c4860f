------------------------- MODULE MCEnergyMachines -------------------------
(* Thresholds of four frequency steps on a capacitor of fifteen levels.    *)
EXTENDS EnergyMachines

MCDown == [k \in 2 .. 5 |-> 2 * k + 1]
MCUp == [k \in 1 .. 4 |-> 2 * k + 4]
=============================================================================
