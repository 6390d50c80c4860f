----------------------------- MODULE PowerRail -----------------------------
(***************************************************************************)
(* What the energy framework promises the devices on its slave ports: a    *)
(* power rail that is first announced off and then switches between off    *)
(* and on, and that never switches again before every slave, in binding    *)
(* order, has been told of the previous switch.                            *)
(***************************************************************************)
EXTENDS Integers

CONSTANTS N,      \* number of slaves
          NoMsg   \* before the first announcement

VARIABLES rail, heard

railVars == <<rail, heard>>

Told(i) == heard[i] = rail

RailInit == /\ rail = NoMsg
            /\ heard = [i \in 1 .. N |-> NoMsg]

Switch == /\ \A i \in 1 .. N : Told(i)
          /\ rail' = IF rail = "POWER_OFF" THEN "POWER_ON" ELSE "POWER_OFF"
          /\ UNCHANGED heard

Tell(i) == /\ ~Told(i)
           /\ \A j \in 1 .. i - 1 : Told(j)
           /\ heard' = [heard EXCEPT ![i] = rail]
           /\ UNCHANGED rail

RailNext == Switch \/ \E i \in 1 .. N : Tell(i)

RailSafe == RailInit /\ [][RailNext]_railVars

RailSpec == RailSafe /\ \A i \in 1 .. N : WF_railVars(Tell(i))
=============================================================================
