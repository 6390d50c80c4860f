--------------------------- MODULE EnergyMachines ---------------------------
(***************************************************************************)
(* The energy manager with each of the other state machines a script can   *)
(* give it: retention (SM_Retention), frequency scaling (DFS_LRY), voltage *)
(* and frequency scaling (DVFSSM), two thresholds (TwoThresSM).  machine   *)
(* is the manager's state_machine parameter, fixed when the system is      *)
(* built.                                                                  *)
(***************************************************************************)
EXTENDS Integers, Sequences

CONSTANTS N, Upper, system_leakage, energy_profile_mult, FirstSamples, Samples,
          Costs, HandlerCosts, NoMsg,
          thres_ret_to_off, thres_1_to_ret, thres_ret_to_1,
          thres_down, thres_up, thres_1_to_retention, thres_retention_to_off,
          thres_off_to_1, thres_retention_to_1,
          thres_off_low, thres_low_mid, thres_mid_high,
          thres_low, thres_high

VARIABLES machine, energy_remained, state, msg_togo, event_msg, event_harvest,
          pc, pos, msg, heard

managerVars == <<energy_remained, state, msg_togo, event_msg, event_harvest,
                 pc, pos, msg, heard>>

Ret == INSTANCE RetentionPower WITH
          FirstSamples <- {v \in FirstSamples : v * energy_profile_mult < thres_ret_to_1}
DFS == INSTANCE DFSPower
DVFS == INSTANCE DVFSPower
Two == INSTANCE TwoThresPower

ASSUME MachinesAssumption ==
    /\ Ret!RetThresAssumption /\ DFS!DFSThresAssumption
    /\ DVFS!DVFSThresAssumption /\ Two!TwoThresAssumption

MachinesInit ==
    \/ machine = "SM_Retention" /\ Ret!Init
    \/ machine = "DFS_LRY" /\ DFS!Init
    \/ machine = "DVFSSM" /\ DVFS!Init
    \/ machine = "TwoThresSM" /\ Two!Init

\* Of the manager's steps, those that the event loop and the loops of the code
\* bring about by themselves.
StartUp ==
    \/ machine = "SM_Retention" /\ (Ret!MgmtInit \/ Ret!SMInit)
    \/ machine = "DFS_LRY" /\ (DFS!MgmtInit \/ DFS!SMInit)
    \/ machine = "DVFSSM" /\ (DVFS!MgmtInit \/ DVFS!SMInit)
    \/ machine = "TwoThresSM" /\ (Two!MgmtInit \/ Two!SMInit)

Broadcast ==
    \/ machine = "SM_Retention" /\ (Ret!BroadcastBegin \/ Ret!Deliver \/ Ret!BroadcastEnd)
    \/ machine = "DFS_LRY" /\ (DFS!BroadcastBegin \/ DFS!Deliver \/ DFS!BroadcastEnd)
    \/ machine = "DVFSSM" /\ (DVFS!BroadcastBegin \/ DVFS!Deliver \/ DVFS!BroadcastEnd)
    \/ machine = "TwoThresSM" /\ (Two!BroadcastBegin \/ Two!Deliver \/ Two!BroadcastEnd)

Energy ==
    \/ machine = "SM_Retention" /\ (Ret!HarvestEvent \/ Ret!ConsumeMsg)
    \/ machine = "DFS_LRY" /\ (DFS!HarvestEvent \/ DFS!ConsumeMsg)
    \/ machine = "DVFSSM" /\ (DVFS!HarvestEvent \/ DVFS!ConsumeMsg)
    \/ machine = "TwoThresSM" /\ (Two!HarvestEvent \/ Two!ConsumeMsg)

MachinesNext == (StartUp \/ Broadcast \/ Energy) /\ UNCHANGED machine

MachinesSpec ==
    /\ MachinesInit /\ [][MachinesNext]_<<machine, managerVars>>
    /\ WF_managerVars(StartUp) /\ WF_managerVars(Broadcast)

-----------------------------------------------------------------------------
\* A started system is in the state its energy asks for (RetentionMatchesEnergy).
\* In particular one large draw through both lower thresholds ends in off and
\* not in retention (SM_Retention::update).
RetentionOK == machine = "SM_Retention" => Ret!RetentionMatchesEnergy

\* What the slaves are told ends with the present state, although handlers of
\* a message draw energy and cause the next one, and is a walk of the machine:
\* with SM_Retention one in which at most three messages wait, a start and the
\* two steps down its handlers may cause; with DVFSSM one that announces no level
\* twice in a row; with DFS_LRY one from which a slave can track the level, and
\* in which a running system retains before it stops (broadcastMsgAsEvent and
\* the update of each machine).
MsgsFollow ==
    /\ machine = "SM_Retention" => Ret!RetentionMsgsFollow /\ Ret!AtMostThreeMsgs
    /\ machine = "DVFSSM" => DVFS!DVFSMsgsFollow
    /\ machine = "DFS_LRY" => DFS!LevelMsgsFollow

\* A change of energy puts the level where the energy says, however many levels
\* it skips (DVFSSM::update).
DVFSLevelOK == [][machine = "DVFSSM" => DVFS!LevelStep]_<<machine, managerVars>>

\* The thresholds of DFS_LRY leave no room to oscillate: if the energy stays
\* the same for ever, the level does in the end.
DFSSettles ==
    (\E e \in DFS!EnergyRange : <>[](machine = "DFS_LRY" /\ energy_remained = e))
        => \E s \in DFS!State : <>[](machine = "DFS_LRY" /\ state = s)

\* Although the first update of TwoThresSM turns it on without telling anybody,
\* its slaves see a rail that is announced off first, then switches, and never
\* switches again before all have been told (init, update, broadcastMsg).
TwoRailMsg(m) == IF machine = "TwoThresSM" THEN Two!RailMsg(m) ELSE NoMsg
Rail == INSTANCE PowerRail WITH
            rail <- TwoRailMsg(msg), heard <- [i \in 1 .. N |-> TwoRailMsg(heard[i])]
TwoThresRail == Rail!RailSpec
=============================================================================
