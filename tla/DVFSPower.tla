----------------------------- MODULE DVFSPower -----------------------------
(***************************************************************************)
(* The energy manager driven by DVFSSM.                                    *)
(***************************************************************************)
EXTENDS DVFSSM

CONSTANTS N, Upper, system_leakage, energy_profile_mult, FirstSamples, Samples,
          Costs, HandlerCosts, NoMsg

VARIABLES energy_remained, state, msg_togo, event_msg, event_harvest, pc, pos, msg, heard

INSTANCE EnergyMgmt WITH
    SMState <- State, SMMsg <- MsgType, StartSM <- StartState, InitSM <- InitState,
    InitSMMsg <- InitMsg, SMUpdate <- update, Leaks <- DirtyPatch,
    Lower <- energy_consume_lower_bound

\* The level that belongs to an energy, thresholds apart.
Band(e) == IF e < thres_off_low THEN "STATE_OFF"
           ELSE IF e < thres_low_mid THEN "STATE_LVL_LOW"
           ELSE IF e < thres_mid_high THEN "STATE_LVL_MIDDLE"
           ELSE "STATE_LVL_HIGH"

MsgOf(s) == CASE s = "STATE_OFF" -> "POWEROFF"
              [] s = "STATE_LVL_LOW" -> "DVFS_LOW"
              [] s = "STATE_LVL_MIDDLE" -> "DVFS_MIDDLE"
              [] s = "STATE_LVL_HIGH" -> "DVFS_HIGH"

\* Every change of the energy of a started system puts the level where the
\* energy says, however many levels it skips; only on a threshold may the
\* level be another one.
LevelStep ==
    (/\ pc # "mgmt_init" /\ energy_remained' # energy_remained
     /\ energy_remained' \notin {thres_off_low, thres_low_mid, thres_mid_high})
        => state' = Band(energy_remained')
LevelFollowsEnergy == [][LevelStep]_vars

\* The slaves are told of every change of level, in order: no level is
\* announced twice in a row and the last one announced is the present one.
DVFSMsgsFollow ==
    /\ \A i \in 1 .. Len(Announced) - 1 : Announced[i] # Announced[i + 1]
    /\ Announced # <<>> => Announced[Len(Announced)] = MsgOf(state)
=============================================================================
