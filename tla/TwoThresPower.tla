--------------------------- MODULE TwoThresPower ---------------------------
(***************************************************************************)
(* The energy manager driven by TwoThresSM.                                *)
(***************************************************************************)
EXTENDS TwoThresSM

CONSTANTS N, Upper, system_leakage, energy_profile_mult, FirstSamples, Samples,
          Costs, HandlerCosts, NoMsg

VARIABLES energy_remained, state, msg_togo, event_msg, event_harvest, pc, pos, msg, heard

INSTANCE EnergyMgmt WITH
    SMState <- State, SMMsg <- MsgType, StartSM <- StartState, InitSM <- InitState,
    InitSMMsg <- InitMsg, SMUpdate <- update, Leaks <- DirtyPatch,
    Lower <- energy_consume_lower_bound

\* The rail position a message announces.
RailMsg(m) == CASE m = "POWEROFF" -> "POWER_OFF" [] m = "POWERON" -> "POWER_ON"
                [] OTHER -> m
=============================================================================
