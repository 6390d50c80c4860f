--------------------------- MODULE RetentionPower ---------------------------
(***************************************************************************)
(* The energy manager driven by SM_Retention.                              *)
(***************************************************************************)
EXTENDS SM_Retention

CONSTANTS N, Upper, system_leakage, energy_profile_mult, FirstSamples, Samples,
          Costs, HandlerCosts, NoMsg

VARIABLES energy_remained, state, msg_togo, event_msg, event_harvest, pc, pos, msg, heard

INSTANCE EnergyMgmt WITH
    SMState <- State, SMMsg <- MsgType, StartSM <- StartState, InitSM <- InitState,
    InitSMMsg <- InitMsg, SMUpdate <- update, Leaks <- DirtyPatch,
    Lower <- energy_consume_lower_bound

\* The first sample, harvested before anything runs, does not start the system.
FirstSampleLow == \A v \in FirstSamples : v * energy_profile_mult < thres_ret_to_1

MsgOf(s) == CASE s = "STATE_POWER_OFF" -> "POWER_OFF"
              [] s = "STATE_POWER_RETENTION" -> "POWER_RET"
              [] s = "STATE_POWER_ON" -> "POWER_ON"

\* After every consumeEnergy of a started system the state is the one for the
\* energy left: running above the retention threshold, retaining between the
\* outer two, off below the start threshold.  In particular one large draw
\* through both lower thresholds ends in off and not in retention.
RetentionMatchesEnergy ==
    pc \in {"run", "broadcast"} =>
        /\ state = "STATE_POWER_ON" => energy_remained > thres_1_to_ret
        /\ state = "STATE_POWER_RETENTION" =>
              thres_ret_to_off < energy_remained /\ energy_remained < thres_ret_to_1
        /\ state = "STATE_POWER_OFF" => energy_remained < thres_ret_to_1

\* What the slaves are told is a walk through the machine that ends in its
\* present state: retention is announced only to a running system, nothing
\* is announced twice in a row, nothing is left out.
RetentionMsgsFollow ==
    /\ \A i \in 1 .. Len(Announced) - 1 :
          <<Announced[i], Announced[i + 1]>> \in
              {<<"POWER_ON", "POWER_RET">>, <<"POWER_ON", "POWER_OFF">>,
               <<"POWER_RET", "POWER_OFF">>, <<"POWER_RET", "POWER_ON">>,
               <<"POWER_OFF", "POWER_ON">>}
    /\ Announced # <<>> => Announced[Len(Announced)] = MsgOf(state)

\* At most three messages wait: the one that announces the start, and the two
\* steps down that its own handlers may cause before it has been broadcast.
AtMostThreeMsgs == Len(msg_togo) <= 3
=============================================================================
