------------------------------ MODULE DFSPower ------------------------------
(***************************************************************************)
(* The energy manager driven by DFS_LRY, with leakage while powered.       *)
(***************************************************************************)
EXTENDS DFS_LRY

CONSTANTS N, Upper, system_leakage, energy_profile_mult, FirstSamples, Samples,
          Costs, HandlerCosts, NoMsg

VARIABLES energy_remained, state, msg_togo, event_msg, event_harvest, pc, pos, msg, heard

INSTANCE EnergyMgmt WITH
    SMState <- State, SMMsg <- MsgType, StartSM <- StartState, InitSM <- InitState,
    InitSMMsg <- InitMsg, SMUpdate <- update, Leaks <- DirtyPatch,
    Lower <- energy_consume_lower_bound

\* The level a message leads to, and the levels it may come from.
Target(m) == CASE m = POWEROFF -> STATE_POWEROFF
               [] m \in {POWERON, RETENTION_END} -> FREQ(1)
               [] m = RETENTION_BEG -> STATE_RETENTION
               [] OTHER -> FREQ(m[3])
Sources(m) == CASE m = POWEROFF -> {STATE_RETENTION}
                [] m = POWERON -> {STATE_POWEROFF}
                [] m = RETENTION_BEG -> {FREQ(1)}
                [] m = RETENTION_END -> {STATE_RETENTION}
                [] OTHER -> {FREQ(m[2])}

\* A slave can track the level from the messages alone: each starts where the
\* one before it ended, and the last one ends in the present level.  So a
\* running system is told to retain before it is told to stop.
LevelMsgsFollow ==
    /\ \A i \in 1 .. Len(Announced) - 1 :
          Target(Announced[i]) \in Sources(Announced[i + 1])
    /\ Announced # <<>> => Target(Announced[Len(Announced)]) = state
=============================================================================
