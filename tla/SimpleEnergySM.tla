-------------------------- MODULE SimpleEnergySM --------------------------
(***************************************************************************)
(* The two-state energy state machine (engy/state_machine.cc).  A state    *)
(* machine holds no link to time: EnergyMgmt calls update with the energy  *)
(* left in the capacitor, and update may change the state and hand one     *)
(* message to EnergyMgmt for broadcasting.                                 *)
(*                                                                         *)
(* update is a function here: it returns the next state and the messages   *)
(* (none or one) it hands over.  The counter outage_times and the file it  *)
(* is written to are statistics and are left out.                          *)
(***************************************************************************)
EXTENDS Integers, Sequences

CONSTANTS thres_1_to_off,   \* at or below this energy a running system stops
          thres_off_to_1    \* at or above this energy a stopped system starts

\* Every configuration script sets the stop voltage (1.1 V) below the start
\* voltage (4.5 V); the code itself does not check it.
ASSUME ThresAssumption ==
    /\ thres_1_to_off \in Int
    /\ thres_off_to_1 \in Int
    /\ thres_1_to_off < thres_off_to_1

State == {"STATE_POWER_OFF", "STATE_POWER_ON"}
MsgType == {"POWER_OFF", "POWER_ON"}

\* The state the constructor sets, and the lower bound it gives EnergyMgmt.
StartState == "STATE_POWER_OFF"
energy_consume_lower_bound == thres_1_to_off

\* init() forces the state to off and announces it.
InitState == "STATE_POWER_OFF"
InitMsg == "POWER_OFF"

PowerFailure(state, energy) ==
    state = "STATE_POWER_ON" /\ energy <= thres_1_to_off

\* Mutant of PowerRecovery: it does not look at the state.
RecoveryInAnyState(state, energy) == energy >= thres_off_to_1

PowerRecovery(state, energy) ==
    state = "STATE_POWER_OFF" /\ energy >= thres_off_to_1

\* Mutant of update: a power failure is not announced.
SilentFailure(state, energy) ==
    IF PowerFailure(state, energy)
    THEN [state |-> "STATE_POWER_OFF", msgs |-> <<>>]
    ELSE IF PowerRecovery(state, energy)
    THEN [state |-> "STATE_POWER_ON", msgs |-> <<"POWER_ON">>]
    ELSE [state |-> state, msgs |-> <<>>]

update(state, energy) ==
    IF PowerFailure(state, energy)
    THEN [state |-> "STATE_POWER_OFF", msgs |-> <<"POWER_OFF">>]
    ELSE IF PowerRecovery(state, energy)
    THEN [state |-> "STATE_POWER_ON", msgs |-> <<"POWER_ON">>]
    ELSE [state |-> state, msgs |-> <<>>]
=============================================================================
