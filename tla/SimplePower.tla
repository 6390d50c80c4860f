---------------------------- MODULE SimplePower ----------------------------
(***************************************************************************)
(* The energy manager driven by SimpleEnergySM, the state machine of the   *)
(* CPU and device models that are built (cpu/simple/atomic.cc, vdev.cc).   *)
(***************************************************************************)
EXTENDS EnergyMgmt, SimpleEnergySM

ASSUME SimpleAssumption ==
    /\ SMState = State /\ SMMsg = MsgType
    /\ StartSM = StartState /\ InitSM = InitState /\ InitSMMsg = InitMsg
    /\ Lower = energy_consume_lower_bound
    /\ \A s \in State, e \in EnergyRange : SMUpdate(s, e) = update(s, e)
    /\ \A s \in State : ~Leaks(s)
    /\ thres_1_to_off \in Nat

\* The first sample of the profile does not charge the capacitor to the start
\* threshold by itself (it is harvested before anything runs).
ASSUME FirstSampleAssumption ==
    \A v \in FirstSamples : v * energy_profile_mult < thres_off_to_1

MsgOf(s) == IF s = "STATE_POWER_ON" THEN "POWER_ON" ELSE "POWER_OFF"
Other(m) == IF m = "POWER_ON" THEN "POWER_OFF" ELSE "POWER_ON"

Started == pc \in {"run", "broadcast"}

-----------------------------------------------------------------------------
\* Once started, the state machine and the capacitor agree after every call
\* of consumeEnergy: a running system is above the stop threshold and a
\* stopped one below the start threshold.
StateMatchesEnergy ==
    Started => /\ state = "STATE_POWER_ON" => energy_remained > thres_1_to_off
               /\ state = "STATE_POWER_OFF" => energy_remained < thres_off_to_1

\* The messages still to go alternate, start with the opposite of the last
\* one broadcast, and end with the one that announces the present state; with
\* none waiting, the last one broadcast announced it.
MsgsTrackState ==
    Started =>
        /\ \A i \in 1 .. Len(msg_togo) - 1 : msg_togo[i + 1] = Other(msg_togo[i])
        /\ msg_togo # <<>> => msg_togo[Len(msg_togo)] = MsgOf(state)
        /\ msg_togo = <<>> => msg = MsgOf(state)
        /\ (pc = "run" /\ msg_togo # <<>> /\ msg # NoMsg) => Head(msg_togo) = Other(msg)
        /\ (pc = "run" /\ msg = NoMsg) => msg_togo = <<"POWER_OFF">>

\* When no message waits, every slave knows the present power state.
SlavesKnowState ==
    (pc = "run" /\ msg_togo = <<>>) => \A i \in 1 .. N : heard[i] = MsgOf(state)

\* The vector holds at most two messages: the one being broadcast, and the
\* power failure its handlers caused.
AtMostTwoMsgs == Len(msg_togo) <= 2

\* Slaves see a power rail.
Rail == INSTANCE PowerRail WITH rail <- msg
ImplementsRail == Rail!RailSpec

\* Messages do not pile up: the queue empties again and again.
QueueDrains == []<>(pc = "run" /\ msg_togo = <<>>)

-----------------------------------------------------------------------------
(***************************************************************************)
(* The inductive invariant.  The queue takes four shapes only, each tied   *)
(* to the state and to the last message broadcast; before start-up ends    *)
(* nothing has happened.                                                   *)
(***************************************************************************)
NotStarted ==
    /\ state = "STATE_POWER_OFF" /\ msg_togo = <<>> /\ msg = NoMsg
    /\ energy_remained < thres_off_to_1
    /\ pc = "mgmt_init" => energy_remained = 0
    /\ \A i \in 1 .. N : heard[i] = NoMsg

RunShape ==
    \/ msg_togo = <<>> /\ msg = MsgOf(state)
    \/ msg_togo = <<"POWER_ON">> /\ state = "STATE_POWER_ON" /\ msg = "POWER_OFF"
    \/ msg_togo = <<"POWER_OFF">> /\ state = "STATE_POWER_OFF"
                                 /\ msg \in {"POWER_ON", NoMsg}
    \/ msg_togo = <<"POWER_ON", "POWER_OFF">> /\ state = "STATE_POWER_OFF"
                                             /\ msg = "POWER_OFF"

BroadcastShape ==
    \/ msg_togo = <<MsgOf(state)>> /\ msg = MsgOf(state)
    \/ msg_togo = <<"POWER_ON", "POWER_OFF">> /\ state = "STATE_POWER_OFF"
                                             /\ msg = "POWER_ON"

SimpleIInv ==
    /\ TypeOK /\ MsgQueueInv /\ SlavesInStep /\ StateMatchesEnergy
    /\ ~Started => NotStarted
    /\ pc = "run" => RunShape /\ \A i \in 1 .. N : heard[i] = msg
    /\ pc = "broadcast" => BroadcastShape /\ \A i \in pos .. N : heard[i] # msg
=============================================================================
