------------------------- MODULE SimplePowerProofs -------------------------
(***************************************************************************)
(* With SimpleEnergySM, and for every capacitor, profile, cost and number  *)
(* of slaves: the messages track the state, at most two of them wait, and  *)
(* the slaves see the power rail of module PowerRail.                      *)
(***************************************************************************)
EXTENDS SimplePower, EnergyMgmtProofs, SequenceTheorems

\* What update does to each state, in the terms of the manager.
LEMMA SimpleUpdate ==
    ASSUME NEW e \in EnergyRange
    PROVE  /\ SMUpdate("STATE_POWER_ON", e) =
                IF e <= thres_1_to_off
                THEN [state |-> "STATE_POWER_OFF", msgs |-> <<"POWER_OFF">>]
                ELSE [state |-> "STATE_POWER_ON", msgs |-> <<>>]
           /\ SMUpdate("STATE_POWER_OFF", e) =
                IF e >= thres_off_to_1
                THEN [state |-> "STATE_POWER_ON", msgs |-> <<"POWER_ON">>]
                ELSE [state |-> "STATE_POWER_OFF", msgs |-> <<>>]
<1>1. SMUpdate("STATE_POWER_ON", e) = update("STATE_POWER_ON", e)
  BY SimpleAssumption DEF State
<1>2. SMUpdate("STATE_POWER_OFF", e) = update("STATE_POWER_OFF", e)
  BY SimpleAssumption DEF State
<1>3. QED
  BY <1>1, <1>2 DEF update, PowerFailure, PowerRecovery

\* Drawing energy can stop a running system and does nothing else: a stopped
\* one stays below the start threshold.
LEMMA DrawEffect ==
    ASSUME TypeOK, StateMatchesEnergy, Started, NEW val \in Nat, consumeEnergy(val)
    PROVE  /\ \/ state' = state /\ msg_togo' = msg_togo /\ event_msg' = event_msg
              \/ /\ state = "STATE_POWER_ON" /\ state' = "STATE_POWER_OFF"
                 /\ msg_togo' = Append(msg_togo, "POWER_OFF")
                 /\ event_msg' = (event_msg \/ msg_togo = <<>>)
           /\ state' = "STATE_POWER_ON" => energy_remained' > thres_1_to_off
           /\ state' = "STATE_POWER_OFF" => energy_remained' < thres_off_to_1
<1> DEFINE e == EnergyAfter(val)
           u == SMUpdate(state, e)
<1>1. e \in EnergyRange /\ energy_remained' = e /\ state' = u.state
      /\ msg_togo' = msg_togo \o u.msgs
      /\ event_msg' = (event_msg \/ (u.msgs # <<>> /\ Len(msg_togo \o u.msgs) = 1))
  BY EnergyStaysInRange DEF consumeEnergy, broadcastMsgAsEvent
<1>2. /\ e \in Int /\ thres_1_to_off \in Int /\ thres_off_to_1 \in Int
      /\ thres_1_to_off < thres_off_to_1 /\ Lower = thres_1_to_off
  BY <1>1, EnergyAssumption, SimpleAssumption, ThresAssumption
     DEF EnergyRange, energy_consume_lower_bound
<1>3. energy_remained < thres_off_to_1 => e < thres_off_to_1
  BY <1>2, EnergyAssumption DEF EnergyAfter, Drawn, TypeOK, EnergyRange
<1>4. state \in {"STATE_POWER_OFF", "STATE_POWER_ON"}
  BY SimpleAssumption DEF TypeOK, State
<1> HIDE DEF e
<1>5. CASE state = "STATE_POWER_ON" /\ e <= thres_1_to_off
  <2>1. u = [state |-> "STATE_POWER_OFF", msgs |-> <<"POWER_OFF">>]
    BY <1>1, <1>5, SimpleUpdate
  <2>2. /\ msg_togo \o <<"POWER_OFF">> = Append(msg_togo, "POWER_OFF")
        /\ Len(msg_togo \o <<"POWER_OFF">>) = 1 <=> msg_togo = <<>>
    BY DEF TypeOK
  <2>3. u.state = "STATE_POWER_OFF" /\ u.msgs = <<"POWER_OFF">>
    BY <2>1
  <2> HIDE DEF u
  <2>4. QED
    BY <1>1, <1>2, <1>5, <2>2, <2>3
<1>6. CASE ~(state = "STATE_POWER_ON" /\ e <= thres_1_to_off)
  <2>1. u = [state |-> state, msgs |-> <<>>]
    BY <1>1, <1>2, <1>3, <1>4, <1>6, SimpleUpdate DEF StateMatchesEnergy
  <2>2. u.state = state /\ u.msgs = <<>> /\ msg_togo \o <<>> = msg_togo
    BY <2>1 DEF TypeOK
  <2> HIDE DEF u
  <2>3. QED
    BY <1>1, <1>2, <1>3, <1>4, <1>6, <2>2 DEF StateMatchesEnergy, TypeOK
<1>7. QED
  BY <1>5, <1>6

\* Harvesting can start a stopped system and does nothing else; with no
\* leakage it never lowers the energy.
LEMMA HarvestEffect ==
    ASSUME TypeOK, NEW val \in Nat, consumeEnergy(-val),
           state = "STATE_POWER_ON" => energy_remained > thres_1_to_off
    PROVE  /\ \/ state' = state /\ msg_togo' = msg_togo /\ event_msg' = event_msg
              \/ /\ state = "STATE_POWER_OFF" /\ state' = "STATE_POWER_ON"
                 /\ energy_remained' >= thres_off_to_1
                 /\ msg_togo' = Append(msg_togo, "POWER_ON")
                 /\ event_msg' = (event_msg \/ msg_togo = <<>>)
           /\ state' = "STATE_POWER_ON" => energy_remained' > thres_1_to_off
           /\ state' = "STATE_POWER_OFF" => energy_remained' < thres_off_to_1
<1> DEFINE e == EnergyAfter(-val)
           u == SMUpdate(state, e)
<1>1. e \in EnergyRange /\ energy_remained' = e /\ state' = u.state
      /\ msg_togo' = msg_togo \o u.msgs
      /\ event_msg' = (event_msg \/ (u.msgs # <<>> /\ Len(msg_togo \o u.msgs) = 1))
  BY EnergyStaysInRange DEF consumeEnergy, broadcastMsgAsEvent
<1>2. /\ e \in Int /\ thres_1_to_off \in Nat /\ thres_off_to_1 \in Int
      /\ thres_1_to_off < thres_off_to_1 /\ Lower = thres_1_to_off
  BY <1>1, EnergyAssumption, SimpleAssumption, ThresAssumption
     DEF EnergyRange, energy_consume_lower_bound
<1>3. energy_remained > thres_1_to_off => e > thres_1_to_off
  <2> DEFINE gain == (-(-val)) * energy_profile_mult
  <2>1. gain \in Nat
    BY EnergyAssumption
  <2>2. Leakage = 0
    BY SimpleAssumption DEF Leakage, TypeOK
  <2>3. -val < 0 => Harvested(-val) = LET x == energy_remained - 0 + gain
                     IN  IF x > Upper THEN Upper ELSE IF x < Lower THEN Lower ELSE x
    BY <2>2 DEF Harvested
  <2> HIDE DEF gain
  <2>4. QED
    BY <1>2, <2>1, <2>3, EnergyAssumption DEF EnergyAfter, TypeOK, EnergyRange
<1>4. state \in {"STATE_POWER_OFF", "STATE_POWER_ON"}
  BY SimpleAssumption DEF TypeOK, State
<1> HIDE DEF e
<1>5. CASE state = "STATE_POWER_OFF" /\ e >= thres_off_to_1
  <2>1. u = [state |-> "STATE_POWER_ON", msgs |-> <<"POWER_ON">>]
    BY <1>1, <1>5, SimpleUpdate
  <2>2. /\ msg_togo \o <<"POWER_ON">> = Append(msg_togo, "POWER_ON")
        /\ Len(msg_togo \o <<"POWER_ON">>) = 1 <=> msg_togo = <<>>
    BY DEF TypeOK
  <2>3. u.state = "STATE_POWER_ON" /\ u.msgs = <<"POWER_ON">>
    BY <2>1
  <2> HIDE DEF u
  <2>4. QED
    BY <1>1, <1>2, <1>5, <2>2, <2>3
<1>6. CASE ~(state = "STATE_POWER_OFF" /\ e >= thres_off_to_1)
  <2>1. u = [state |-> state, msgs |-> <<>>]
    BY <1>1, <1>2, <1>3, <1>4, <1>6, SimpleUpdate
  <2>2. u.state = state /\ u.msgs = <<>> /\ msg_togo \o <<>> = msg_togo
    BY <2>1 DEF TypeOK
  <2> HIDE DEF u
  <2>3. QED
    BY <1>1, <1>2, <1>3, <1>4, <1>6, <2>2 DEF TypeOK
<1>7. QED
  BY <1>5, <1>6

\* The first sample leaves the energy below the start threshold.
LEMMA FirstHarvestStaysOff ==
    ASSUME NEW val \in FirstSamples, TypeOK, energy_remained = 0
    PROVE  EnergyAfter(-val) < thres_off_to_1
<1> DEFINE gain == (-(-val)) * energy_profile_mult
<1>1. val \in Nat /\ gain \in Nat /\ val * energy_profile_mult = gain
  BY EnergyAssumption
<1>2. gain < thres_off_to_1
  BY <1>1, FirstSampleAssumption
<1>3. Leakage = 0
  BY SimpleAssumption DEF Leakage, TypeOK
<1>4. -val < 0 => Harvested(-val) = LET x == energy_remained - 0 + gain
                   IN  IF x > Upper THEN Upper ELSE IF x < Lower THEN Lower ELSE x
  BY <1>3 DEF Harvested
<1> HIDE DEF gain
<1>5. /\ thres_1_to_off \in Nat /\ thres_off_to_1 \in Int
      /\ thres_1_to_off < thres_off_to_1 /\ Lower = thres_1_to_off
  BY SimpleAssumption, ThresAssumption DEF energy_consume_lower_bound
<1>6. QED
  BY <1>1, <1>2, <1>4, <1>5, EnergyAssumption DEF EnergyAfter

-----------------------------------------------------------------------------
\* What push_back and erase(begin()) make of the short vectors that occur.
LEMMA ShortQueues ==
    ASSUME NEW a, NEW b
    PROVE  /\ Append(<<>>, a) = <<a>>
           /\ Append(<<a>>, b) = <<a, b>>
           /\ Tail(<<a>>) = <<>>
           /\ Tail(<<a, b>>) = <<b>>
           /\ Head(<<a>>) = a
           /\ Head(<<a, b>>) = a
<1>1. Append(<<>>, a) = <<a>>
  OBVIOUS
<1>2. Append(<<a>>, b) = <<a, b>>
  <2>1. <<a>> \in Seq({a, b}) /\ <<a, b>> \in Seq({a, b})
    OBVIOUS
  <2>2. /\ Append(<<a>>, b) \in Seq({a, b}) /\ Len(Append(<<a>>, b)) = 2
        /\ Append(<<a>>, b)[1] = a /\ Append(<<a>>, b)[2] = b
    BY <2>1
  <2>3. \A i \in 1 .. 2 : Append(<<a>>, b)[i] = <<a, b>>[i]
    BY <2>2
  <2>4. QED
    BY <2>1, <2>2, <2>3, SeqEqual, ZenonT(30)
<1>3. Tail(<<a>>) = <<>>
  OBVIOUS
<1>4. Tail(<<a, b>>) = <<b>>
  OBVIOUS
<1>5. Head(<<a>>) = a /\ Head(<<a, b>>) = a
  OBVIOUS
<1>6. QED
  BY <1>1, <1>2, <1>3, <1>4, <1>5

\* The inductive invariant holds after construction.
LEMMA SimpleIInvInit == Init => SimpleIInv
<1> SUFFICES ASSUME Init PROVE SimpleIInv
  OBVIOUS
<1>1. TypeOK /\ MsgQueueInv
  BY QueueIInvInit DEF QueueIInv
<1>2. SlavesInStep
  BY DEF Init, SlavesInStep
<1>3. NotStarted
  BY SimpleAssumption, ThresAssumption DEF Init, NotStarted, StartState
<1>4. QED
  BY <1>1, <1>2, <1>3 DEF Init, SimpleIInv, Started, StateMatchesEnergy

\* Every step of the manager keeps the inductive invariant.
LEMMA SimpleIInvStep == SimpleIInv /\ [Next]_vars => SimpleIInv'
<1> SUFFICES ASSUME SimpleIInv, [Next]_vars PROVE SimpleIInv'
  OBVIOUS
<1>1. TypeOK' /\ MsgQueueInv' /\ SlavesInStep'
  BY QueueIInvStep, SlavesInStepStep DEF SimpleIInv, QueueIInv
<1>2. TypeOK /\ MsgQueueInv /\ SlavesInStep /\ StateMatchesEnergy
  BY DEF SimpleIInv
<1>3. state \in {"STATE_POWER_OFF", "STATE_POWER_ON"}
  BY <1>2, SimpleAssumption DEF TypeOK, State
<1>4. CASE MgmtInit
  <2>1. pc = "mgmt_init" /\ pc' = "sm_init" /\ msg' = msg /\ heard' = heard
    BY <1>4 DEF MgmtInit
  <2>2. NotStarted
    BY <2>1 DEF SimpleIInv, Started
  <2>3. CASE UNCHANGED <<energy_remained, state, msg_togo, event_msg>>
    BY <1>1, <2>1, <2>2, <2>3 DEF SimpleIInv, NotStarted, Started, StateMatchesEnergy
  <2>4. ASSUME NEW val \in FirstSamples, consumeEnergy(-val) PROVE SimpleIInv'
    <3>1. val \in Nat
      BY EnergyAssumption
    <3>2. energy_remained' < thres_off_to_1
      BY <1>2, <2>1, <2>2, <2>4, FirstHarvestStaysOff DEF NotStarted, consumeEnergy
    <3>3. state' = state /\ msg_togo' = msg_togo
      <4>1. energy_remained' \in Int /\ thres_off_to_1 \in Int
        BY <1>1, EnergyAssumption, ThresAssumption DEF TypeOK, EnergyRange
      <4>2. ~(energy_remained' >= thres_off_to_1)
        BY <3>2, <4>1
      <4>3. QED
        BY <1>2, <2>2, <2>4, <3>1, <4>2, HarvestEffect DEF NotStarted
    <3>4. QED
      BY <1>1, <2>1, <2>2, <3>2, <3>3 DEF SimpleIInv, NotStarted, Started, StateMatchesEnergy
  <2>5. QED
    BY <1>4, <2>3, <2>4 DEF MgmtInit, energyHarvest
<1>5. CASE SMInit
  <2>1. NotStarted
    BY <1>5 DEF SMInit, SimpleIInv, Started
  <2>2. /\ pc' = "run" /\ msg' = NoMsg /\ heard' = heard
        /\ energy_remained' = energy_remained
        /\ state' = "STATE_POWER_OFF" /\ msg_togo' = <<"POWER_OFF">>
    BY <1>5, <2>1, SimpleAssumption
       DEF SMInit, NotStarted, broadcastMsgAsEvent, InitState, InitMsg
  <2>3. QED
    BY <1>1, <2>1, <2>2
       DEF SimpleIInv, NotStarted, Started, StateMatchesEnergy, RunShape
<1>6. CASE HarvestEvent
  <2>1. /\ pc = "run" /\ pc' = "run" /\ ~event_msg /\ msg' = msg /\ heard' = heard
    BY <1>6 DEF HarvestEvent
  <2>2. msg_togo = <<>> /\ msg = MsgOf(state) /\ \A i \in 1 .. N : heard[i] = msg
    BY <1>2, <2>1 DEF MsgQueueInv, SimpleIInv, RunShape
  <2>3. CASE UNCHANGED <<energy_remained, state, msg_togo, event_msg>>
    BY <1>1, <1>2, <2>1, <2>2, <2>3
       DEF SimpleIInv, Started, StateMatchesEnergy, RunShape, MsgOf
  <2>4. ASSUME NEW val \in Samples, consumeEnergy(-val) PROVE SimpleIInv'
    <3>1. val \in Nat
      BY EnergyAssumption
    <3>2. state = "STATE_POWER_ON" => energy_remained > thres_1_to_off
      BY <1>2, <2>1 DEF StateMatchesEnergy, Started
    <3>3. StateMatchesEnergy'
      BY <1>2, <2>4, <3>1, <3>2, HarvestEffect DEF StateMatchesEnergy
    <3>4. \/ state' = state /\ msg_togo' = msg_togo
          \/ /\ state = "STATE_POWER_OFF" /\ state' = "STATE_POWER_ON"
             /\ msg_togo' = Append(msg_togo, "POWER_ON")
      BY <1>2, <2>4, <3>1, <3>2, HarvestEffect
    <3>5. RunShape'
      BY <2>1, <2>2, <3>4 DEF RunShape, MsgOf
    <3>6. QED
      BY <1>1, <2>1, <2>2, <3>3, <3>5 DEF SimpleIInv, Started
  <2>5. QED
    BY <1>6, <2>3, <2>4 DEF HarvestEvent, energyHarvest
<1>7. CASE ConsumeMsg
  <2>1. PICK val \in Costs : consumeEnergy(val)
    BY <1>7 DEF ConsumeMsg
  <2>2. val \in Nat /\ pc = "run" /\ pc' = "run" /\ msg' = msg /\ heard' = heard
    BY <1>7, EnergyAssumption DEF ConsumeMsg
  <2>3. RunShape /\ \A i \in 1 .. N : heard[i] = msg
    BY <2>2 DEF SimpleIInv
  <2>4. StateMatchesEnergy'
    BY <1>2, <2>1, <2>2, DrawEffect DEF StateMatchesEnergy, Started
  <2>5. \/ state' = state /\ msg_togo' = msg_togo
        \/ /\ state = "STATE_POWER_ON" /\ state' = "STATE_POWER_OFF"
           /\ msg_togo' = Append(msg_togo, "POWER_OFF")
    BY <1>2, <2>1, <2>2, DrawEffect DEF Started
  <2>6. RunShape'
    <3>1. CASE UNCHANGED <<state, msg_togo>>
      BY <2>2, <2>3, <3>1 DEF RunShape, MsgOf
    <3>2. CASE /\ state = "STATE_POWER_ON" /\ state' = "STATE_POWER_OFF"
               /\ msg_togo' = Append(msg_togo, "POWER_OFF")
      <4>1. CASE msg_togo = <<>> /\ msg = "POWER_ON"
        <5>1. msg_togo' = <<"POWER_OFF">>
          BY <3>2, <4>1, ShortQueues
        <5>2. QED
          BY <2>2, <3>2, <4>1, <5>1 DEF RunShape
      <4>2. CASE msg_togo = <<"POWER_ON">> /\ msg = "POWER_OFF"
        <5>1. msg_togo' = <<"POWER_ON", "POWER_OFF">>
          BY <3>2, <4>2, ShortQueues, ZenonT(30)
        <5>2. QED
          BY <2>2, <3>2, <4>2, <5>1, ZenonT(30) DEF RunShape
      <4>3. QED
        BY <2>3, <3>2, <4>1, <4>2 DEF RunShape, MsgOf
    <3>3. QED
      BY <2>5, <3>1, <3>2
  <2>7. QED
    BY <1>1, <2>2, <2>3, <2>4, <2>6 DEF SimpleIInv, Started
<1>8. CASE BroadcastBegin
  <2>1. /\ pc = "run" /\ pc' = "broadcast" /\ pos' = 1 /\ heard' = heard
        /\ msg' = Head(msg_togo) /\ msg_togo # <<>>
        /\ UNCHANGED <<energy_remained, state, msg_togo>>
    BY <1>2, <1>8 DEF BroadcastBegin, MsgQueueInv
  <2>2. RunShape /\ \A i \in 1 .. N : heard[i] = msg
    BY <2>1 DEF SimpleIInv
  <2>3. BroadcastShape'
    BY <2>1, <2>2 DEF RunShape, BroadcastShape, MsgOf
  <2>4. msg' # msg
    BY <2>1, <2>2, SMAssumption, SimpleAssumption DEF RunShape, MsgType
  <2>5. StateMatchesEnergy'
    BY <1>2, <2>1 DEF StateMatchesEnergy, Started
  <2>6. QED
    BY <1>1, <2>1, <2>2, <2>3, <2>4, <2>5 DEF SimpleIInv, Started
<1>9. CASE Deliver
  <2>1. /\ pc = "broadcast" /\ pc' = "broadcast" /\ pos \in 1 .. N
        /\ pos' = pos + 1 /\ msg' = msg /\ heard' = [heard EXCEPT ![pos] = msg]
    BY <1>2, <1>9, SlavesAssumption DEF Deliver, TypeOK
  <2>2. BroadcastShape /\ \A i \in pos .. N : heard[i] # msg
    BY <2>1 DEF SimpleIInv
  <2>3. \A i \in pos' .. N : heard'[i] # msg'
    BY <1>2, <2>1, <2>2, SlavesAssumption DEF TypeOK
  <2>4. /\ \/ state' = state /\ msg_togo' = msg_togo
           \/ /\ state = "STATE_POWER_ON" /\ state' = "STATE_POWER_OFF"
              /\ msg_togo' = Append(msg_togo, "POWER_OFF")
        /\ StateMatchesEnergy'
    <3>1. CASE UNCHANGED <<energy_remained, state, msg_togo, event_msg>>
      BY <1>2, <2>1, <3>1 DEF StateMatchesEnergy, Started
    <3>2. ASSUME NEW val \in HandlerCosts, consumeEnergy(val)
          PROVE  /\ \/ state' = state /\ msg_togo' = msg_togo
                    \/ /\ state = "STATE_POWER_ON" /\ state' = "STATE_POWER_OFF"
                       /\ msg_togo' = Append(msg_togo, "POWER_OFF")
                 /\ StateMatchesEnergy'
      <4>1. val \in Nat
        BY EnergyAssumption
      <4>2. QED
        BY <1>2, <2>1, <3>2, <4>1, DrawEffect DEF StateMatchesEnergy, Started
    <3>3. QED
      BY <1>9, <3>1, <3>2 DEF Deliver
  <2>5. BroadcastShape'
    <3>1. CASE UNCHANGED <<state, msg_togo>>
      BY <2>1, <2>2, <3>1 DEF BroadcastShape, MsgOf
    <3>2. CASE /\ state = "STATE_POWER_ON" /\ state' = "STATE_POWER_OFF"
               /\ msg_togo' = Append(msg_togo, "POWER_OFF")
      <4>1. msg_togo = <<"POWER_ON">> /\ msg = "POWER_ON"
        BY <2>2, <3>2 DEF BroadcastShape, MsgOf
      <4>2. msg_togo' = <<"POWER_ON", "POWER_OFF">>
        BY <3>2, <4>1, ShortQueues, ZenonT(30)
      <4>3. QED
        BY <2>1, <3>2, <4>1, <4>2, ZenonT(30) DEF BroadcastShape
    <3>3. QED
      BY <2>4, <3>1, <3>2
  <2>6. QED
    BY <1>1, <2>1, <2>3, <2>4, <2>5 DEF SimpleIInv, Started
<1>10. CASE BroadcastEnd
  <2>1. /\ pc = "broadcast" /\ pc' = "run" /\ pos = N + 1 /\ msg' = msg
        /\ heard' = heard /\ msg_togo' = Tail(msg_togo)
        /\ UNCHANGED <<energy_remained, state>>
    BY <1>10 DEF BroadcastEnd
  <2>2. BroadcastShape
    BY <2>1 DEF SimpleIInv
  <2>3. RunShape'
    <3>1. CASE msg_togo = <<MsgOf(state)>> /\ msg = MsgOf(state)
      <4>1. msg_togo' = <<>>
        BY <2>1, <3>1, ShortQueues
      <4>2. QED
        BY <2>1, <3>1, <4>1 DEF RunShape, MsgOf
    <3>2. CASE /\ msg_togo = <<"POWER_ON", "POWER_OFF">>
               /\ state = "STATE_POWER_OFF" /\ msg = "POWER_ON"
      <4>1. msg_togo' = <<"POWER_OFF">>
        BY <2>1, <3>2, ShortQueues
      <4>2. QED
        BY <2>1, <3>2, <4>1 DEF RunShape
    <3>3. QED
      BY <2>2, <3>1, <3>2 DEF BroadcastShape
  <2>4. \A i \in 1 .. N : heard'[i] = msg'
    BY <1>2, <2>1, SlavesAssumption DEF SlavesInStep
  <2>5. StateMatchesEnergy'
    BY <1>2, <2>1 DEF StateMatchesEnergy, Started
  <2>6. QED
    BY <1>1, <2>1, <2>3, <2>4, <2>5 DEF SimpleIInv, Started
<1>11. CASE UNCHANGED vars
  BY <1>1, <1>11 DEF vars, SimpleIInv, Started, NotStarted, StateMatchesEnergy,
     RunShape, BroadcastShape, MsgOf
<1>12. QED
  BY <1>4, <1>5, <1>6, <1>7, <1>8, <1>9, <1>10, <1>11 DEF Next

-----------------------------------------------------------------------------
\* The inductive invariant holds in every reachable state.
LEMMA SimpleIInvAlways == Spec => []SimpleIInv
  BY SimpleIInvInit, SimpleIInvStep, PTL DEF Spec

\* A running system is above the stop threshold and a stopped one below the
\* start threshold, after every consumeEnergy.
THEOREM StateMatchesEnergyCorrect == Spec => []StateMatchesEnergy
<1>1. SimpleIInv => StateMatchesEnergy
  BY DEF SimpleIInv
<1>2. QED
  BY <1>1, SimpleIInvAlways, PTL

\* The waiting messages alternate and end with the one that announces the
\* present state of the machine.
THEOREM MsgsTrackStateCorrect == Spec => []MsgsTrackState
<1>1. ASSUME SimpleIInv PROVE MsgsTrackState
  <2>1. CASE ~Started
    BY <2>1 DEF MsgsTrackState
  <2>2. CASE pc = "run"
    <3>1. RunShape
      BY <1>1, <2>2 DEF SimpleIInv
    <3>2. CASE msg_togo = <<>> /\ msg = MsgOf(state)
      BY <2>2, <3>2, SMAssumption, SimpleAssumption
         DEF MsgsTrackState, MsgOf, MsgType
    <3>3. CASE /\ msg_togo = <<"POWER_ON">> /\ state = "STATE_POWER_ON"
               /\ msg = "POWER_OFF"
      BY <2>2, <3>3, SMAssumption, SimpleAssumption
         DEF MsgsTrackState, MsgOf, Other, MsgType
    <3>4. CASE /\ msg_togo = <<"POWER_OFF">> /\ state = "STATE_POWER_OFF"
               /\ msg \in {"POWER_ON", NoMsg}
      BY <2>2, <3>4 DEF MsgsTrackState, MsgOf, Other
    <3>5. CASE /\ msg_togo = <<"POWER_ON", "POWER_OFF">>
               /\ state = "STATE_POWER_OFF" /\ msg = "POWER_OFF"
      BY <2>2, <3>5, SMAssumption, SimpleAssumption
         DEF MsgsTrackState, MsgOf, Other, MsgType
    <3>6. QED
      BY <3>1, <3>2, <3>3, <3>4, <3>5 DEF RunShape
  <2>3. CASE pc = "broadcast"
    <3>1. BroadcastShape
      BY <1>1, <2>3 DEF SimpleIInv
    <3>2. QED
      BY <2>3, <3>1 DEF MsgsTrackState, BroadcastShape, MsgOf, Other
  <2>4. QED
    BY <2>1, <2>2, <2>3 DEF Started
<1>2. QED
  BY <1>1, SimpleIInvAlways, PTL

\* With no message waiting, every slave knows the present power state.
THEOREM SlavesKnowStateCorrect == Spec => []SlavesKnowState
<1>1. ASSUME SimpleIInv PROVE SlavesKnowState
  BY <1>1 DEF SimpleIInv, RunShape, SlavesKnowState
<1>2. QED
  BY <1>1, SimpleIInvAlways, PTL

\* The vector never holds more than two messages.
THEOREM AtMostTwoMsgsCorrect == Spec => []AtMostTwoMsgs
<1>1. ASSUME SimpleIInv PROVE AtMostTwoMsgs
  <2>1. \/ msg_togo = <<>>
        \/ \E a : msg_togo = <<a>>
        \/ \E a, b : msg_togo = <<a, b>>
    BY <1>1 DEF SimpleIInv, Started, NotStarted, RunShape, BroadcastShape, TypeOK
  <2>2. CASE msg_togo = <<>>
    BY <2>2 DEF AtMostTwoMsgs
  <2>3. CASE \E a : msg_togo = <<a>>
    <3>1. PICK a : msg_togo = <<a>>
      BY <2>3
    <3>2. Len(msg_togo) = 1
      BY <3>1
    <3>3. QED
      BY <3>2 DEF AtMostTwoMsgs
  <2>4. CASE \E a, b : msg_togo = <<a, b>>
    <3>1. PICK a, b : msg_togo = <<a, b>>
      BY <2>4
    <3>2. Len(msg_togo) = 2
      BY <3>1
    <3>3. QED
      BY <3>2 DEF AtMostTwoMsgs
  <2>5. QED
    BY <2>1, <2>2, <2>3, <2>4
<1>2. QED
  BY <1>1, SimpleIInvAlways, PTL

-----------------------------------------------------------------------------
\* Every step of the manager is, to its slaves, a step of the power rail or
\* no step: BroadcastBegin switches it, Deliver tells the next slave.
LEMMA RailStep ==
    ASSUME SimpleIInv, SimpleIInv', [Next]_vars
    PROVE  [Rail!RailNext]_(Rail!railVars)
<1>1. CASE BroadcastBegin
  <2>1. /\ pc = "run" /\ pc' = "broadcast" /\ heard' = heard
        /\ msg' = Head(msg_togo) /\ msg_togo # <<>>
    BY <1>1 DEF BroadcastBegin, SimpleIInv, MsgQueueInv
  <2>2. RunShape /\ \A i \in 1 .. N : heard[i] = msg
    BY <2>1 DEF SimpleIInv
  <2>3. msg' = IF msg = "POWER_OFF" THEN "POWER_ON" ELSE "POWER_OFF"
    BY <2>1, <2>2, SMAssumption, SimpleAssumption DEF RunShape, MsgType
  <2>4. QED
    BY <2>1, <2>2, <2>3 DEF Rail!RailNext, Rail!Switch, Rail!Told
<1>2. CASE Deliver
  <2>1. /\ pc = "broadcast" /\ pos \in 1 .. N /\ msg' = msg
        /\ heard' = [heard EXCEPT ![pos] = msg]
    BY <1>2, SlavesAssumption DEF Deliver, SimpleIInv, TypeOK
  <2>2. heard[pos] # msg
    BY <2>1, SlavesAssumption DEF SimpleIInv
  <2>3. \A j \in 1 .. pos - 1 : heard[j] = msg
    BY <2>1 DEF SimpleIInv, SlavesInStep
  <2>4. QED
    BY <2>1, <2>2, <2>3, ZenonT(30) DEF Rail!RailNext, Rail!Tell, Rail!Told
<1>3. CASE ~BroadcastBegin /\ ~Deliver
  BY <1>3 DEF Next, vars, MgmtInit, SMInit, HarvestEvent, ConsumeMsg, BroadcastEnd,
     Rail!railVars
<1>4. QED
  BY <1>1, <1>2, <1>3

\* The manager implements the safety part of the power rail: to its slaves
\* the broadcasts look like one rail that alternates, starting with off, and
\* waits until all have been told.
THEOREM RailRefined == Spec => Rail!RailSafe
<1>1. Init => Rail!RailInit
  BY DEF Init, Rail!RailInit
<1>2. SimpleIInv /\ SimpleIInv' /\ [Next]_vars => [Rail!RailNext]_(Rail!railVars)
  BY RailStep
<1>3. QED
  BY <1>1, <1>2, SimpleIInvAlways, PTL DEF Spec, Rail!RailSafe
=============================================================================
