------------------------ MODULE EnergyMachinesProofs ------------------------
(***************************************************************************)
(* For every capacitor, profile, cost, number of slaves and thresholds in  *)
(* the order of MachinesAssumption: with each machine the state follows    *)
(* the energy and the messages follow the state.                           *)
(***************************************************************************)
EXTENDS EnergyMachines, TLAPS

RetP == INSTANCE RetentionProofs WITH
          FirstSamples <- {v \in FirstSamples : v * energy_profile_mult < thres_ret_to_1}

\* Energies are numbers, and NoMsg is not a message of any machine.
Quantities ==
    /\ N \in Nat /\ Upper \in Nat /\ thres_ret_to_off <= Upper
    /\ energy_profile_mult \in Nat
    /\ FirstSamples \subseteq Nat /\ Samples \subseteq Nat
    /\ Costs \subseteq Nat /\ HandlerCosts \subseteq Nat
    /\ NoMsg \notin Ret!MsgType /\ NoMsg \notin DVFS!MsgType
    /\ NoMsg \notin DFS!MsgType /\ NoMsg \notin Two!MsgType

-----------------------------------------------------------------------------
\* SM_Retention.  EnergyMachines and RetentionProofs take the manager's
\* consumeEnergy from two instances of RetentionPower; they are the same.
LEMMA SameConsume ==
    ASSUME NEW x PROVE Ret!consumeEnergy(x) <=> RetP!consumeEnergy(x)
<1>1. \A s, e : Ret!update(s, e) = RetP!update(s, e)
  BY DEF Ret!update, RetP!update, Ret!PowerFailure, RetP!PowerFailure,
         Ret!EnterRetention, RetP!EnterRetention, Ret!PowerRecovery, RetP!PowerRecovery
<1>2. Ret!EnergyAfter(x) = RetP!EnergyAfter(x)
  BY DEF Ret!EnergyAfter, RetP!EnergyAfter, Ret!Drawn, RetP!Drawn, Ret!Harvested,
         RetP!Harvested, Ret!Leakage, RetP!Leakage, Ret!DirtyPatch, RetP!DirtyPatch,
         Ret!energy_consume_lower_bound, RetP!energy_consume_lower_bound
<1>3. QED
  BY <1>1, <1>2, ZenonT(30) DEF Ret!consumeEnergy, RetP!consumeEnergy, Ret!broadcastMsgAsEvent,
         RetP!broadcastMsgAsEvent

\* So are their steps.
LEMMA RetentionNext ==
    ASSUME machine = "SM_Retention", MachinesNext
    PROVE  RetP!Next
<1>1. CASE Ret!MgmtInit
  BY <1>1, SameConsume
     DEF Ret!MgmtInit, RetP!Next, RetP!MgmtInit, Ret!energyHarvest, RetP!energyHarvest
<1>2. CASE Ret!SMInit
  BY <1>2 DEF Ret!SMInit, RetP!Next, RetP!SMInit, Ret!InitState, RetP!InitState,
              Ret!InitMsg, RetP!InitMsg, Ret!broadcastMsgAsEvent, RetP!broadcastMsgAsEvent
<1>3. CASE Ret!HarvestEvent
  BY <1>3, SameConsume
     DEF Ret!HarvestEvent, RetP!Next, RetP!HarvestEvent, Ret!energyHarvest, RetP!energyHarvest
<1>4. CASE Ret!ConsumeMsg
  BY <1>4, SameConsume DEF Ret!ConsumeMsg, RetP!Next, RetP!ConsumeMsg
<1>5. CASE Ret!BroadcastBegin
  BY <1>5 DEF Ret!BroadcastBegin, RetP!Next, RetP!BroadcastBegin
<1>6. CASE Ret!Deliver
  BY <1>6, SameConsume DEF Ret!Deliver, RetP!Next, RetP!Deliver
<1>7. CASE Ret!BroadcastEnd
  BY <1>7 DEF Ret!BroadcastEnd, RetP!Next, RetP!BroadcastEnd
<1>8. QED
  BY <1>1, <1>2, <1>3, <1>4, <1>5, <1>6, <1>7, SMTT(30)
     DEF MachinesNext, StartUp, Broadcast, Energy

RetentionInv == machine = "SM_Retention" => RetP!RetInv

\* The invariant of RetentionProofs holds whenever the machine is SM_Retention.
LEMMA RetentionHolds == ASSUME Quantities PROVE MachinesSpec => []RetentionInv
<1>1. RetP!Setting
  BY MachinesAssumption, ZenonT(30)
     DEF Quantities, RetP!Setting, Ret!RetThresAssumption, RetP!RetThresAssumption,
         RetP!FirstSampleLow, Ret!MsgType, RetP!MsgType
<1>2. MachinesInit => RetentionInv
  <2>1. ASSUME Ret!Init PROVE RetP!Init
    BY <2>1 DEF Ret!Init, RetP!Init, Ret!StartState, RetP!StartState
  <2>2. QED
    BY <1>1, <2>1, RetP!RetentionInit DEF MachinesInit, RetentionInv
<1>3. RetentionInv /\ [MachinesNext]_<<machine, managerVars>> => RetentionInv'
  <2> SUFFICES ASSUME RetentionInv, [MachinesNext]_<<machine, managerVars>>,
                      machine' = "SM_Retention"
               PROVE  RetP!RetInv'
    BY DEF RetentionInv
  <2>1. machine = "SM_Retention"
    BY DEF MachinesNext
  <2>2. [RetP!Next]_RetP!vars
    BY <2>1, RetentionNext DEF managerVars, RetP!vars
  <2>3. QED
    BY <1>1, <2>1, <2>2, RetP!RetentionStep, ZenonT(30) DEF RetentionInv
<1>4. QED
  BY <1>2, <1>3, PTL DEF MachinesSpec

\* SM_Retention::update leaves a started system in the state its energy asks
\* for, whatever one draw or harvest skips.
THEOREM RetentionOKCorrect == ASSUME Quantities PROVE MachinesSpec => []RetentionOK
<1>1. RetentionInv => RetentionOK
  BY DEF RetentionInv, RetentionOK, RetP!RetInv, RetP!RetentionMatchesEnergy,
         Ret!RetentionMatchesEnergy
<1>2. QED
  BY <1>1, RetentionHolds, PTL


-----------------------------------------------------------------------------
\* What any machine's slaves are told.  q is the queue, ev its event, p the
\* place in the event loop, m the last message broadcast; M are the messages,
\* W the pairs that may follow each other, L those that may be the last one.
Told(q, ev, p, m, M, W, L) ==
    /\ q \in Seq(M) /\ ev \in BOOLEAN /\ m \in M \cup {NoMsg}
    /\ p \in {"mgmt_init", "sm_init", "run", "broadcast"}
    /\ \A i \in 1 .. Len(q) - 1 : <<q[i], q[i + 1]>> \in W
    /\ q # <<>> => q[Len(q)] \in L
    /\ p \in {"mgmt_init", "sm_init"} => q = <<>> /\ m = NoMsg /\ ~ev
    /\ p = "run" => /\ ev <=> q # <<>>
                    /\ q = <<>> => m \in L
                    /\ m # NoMsg /\ q # <<>> => <<m, q[1]>> \in W
    /\ p = "broadcast" => ~ev /\ q # <<>> /\ m = q[1]

\* broadcastMsgAsEvent with a message that may follow the last one.
LEMMA ToldMore ==
    ASSUME NEW q, NEW ev, NEW p, NEW m, NEW M, NEW W, NEW L, Told(q, ev, p, m, M, W, L),
           p \in {"run", "broadcast"}, NEW n \in M, \A l \in L : <<l, n>> \in W,
           NEW L2, n \in L2
    PROVE  Told(Append(q, n), (ev \/ q = <<>>), p, m, M, W, L2)
<1> DEFINE r == Append(q, n)
<1>1. q \in Seq(M) /\ Len(q) \in Nat /\ (q = <<>> <=> Len(q) = 0)
  BY DEF Told
<1>2. r \in Seq(M) /\ Len(r) = Len(q) + 1
  BY <1>1
<1>3. r[Len(q) + 1] = n /\ \A i \in 1 .. Len(q) : r[i] = q[i]
  BY <1>1
<1> HIDE DEF r
<1>4. Len(r) # 0 /\ r # <<>>
  BY <1>1, <1>2
<1>5. r[1] = IF q = <<>> THEN n ELSE q[1]
  BY <1>1, <1>3
<1>6. ASSUME NEW i \in 1 .. Len(r) - 1
      PROVE  <<r[i], r[i + 1]>> \in W
  <2>1. CASE i = Len(q)
    <3>1. q # <<>> /\ r[i] = q[Len(q)] /\ r[i + 1] = n
      BY <1>1, <1>2, <1>3, <1>6, <2>1, SMTT(30)
    <3>2. q[Len(q)] \in L
      BY <3>1 DEF Told
    <3>3. QED
      BY <3>1, <3>2
  <2>2. CASE i # Len(q)
    <3>1. i \in 1 .. Len(q) - 1 /\ r[i] = q[i] /\ r[i + 1] = q[i + 1]
      BY <1>1, <1>2, <1>3, <1>6, <2>2, SMTT(30)
    <3>2. QED
      BY <3>1 DEF Told
  <2>3. QED
    BY <2>1, <2>2
<1>7. r[Len(r)] \in L2
  BY <1>2, <1>3
<1>8. p = "run" => (ev \/ q = <<>>) /\ (m # NoMsg => <<m, r[1]>> \in W)
  BY <1>5 DEF Told
<1>9. p = "broadcast" => ~(ev \/ q = <<>>) /\ m = r[1]
  BY <1>5 DEF Told
<1>10. m \in M \cup {NoMsg} /\ (ev \/ q = <<>>) \in BOOLEAN
  BY DEF Told
<1>11. QED
  BY <1>2, <1>4, <1>6, <1>7, <1>8, <1>9, <1>10, SMTT(30) DEF Told, r

\* The start: the first message goes into an empty queue.
LEMMA ToldFirst ==
    ASSUME NEW q, NEW ev, NEW m, NEW M, NEW W, NEW L, Told(q, ev, "sm_init", m, M, W, L),
           NEW n \in M, NEW L2, n \in L2
    PROVE  Told(q \o <<n>>, (ev \/ (<<n>> # <<>> /\ Len(q \o <<n>>) = 1)), "run", m, M, W, L2)
<1>1. q = <<>> /\ m = NoMsg /\ ~ev /\ ev \in BOOLEAN
  BY DEF Told
<1>2. /\ <<>> \o <<n>> = <<n>> /\ Len(<<n>>) = 1 /\ <<n>> # <<>>
      /\ <<n>> \in Seq(M) /\ <<n>>[1] = n
  OBVIOUS
<1>3. Told(<<n>>, TRUE, "run", m, M, W, L2)
  BY <1>1, <1>2 DEF Told
<1>4. (ev \/ (<<n>> # <<>> /\ Len(<<n>>) = 1)) = TRUE
  BY <1>1, <1>2, SMTT(30)
<1>5. QED
  BY <1>1, <1>2, <1>3, <1>4, ZenonT(30)

\* broadcastMsg takes the first message up ...
LEMMA ToldBegin ==
    ASSUME NEW q, NEW ev, NEW m, NEW M, NEW W, NEW L, Told(q, ev, "run", m, M, W, L), ev
    PROVE  Told(q, FALSE, "broadcast", Head(q), M, W, L)
<1>1. q \in Seq(M) /\ q # <<>>
  BY DEF Told
<1>2. Head(q) = q[1] /\ Head(q) \in M
  BY <1>1
<1>3. QED
  BY <1>1, <1>2 DEF Told

\* ... and takes it away at the end.
LEMMA ToldEnd ==
    ASSUME NEW q, NEW ev, NEW m, NEW M, NEW W, NEW L, Told(q, ev, "broadcast", m, M, W, L)
    PROVE  Told(Tail(q), (ev \/ Tail(q) # <<>>), "run", m, M, W, L)
<1> DEFINE r == Tail(q)
<1>1. q \in Seq(M) /\ q # <<>> /\ m = q[1] /\ ~ev /\ ev \in BOOLEAN /\ m \in M \cup {NoMsg}
  BY DEF Told
<1>2. Len(q) \in Nat \ {0}
  BY <1>1
<1>3. r \in Seq(M) /\ Len(r) = Len(q) - 1
  BY <1>1, <1>2, SMTT(30)
<1>4. \A i \in 1 .. Len(q) - 1 : r[i] = q[i + 1]
  BY <1>1, <1>2
<1>5. r = <<>> <=> Len(r) = 0
  BY <1>3, SMTT(30)
<1> HIDE DEF r
<1>6. ASSUME NEW i \in 1 .. Len(r) - 1
      PROVE  <<r[i], r[i + 1]>> \in W
  <2>1. i + 1 \in 1 .. Len(q) - 1 /\ r[i] = q[i + 1] /\ r[i + 1] = q[(i + 1) + 1]
    BY <1>2, <1>3, <1>4, <1>6, SMTT(30)
  <2>2. QED
    BY <2>1 DEF Told
<1>7. q[Len(q)] \in L
  BY <1>1 DEF Told
<1>8. r # <<>> => r[Len(r)] \in L
  <2>1. r # <<>> => Len(r) \in 1 .. Len(q) - 1 /\ Len(r) + 1 = Len(q)
    BY <1>2, <1>3, <1>5, SMTT(30)
  <2>2. QED
    BY <1>4, <1>7, <2>1, SMTT(30)
<1>9. r = <<>> => m \in L
  <2>1. r = <<>> => Len(q) = 1
    BY <1>2, <1>3, <1>5, SMTT(30)
  <2>2. QED
    BY <1>1, <1>7, <2>1, ZenonT(30)
<1>10. r # <<>> => <<m, r[1]>> \in W
  <2>1. r # <<>> => 1 \in 1 .. Len(q) - 1 /\ r[1] = q[1 + 1]
    BY <1>2, <1>3, <1>4, <1>5, SMTT(30)
  <2>2. QED
    BY <1>1, <2>1 DEF Told
<1>11. (ev \/ r # <<>>) \in BOOLEAN /\ ((ev \/ r # <<>>) <=> r # <<>>)
  BY <1>1
<1>12. QED
  BY <1>1, <1>3, <1>6, <1>8, <1>9, <1>10, <1>11, SMTT(30) DEF Told, r


\* What has been announced: the last message broadcast, then the queue.
Said(q, p, m) == IF p = "broadcast" \/ m = NoMsg THEN q ELSE <<m>> \o q
Walks(a, W, L) ==
    /\ \A i \in 1 .. Len(a) - 1 : <<a[i], a[i + 1]>> \in W
    /\ a # <<>> => a[Len(a)] \in L

\* It is a walk as well.
LEMMA ToldWalk ==
    ASSUME NEW q, NEW ev, NEW p, NEW m, NEW M, NEW W, NEW L, Told(q, ev, p, m, M, W, L)
    PROVE  Walks(Said(q, p, m), W, L)
<1> DEFINE a == Said(q, p, m)
<1>0. a = IF p = "broadcast" \/ m = NoMsg THEN q ELSE <<m>> \o q
  BY DEF Said
<1> HIDE DEF a
<1>1. CASE a = q
  BY <1>1 DEF Told, Walks, a
<1>2. CASE p # "broadcast" /\ m # NoMsg
  <2>1. /\ q \in Seq(M) /\ p = "run" /\ m \in M /\ (q = <<>> => m \in L)
        /\ (q # <<>> => <<m, q[1]>> \in W /\ q[Len(q)] \in L)
    BY <1>2 DEF Told
  <2>2. /\ Len(<<m>> \o q) = Len(q) + 1 /\ Len(q) \in Nat /\ (<<m>> \o q)[1] = m
        /\ \A i \in 1 .. Len(q) : (<<m>> \o q)[i + 1] = q[i]
    BY <2>1
  <2>3. /\ Len(a) = Len(q) + 1 /\ Len(q) \in Nat /\ a[1] = m
        /\ \A i \in 1 .. Len(q) : a[i + 1] = q[i]
    BY <1>0, <1>2, <2>2, ZenonT(30)
  <2>4. q = <<>> <=> Len(q) = 0
    BY <2>1
  <2>5. ASSUME NEW i \in 1 .. Len(a) - 1
        PROVE  <<a[i], a[i + 1]>> \in W
    <3>1. CASE i = 1
      <4>1. q # <<>> /\ a[i + 1] = q[1] /\ a[i] = m
        BY <2>3, <2>4, <2>5, <3>1
      <4>2. QED
        BY <2>1, <4>1
    <3>2. CASE i # 1
      <4>1. i - 1 \in 1 .. Len(q) - 1 /\ (i - 1) + 1 = i
        BY <2>3, <2>5, <3>2, SMTT(30)
      <4>2. a[(i - 1) + 1] = q[i - 1] /\ a[i + 1] = q[(i - 1) + 1]
        BY <2>3, <2>5, <4>1
      <4>3. <<q[i - 1], q[(i - 1) + 1]>> \in W
        BY <4>1 DEF Told
      <4>4. QED
        BY <4>1, <4>2, <4>3, ZenonT(30)
    <3>3. QED
      BY <3>1, <3>2
  <2>6. a[Len(a)] \in L
    <3>1. CASE q = <<>>
      BY <2>1, <2>3, <2>4, <3>1, SMTT(30)
    <3>2. CASE q # <<>>
      <4>1. Len(q) \in 1 .. Len(q)
        BY <2>3, <2>4, <3>2, SMTT(30)
      <4>2. QED
        BY <2>1, <2>3, <3>2, <4>1, SMTT(30)
    <3>3. QED
      BY <3>1, <3>2, SMTT(30)
  <2>7. QED
    BY <2>5, <2>6, SMTT(30) DEF Walks, a
<1>3. QED
  BY <1>0, <1>1, <1>2, SMTT(30)

-----------------------------------------------------------------------------
\* DVFSSM.  Any level may follow any other; the last message names the level.
DVFSWalk == {w \in DVFS!MsgType \X DVFS!MsgType : w[1] # w[2]}
DVFSTold == Told(msg_togo, event_msg, pc, msg, DVFS!MsgType, DVFSWalk, {DVFS!MsgOf(state)})

DVFSInv ==
    machine = "DVFSSM" =>
        /\ energy_remained \in Int /\ DVFSTold
        /\ pc = "mgmt_init" => state = "STATE_INIT"
        /\ pc \in {"run", "broadcast"} => state \in DVFS!State \ {"STATE_INIT"}

\* What consumeEnergy does once the machine has left STATE_INIT.
LEMMA DVFSConsumes ==
    ASSUME Quantities, DVFSTold, pc \in {"run", "broadcast"}, pc' = pc, msg' = msg,
           state \in DVFS!State \ {"STATE_INIT"}, energy_remained \in Int,
           NEW x \in Int, DVFS!consumeEnergy(x)
    PROVE  /\ DVFSTold' /\ state' \in DVFS!State \ {"STATE_INIT"} /\ energy_remained' \in Int
           /\ energy_remained' \notin {thres_off_low, thres_low_mid, thres_mid_high}
                 => state' = DVFS!Band(energy_remained')
<1> DEFINE e == DVFS!EnergyAfter(x)
           u == DVFS!update(state, e)
<1>1. /\ energy_remained' = e /\ state' = u.state /\ msg_togo' = msg_togo \o u.msgs
      /\ event_msg' = (event_msg \/ (u.msgs # <<>> /\ Len(msg_togo \o u.msgs) = 1))
  BY DEF DVFS!consumeEnergy, DVFS!broadcastMsgAsEvent
<1>2. e \in Int
  BY DEF DVFS!EnergyAfter, DVFS!Drawn, DVFS!Harvested, DVFS!Leakage, DVFS!DirtyPatch,
         DVFS!energy_consume_lower_bound, Quantities
<1>3. thres_off_low \in Int /\ thres_low_mid \in Int /\ thres_mid_high \in Int
      /\ thres_off_low < thres_low_mid /\ thres_low_mid < thres_mid_high
  BY MachinesAssumption DEF DVFS!DVFSThresAssumption
<1> HIDE DEF e
<1>4. /\ u.state \in DVFS!State \ {"STATE_INIT"}
      /\ e \notin {thres_off_low, thres_low_mid, thres_mid_high} => u.state = DVFS!Band(e)
      /\ \/ u.state = state /\ u.msgs = <<>>
         \/ u.state # state /\ u.msgs = <<DVFS!MsgOf(u.state)>>
  BY <1>2, <1>3, SMTT(30) DEF DVFS!update, DVFS!GoHigh, DVFS!State, DVFS!Band, DVFS!MsgOf
<1> HIDE DEF u
<1>5. msg_togo \in Seq(DVFS!MsgType) /\ event_msg \in BOOLEAN
  BY DEF DVFSTold, Told
<1>6. DVFSTold'
  <2>1. CASE u.state = state /\ u.msgs = <<>>
    <3>1. msg_togo \o <<>> = msg_togo
      BY <1>5
    <3>2. msg_togo' = msg_togo /\ event_msg' = event_msg /\ state' = state
      BY <1>1, <1>5, <2>1, <3>1, SMTT(30)
    <3>3. QED
      BY <3>2 DEF DVFSTold
  <2>2. CASE u.state # state /\ u.msgs = <<DVFS!MsgOf(u.state)>>
    <3> DEFINE n == DVFS!MsgOf(u.state)
    <3>1. n \in DVFS!MsgType /\ <<DVFS!MsgOf(state), n>> \in DVFSWalk
      BY <1>4, <2>2, ZenonT(30) DEF DVFSWalk, DVFS!MsgType, DVFS!State, DVFS!MsgOf
    <3>2. u.msgs = <<n>> /\ n = DVFS!MsgOf(state')
      BY <1>1, <2>2
    <3> HIDE DEF n
    <3>3. /\ msg_togo \o <<n>> = Append(msg_togo, n) /\ <<n>> # <<>>
          /\ Len(msg_togo \o <<n>>) = 1 <=> msg_togo = <<>>
      BY <1>5, <3>1
    <3>4. msg_togo' = Append(msg_togo, n) /\ event_msg' = (event_msg \/ msg_togo = <<>>)
      BY <1>1, <3>2, <3>3, ZenonT(30)
    <3>5. Told(Append(msg_togo, n), (event_msg \/ msg_togo = <<>>), pc, msg,
               DVFS!MsgType, DVFSWalk, {n})
      BY <3>1, ToldMore, SMTT(30) DEF DVFSTold
    <3>6. QED
      BY <3>2, <3>4, <3>5, ZenonT(30) DEF DVFSTold
  <2>3. QED
    BY <1>4, <2>1, <2>2, ZenonT(30)
<1>7. QED
  BY <1>1, <1>2, <1>4, <1>6, SMTT(30)


\* Every step keeps the invariant and puts the level where the energy says.
LEMMA DVFSStep ==
    ASSUME Quantities, machine = "DVFSSM", DVFSInv, [MachinesNext]_<<machine, managerVars>>
    PROVE  DVFSInv' /\ DVFS!LevelStep
<1>1. /\ energy_remained \in Int /\ DVFSTold
      /\ pc = "mgmt_init" => state = "STATE_INIT"
      /\ pc \in {"run", "broadcast"} => state \in DVFS!State \ {"STATE_INIT"}
  BY DEF DVFSInv
<1>2. ASSUME UNCHANGED <<energy_remained, state, msg_togo, event_msg, pc, msg>>
      PROVE  DVFSInv' /\ DVFS!LevelStep
  BY <1>1, <1>2 DEF DVFSInv, DVFSTold, DVFS!LevelStep
<1>3. ASSUME NEW x \in Int, DVFS!consumeEnergy(x), pc \in {"run", "broadcast"},
             pc' = pc, msg' = msg
      PROVE  DVFSInv' /\ DVFS!LevelStep
  <2>1. /\ DVFSTold' /\ state' \in DVFS!State \ {"STATE_INIT"} /\ energy_remained' \in Int
        /\ energy_remained' \notin {thres_off_low, thres_low_mid, thres_mid_high}
              => state' = DVFS!Band(energy_remained')
    BY <1>1, <1>3, DVFSConsumes, ZenonT(30)
  <2>2. QED
    BY <1>3, <2>1 DEF DVFSInv, DVFS!LevelStep
<1>4. CASE DVFS!MgmtInit
  <2>1. /\ pc = "mgmt_init" /\ pc' = "sm_init" /\ msg' = msg /\ state = "STATE_INIT"
        /\ msg_togo = <<>> /\ msg = NoMsg /\ event_msg = FALSE
    <3>1. /\ pc = "mgmt_init" /\ pc' = "sm_init" /\ msg' = msg
      BY <1>4 DEF DVFS!MgmtInit
    <3>2. msg_togo = <<>> /\ msg = NoMsg /\ ~event_msg /\ event_msg \in BOOLEAN
      BY <1>1, <3>1 DEF DVFSTold, Told
    <3>3. QED
      BY <1>1, <3>1, <3>2, ZenonT(30)
  <2>2. energy_remained' \in Int /\ msg_togo' = <<>> /\ event_msg' = FALSE
    <3>1. CASE UNCHANGED <<energy_remained, state, msg_togo, event_msg>>
      BY <1>1, <2>1, <3>1, ZenonT(30)
    <3>2. ASSUME NEW val \in FirstSamples, DVFS!consumeEnergy(-val)
          PROVE  energy_remained' \in Int /\ msg_togo' = <<>> /\ event_msg' = FALSE
      <4> DEFINE e == DVFS!EnergyAfter(-val)
      <4>1. e \in Int
        BY <1>1 DEF DVFS!EnergyAfter, DVFS!Drawn, DVFS!Harvested, DVFS!Leakage,
                DVFS!DirtyPatch, DVFS!energy_consume_lower_bound, Quantities
      <4> HIDE DEF e
      <4>2. DVFS!update(state, e).msgs = <<>>
        BY <2>1 DEF DVFS!update
      <4>3. /\ energy_remained' = e /\ msg_togo' = <<>> \o <<>>
            /\ event_msg' = (FALSE \/ (<<>> # <<>> /\ Len(<<>> \o <<>>) = 1))
        BY <2>1, <3>2, <4>2, ZenonT(30) DEF DVFS!consumeEnergy, DVFS!broadcastMsgAsEvent, e
      <4>4. <<>> \o <<>> = <<>>
        OBVIOUS
      <4>5. QED
        BY <4>1, <4>3, <4>4, ZenonT(30)
    <3>3. QED
      BY <1>4, <3>1, <3>2, ZenonT(30) DEF DVFS!MgmtInit, DVFS!energyHarvest
  <2>3. Told(<<>>, FALSE, "sm_init", NoMsg, DVFS!MsgType, DVFSWalk, {DVFS!MsgOf(state')})
    <3>1. <<>> \in Seq(DVFS!MsgType) /\ Len(<<>>) = 0
      OBVIOUS
    <3>2. 1 .. Len(<<>>) - 1 = {}
      BY <3>1
    <3>3. QED
      BY <3>1, <3>2 DEF Told
  <2>4. QED
    BY <2>1, <2>2, <2>3, ZenonT(30) DEF DVFSInv, DVFSTold, DVFS!LevelStep
<1>5. CASE DVFS!SMInit
  <2>1. /\ pc = "sm_init" /\ pc' = "run" /\ msg' = msg /\ energy_remained' = energy_remained
        /\ state' = "STATE_OFF" /\ msg_togo' = msg_togo \o <<"POWEROFF">>
        /\ event_msg' = (event_msg \/ (<<"POWEROFF">> # <<>> /\ Len(msg_togo \o <<"POWEROFF">>) = 1))
    BY <1>5 DEF DVFS!SMInit, DVFS!InitState, DVFS!InitMsg, DVFS!broadcastMsgAsEvent
  <2>2. "POWEROFF" \in DVFS!MsgType /\ DVFS!MsgOf(state') = "POWEROFF"
        /\ state' \in DVFS!State \ {"STATE_INIT"}
    BY <2>1 DEF DVFS!MsgType, DVFS!MsgOf, DVFS!State
  <2>3. Told(msg_togo, event_msg, "sm_init", msg, DVFS!MsgType, DVFSWalk, {DVFS!MsgOf(state)})
    BY <1>1, <2>1 DEF DVFSTold
  <2>4. Told(msg_togo \o <<"POWEROFF">>,
             (event_msg \/ (<<"POWEROFF">> # <<>> /\ Len(msg_togo \o <<"POWEROFF">>) = 1)),
             "run", msg, DVFS!MsgType, DVFSWalk, {"POWEROFF"})
    BY <2>2, <2>3, ToldFirst, ZenonT(30)
  <2>5. DVFSTold'
    BY <2>1, <2>2, <2>4, ZenonT(30) DEF DVFSTold
  <2>6. QED
    BY <1>1, <2>1, <2>2, <2>5, ZenonT(30) DEF DVFSInv, DVFS!LevelStep
<1>6. CASE DVFS!HarvestEvent
  <2>1. pc = "run" /\ pc' = pc /\ msg' = msg
    BY <1>6 DEF DVFS!HarvestEvent
  <2>2. CASE UNCHANGED <<energy_remained, state, msg_togo, event_msg>>
    BY <1>2, <2>1, <2>2, ZenonT(30)
  <2>3. ASSUME NEW val \in Samples, DVFS!consumeEnergy(-val)
        PROVE  DVFSInv' /\ DVFS!LevelStep
    <3>1. -val \in Int
      BY DEF Quantities
    <3>2. QED
      BY <1>3, <2>1, <2>3, <3>1, ZenonT(30)
  <2>4. QED
    BY <1>6, <2>2, <2>3, ZenonT(30) DEF DVFS!HarvestEvent, DVFS!energyHarvest
<1>7. CASE DVFS!ConsumeMsg
  <2>1. PICK val \in Costs : DVFS!consumeEnergy(val)
    BY <1>7 DEF DVFS!ConsumeMsg
  <2>2. val \in Int /\ pc = "run" /\ pc' = pc /\ msg' = msg
    BY <1>7 DEF DVFS!ConsumeMsg, Quantities
  <2>3. QED
    BY <1>3, <2>1, <2>2, ZenonT(30)
<1>8. CASE DVFS!BroadcastBegin
  <2>1. /\ pc = "run" /\ pc' = "broadcast" /\ event_msg /\ event_msg' = FALSE
        /\ msg' = Head(msg_togo) /\ UNCHANGED <<energy_remained, state, msg_togo>>
    BY <1>8 DEF DVFS!BroadcastBegin
  <2>2. Told(msg_togo, FALSE, "broadcast", Head(msg_togo), DVFS!MsgType, DVFSWalk,
             {DVFS!MsgOf(state)})
    BY <1>1, <2>1, ToldBegin, ZenonT(30) DEF DVFSTold
  <2>3. QED
    BY <1>1, <2>1, <2>2, ZenonT(30) DEF DVFSInv, DVFSTold, DVFS!LevelStep
<1>9. CASE DVFS!BroadcastEnd
  <2>1. /\ pc = "broadcast" /\ pc' = "run" /\ msg_togo' = Tail(msg_togo) /\ msg' = msg
        /\ event_msg' = (event_msg \/ Tail(msg_togo) # <<>>)
        /\ UNCHANGED <<energy_remained, state>>
    BY <1>9 DEF DVFS!BroadcastEnd
  <2>2. Told(Tail(msg_togo), (event_msg \/ Tail(msg_togo) # <<>>), "run", msg,
             DVFS!MsgType, DVFSWalk, {DVFS!MsgOf(state)})
    BY <1>1, <2>1, ToldEnd, ZenonT(30) DEF DVFSTold
  <2>3. QED
    BY <1>1, <2>1, <2>2, ZenonT(30) DEF DVFSInv, DVFSTold, DVFS!LevelStep
<1>10. CASE DVFS!Deliver
  <2>1. pc = "broadcast" /\ pc' = pc /\ msg' = msg
    BY <1>10 DEF DVFS!Deliver
  <2>2. CASE UNCHANGED <<energy_remained, state, msg_togo, event_msg>>
    BY <1>2, <2>1, <2>2, ZenonT(30)
  <2>3. ASSUME NEW val \in HandlerCosts, DVFS!consumeEnergy(val)
        PROVE  DVFSInv' /\ DVFS!LevelStep
    <3>1. val \in Int
      BY DEF Quantities
    <3>2. QED
      BY <1>3, <2>1, <2>3, <3>1, ZenonT(30)
  <2>4. QED
    BY <1>10, <2>2, <2>3, ZenonT(30) DEF DVFS!Deliver
<1>11. CASE UNCHANGED <<machine, managerVars>>
  BY <1>2, <1>11 DEF managerVars
<1>12. QED
  BY <1>4, <1>5, <1>6, <1>7, <1>8, <1>9, <1>10, <1>11, SMTT(30)
     DEF MachinesNext, StartUp, Broadcast, Energy


-----------------------------------------------------------------------------
\* DFS_LRY.  A message leads from one level to another.
DFSWalk == {w \in DFS!MsgType \X DFS!MsgType : DFS!Target(w[1]) \in DFS!Sources(w[2])}
DFSLast(s) == {m \in DFS!MsgType : DFS!Target(m) = s}
DFSTold == Told(msg_togo, event_msg, pc, msg, DFS!MsgType, DFSWalk, DFSLast(state))

DFSInv ==
    machine = "DFS_LRY" =>
        /\ DFSTold
        /\ pc = "mgmt_init" => state = DFS!STATE_INIT
        /\ pc \in {"run", "broadcast"} => state \in 0 .. 6

\* Where FREQto(i, j) comes from and leads to.
LEMMA FREQtoLeads ==
    ASSUME NEW i \in Int, NEW j \in Int
    PROVE  DFS!Target(DFS!FREQto(i, j)) = j + 1 /\ DFS!Sources(DFS!FREQto(i, j)) = {i + 1}
<1> DEFINE f == DFS!FREQto(i, j)
<1>1. f = <<"FREQ", i, j>>
  BY DEF DFS!FREQto
<1>2. f[1] = "FREQ" /\ f[2] = i /\ f[3] = j
  BY <1>1
<1>3. /\ DFS!POWEROFF[1] = "POWEROFF" /\ DFS!POWERON[1] = "POWERON"
      /\ DFS!RETENTION_BEG[1] = "RETENTION_BEG" /\ DFS!RETENTION_END[1] = "RETENTION_END"
  BY DEF DFS!POWEROFF, DFS!POWERON, DFS!RETENTION_BEG, DFS!RETENTION_END
<1>4. f \notin {DFS!POWEROFF, DFS!POWERON, DFS!RETENTION_BEG, DFS!RETENTION_END}
  BY <1>2, <1>3
<1> HIDE DEF f
<1>5. DFS!Target(f) = f[3] + 1 /\ DFS!Sources(f) = {f[2] + 1}
  BY <1>4 DEF DFS!Target, DFS!Sources, DFS!FREQ
<1>6. QED
  BY <1>2, <1>5 DEF f

\* Where the others do.
LEMMA OthersLead ==
    /\ DFS!Target(DFS!POWEROFF) = 0 /\ DFS!Sources(DFS!POWEROFF) = {1}
    /\ DFS!Target(DFS!POWERON) = 2 /\ DFS!Sources(DFS!POWERON) = {0}
    /\ DFS!Target(DFS!RETENTION_BEG) = 1 /\ DFS!Sources(DFS!RETENTION_BEG) = {2}
    /\ DFS!Target(DFS!RETENTION_END) = 2 /\ DFS!Sources(DFS!RETENTION_END) = {1}
<1>1. /\ DFS!POWEROFF[1] = "POWEROFF" /\ DFS!POWERON[1] = "POWERON"
      /\ DFS!RETENTION_BEG[1] = "RETENTION_BEG" /\ DFS!RETENTION_END[1] = "RETENTION_END"
  BY DEF DFS!POWEROFF, DFS!POWERON, DFS!RETENTION_BEG, DFS!RETENTION_END
<1>2. /\ DFS!POWEROFF # DFS!POWERON /\ DFS!POWEROFF # DFS!RETENTION_BEG
      /\ DFS!POWEROFF # DFS!RETENTION_END /\ DFS!POWERON # DFS!RETENTION_BEG
      /\ DFS!POWERON # DFS!RETENTION_END /\ DFS!RETENTION_BEG # DFS!RETENTION_END
  BY <1>1, SMTT(30)
<1>3. QED
  BY <1>2 DEF DFS!Target, DFS!Sources, DFS!FREQ, DFS!STATE_POWEROFF, DFS!STATE_RETENTION

\* update moves by at most one level (or straight from off to the lowest
\* frequency), with the message that leads there.
LEMMA DFSMoves ==
    ASSUME NEW s \in 0 .. 6, NEW e
    PROVE  LET u == DFS!update(s, e)
           IN  /\ u.state \in 0 .. 6
               /\ \/ u.state = s /\ u.msgs = <<>>
                  \/ \E n \in DFS!MsgType : /\ u.msgs = <<n>> /\ DFS!Target(n) = u.state
                                            /\ s \in DFS!Sources(n)
<1> DEFINE to == DFS!NextLevel(s, e)
           n == DFS!MsgFor(s, to)
<1>1. \/ to = s
      \/ s \in 3 .. 6 /\ to = s - 1
      \/ s \in 2 .. 5 /\ to = s + 1
      \/ s = 2 /\ to = 1
      \/ s = 1 /\ to = 2
      \/ s = 0 /\ to = 2
      \/ s = 1 /\ to = 0
  BY DEF DFS!NextLevel, DFS!Slower, DFS!Faster, DFS!FREQ, DFS!STATE_INIT,
         DFS!STATE_POWEROFF, DFS!STATE_RETENTION
<1> HIDE DEF to
<1>2. /\ DFS!update(s, e).state = to
      /\ DFS!update(s, e).msgs = IF to = s THEN <<>> ELSE <<n>>
  BY DEF DFS!update, DFS!STATE_INIT, to
<1>3. to \in 0 .. 6
  BY <1>1
<1>4. CASE s \in 3 .. 6 /\ to = s - 1
  <2>1. n = DFS!FREQto(s - 1, (s - 1) - 1)
    BY <1>4 DEF DFS!MsgFor, DFS!STATE_POWEROFF, DFS!STATE_RETENTION
  <2>2. s - 1 \in 2 .. 5
    BY <1>4
  <2>3. n \in DFS!MsgType
    BY <2>1, <2>2, SMTT(30) DEF DFS!MsgType
  <2>4. DFS!Target(n) = to /\ s \in DFS!Sources(n)
    <3>1. DFS!Target(n) = ((s - 1) - 1) + 1 /\ DFS!Sources(n) = {(s - 1) + 1}
      BY <2>1, FREQtoLeads
    <3>2. ((s - 1) - 1) + 1 = to /\ (s - 1) + 1 = s
      BY <1>4
    <3>3. QED
      BY <3>1, <3>2, SMTT(30)
  <2>5. QED
    BY <1>2, <1>3, <1>4, <2>3, <2>4, SMTT(30)
<1>5. CASE s \in 2 .. 5 /\ to = s + 1
  <2>1. n = DFS!FREQto(s - 1, (s - 1) + 1)
    <3>1. (s + 1) - 1 = (s - 1) + 1
      BY <1>5
    <3>2. n = DFS!FREQto(s - 1, (s + 1) - 1)
      BY <1>5 DEF DFS!MsgFor, DFS!STATE_POWEROFF, DFS!STATE_RETENTION
    <3>3. QED
      BY <3>1, <3>2
  <2>2. s - 1 \in 1 .. 4
    BY <1>5
  <2>3. n \in DFS!MsgType
    BY <2>1, <2>2, SMTT(30) DEF DFS!MsgType
  <2>4. DFS!Target(n) = to /\ s \in DFS!Sources(n)
    <3>1. DFS!Target(n) = ((s - 1) + 1) + 1 /\ DFS!Sources(n) = {(s - 1) + 1}
      BY <2>1, FREQtoLeads, SMTT(30)
    <3>2. ((s - 1) + 1) + 1 = to /\ (s - 1) + 1 = s
      BY <1>5, SMTT(30)
    <3>3. QED
      BY <3>1, <3>2, SMTT(30)
  <2>5. QED
    BY <1>2, <1>3, <1>5, <2>3, <2>4, SMTT(30)
<1>6. CASE s = 2 /\ to = 1
  <2>1. n = DFS!RETENTION_BEG
    BY <1>6 DEF DFS!MsgFor, DFS!STATE_POWEROFF, DFS!STATE_RETENTION
  <2>2. n \in DFS!MsgType
    BY <2>1, SMTT(30) DEF DFS!MsgType
  <2>3. QED
    BY <1>2, <1>3, <1>6, <2>1, <2>2, OthersLead, SMTT(30)
<1>7. CASE s = 1 /\ to = 2
  <2>1. n = DFS!RETENTION_END
    BY <1>7 DEF DFS!MsgFor, DFS!STATE_POWEROFF, DFS!STATE_RETENTION
  <2>2. n \in DFS!MsgType
    BY <2>1, SMTT(30) DEF DFS!MsgType
  <2>3. QED
    BY <1>2, <1>3, <1>7, <2>1, <2>2, OthersLead, SMTT(30)
<1>8. CASE s = 0 /\ to = 2
  <2>1. n = DFS!POWERON
    BY <1>8 DEF DFS!MsgFor, DFS!STATE_POWEROFF, DFS!STATE_RETENTION
  <2>2. n \in DFS!MsgType
    BY <2>1, SMTT(30) DEF DFS!MsgType
  <2>3. QED
    BY <1>2, <1>3, <1>8, <2>1, <2>2, OthersLead, SMTT(30)
<1>9. CASE s = 1 /\ to = 0
  <2>1. n = DFS!POWEROFF
    BY <1>9 DEF DFS!MsgFor, DFS!STATE_POWEROFF, DFS!STATE_RETENTION
  <2>2. n \in DFS!MsgType
    BY <2>1, SMTT(30) DEF DFS!MsgType
  <2>3. QED
    BY <1>2, <1>3, <1>9, <2>1, <2>2, OthersLead, SMTT(30)
<1>10. QED
  BY <1>1, <1>2, <1>3, <1>4, <1>5, <1>6, <1>7, <1>8, <1>9, SMTT(30)


\* What consumeEnergy does once the machine has left STATE_INIT.
LEMMA DFSConsumes ==
    ASSUME DFSTold, pc \in {"run", "broadcast"}, pc' = pc, msg' = msg,
           state \in 0 .. 6, NEW x, DFS!consumeEnergy(x)
    PROVE  DFSTold' /\ state' \in 0 .. 6
<1> DEFINE u == DFS!update(state, DFS!EnergyAfter(x))
<1>1. /\ state' = u.state /\ msg_togo' = msg_togo \o u.msgs
      /\ event_msg' = (event_msg \/ (u.msgs # <<>> /\ Len(msg_togo \o u.msgs) = 1))
  BY DEF DFS!consumeEnergy, DFS!broadcastMsgAsEvent
<1>2. /\ u.state \in 0 .. 6
      /\ \/ u.state = state /\ u.msgs = <<>>
         \/ \E n \in DFS!MsgType : /\ u.msgs = <<n>> /\ DFS!Target(n) = u.state
                                   /\ state \in DFS!Sources(n)
  BY DFSMoves, ZenonT(30)
<1> HIDE DEF u
<1>3. msg_togo \in Seq(DFS!MsgType) /\ event_msg \in BOOLEAN
  BY DEF DFSTold, Told
<1>4. CASE u.state = state /\ u.msgs = <<>>
  <2>1. msg_togo \o <<>> = msg_togo
    BY <1>3
  <2>2. msg_togo' = msg_togo /\ event_msg' = event_msg /\ state' = state
    BY <1>1, <1>3, <1>4, <2>1, SMTT(30)
  <2>3. QED
    BY <2>2 DEF DFSTold
<1>5. ASSUME NEW n \in DFS!MsgType, u.msgs = <<n>>, DFS!Target(n) = u.state,
             state \in DFS!Sources(n)
      PROVE  DFSTold'
  <2>1. \A l \in DFSLast(state) : <<l, n>> \in DFSWalk
    BY <1>5 DEF DFSLast, DFSWalk
  <2>2. n \in DFSLast(state')
    BY <1>1, <1>5 DEF DFSLast
  <2>3. /\ msg_togo \o <<n>> = Append(msg_togo, n) /\ <<n>> # <<>>
        /\ Len(msg_togo \o <<n>>) = 1 <=> msg_togo = <<>>
    BY <1>3, <1>5
  <2>4. msg_togo' = Append(msg_togo, n) /\ event_msg' = (event_msg \/ msg_togo = <<>>)
    BY <1>1, <1>5, <2>3, ZenonT(30)
  <2>5. Told(Append(msg_togo, n), (event_msg \/ msg_togo = <<>>), pc, msg,
             DFS!MsgType, DFSWalk, DFSLast(state'))
    BY <2>1, <2>2, ToldMore, SMTT(30) DEF DFSTold
  <2>6. QED
    BY <2>4, <2>5, SMTT(30) DEF DFSTold
<1>6. QED
  BY <1>1, <1>2, <1>4, <1>5, SMTT(30)


\* Every step keeps the invariant.
LEMMA DFSStep ==
    ASSUME machine = "DFS_LRY", DFSInv, [MachinesNext]_<<machine, managerVars>>
    PROVE  DFSInv'
<1>1. /\ DFSTold
      /\ pc = "mgmt_init" => state = DFS!STATE_INIT
      /\ pc \in {"run", "broadcast"} => state \in 0 .. 6
  BY DEF DFSInv
<1>2. ASSUME UNCHANGED <<energy_remained, state, msg_togo, event_msg, pc, msg>>
      PROVE  DFSInv'
  BY <1>1, <1>2 DEF DFSInv, DFSTold
<1>3. ASSUME NEW x, DFS!consumeEnergy(x), pc \in {"run", "broadcast"},
             pc' = pc, msg' = msg
      PROVE  DFSInv'
  <2>1. DFSTold' /\ state' \in 0 .. 6
    BY <1>1, <1>3, DFSConsumes, SMTT(30)
  <2>2. QED
    BY <1>3, <2>1, SMTT(30) DEF DFSInv
<1>4. CASE DFS!MgmtInit
  <2>1. /\ pc = "mgmt_init" /\ pc' = "sm_init" /\ msg' = msg /\ state = DFS!STATE_INIT
        /\ msg_togo = <<>> /\ msg = NoMsg /\ event_msg = FALSE
    <3>1. /\ pc = "mgmt_init" /\ pc' = "sm_init" /\ msg' = msg
      BY <1>4 DEF DFS!MgmtInit
    <3>2. msg_togo = <<>> /\ msg = NoMsg /\ ~event_msg /\ event_msg \in BOOLEAN
      BY <1>1, <3>1 DEF DFSTold, Told
    <3>3. QED
      BY <1>1, <3>1, <3>2, ZenonT(30)
  <2>2. msg_togo' = <<>> /\ event_msg' = FALSE
    <3>1. CASE UNCHANGED <<energy_remained, state, msg_togo, event_msg>>
      BY <1>1, <2>1, <3>1, ZenonT(30)
    <3>2. ASSUME NEW val \in FirstSamples, DFS!consumeEnergy(-val)
          PROVE  msg_togo' = <<>> /\ event_msg' = FALSE
      <4>1. DFS!update(state, DFS!EnergyAfter(-val)).msgs = <<>>
        BY <2>1, SMTT(30) DEF DFS!update
      <4>3. /\ msg_togo' = <<>> \o <<>>
            /\ event_msg' = (FALSE \/ (<<>> # <<>> /\ Len(<<>> \o <<>>) = 1))
        BY <2>1, <3>2, <4>1, SMTT(30) DEF DFS!consumeEnergy, DFS!broadcastMsgAsEvent
      <4>4. <<>> \o <<>> = <<>>
        OBVIOUS
      <4>5. QED
        BY <4>3, <4>4, ZenonT(30)
    <3>3. QED
      BY <1>4, <3>1, <3>2, ZenonT(30) DEF DFS!MgmtInit, DFS!energyHarvest
  <2>3. Told(<<>>, FALSE, "sm_init", NoMsg, DFS!MsgType, DFSWalk, DFSLast(state'))
    <3>1. <<>> \in Seq(DFS!MsgType) /\ Len(<<>>) = 0
      OBVIOUS
    <3>2. 1 .. Len(<<>>) - 1 = {}
      BY <3>1, SMTT(30)
    <3>3. QED
      BY <3>1, <3>2, SMTT(30) DEF Told
  <2>4. QED
    BY <2>1, <2>2, <2>3, ZenonT(30) DEF DFSInv, DFSTold
<1>5. CASE DFS!SMInit
  <2> DEFINE n == DFS!POWEROFF
  <2>1. /\ pc = "sm_init" /\ pc' = "run" /\ msg' = msg
        /\ state' = 0 /\ msg_togo' = msg_togo \o <<n>>
        /\ event_msg' = (event_msg \/ (<<n>> # <<>> /\ Len(msg_togo \o <<n>>) = 1))
    BY <1>5 DEF DFS!SMInit, DFS!InitState, DFS!InitMsg, DFS!broadcastMsgAsEvent,
                DFS!STATE_POWEROFF
  <2>2. n \in DFS!MsgType /\ n \in DFSLast(state')
    BY <2>1, OthersLead, ZenonT(30) DEF DFS!MsgType, DFSLast
  <2> HIDE DEF n
  <2>3. Told(msg_togo, event_msg, "sm_init", msg, DFS!MsgType, DFSWalk, DFSLast(state))
    BY <1>1, <2>1, SMTT(30) DEF DFSTold
  <2>4. Told(msg_togo \o <<n>>, (event_msg \/ (<<n>> # <<>> /\ Len(msg_togo \o <<n>>) = 1)),
             "run", msg, DFS!MsgType, DFSWalk, DFSLast(state'))
    BY <2>2, <2>3, ToldFirst, SMTT(30)
  <2>5. DFSTold'
    BY <2>1, <2>4, SMTT(30) DEF DFSTold
  <2>6. QED
    BY <2>1, <2>5, SMTT(30) DEF DFSInv
<1>6. CASE DFS!HarvestEvent
  <2>1. pc = "run" /\ pc' = pc /\ msg' = msg
    BY <1>6 DEF DFS!HarvestEvent
  <2>2. CASE UNCHANGED <<energy_remained, state, msg_togo, event_msg>>
    BY <1>2, <2>1, <2>2, ZenonT(30)
  <2>3. ASSUME NEW val \in Samples, DFS!consumeEnergy(-val)
        PROVE  DFSInv'
    BY <1>3, <2>1, <2>3, SMTT(30)
  <2>4. QED
    BY <1>6, <2>2, <2>3, ZenonT(30) DEF DFS!HarvestEvent, DFS!energyHarvest
<1>7. CASE DFS!ConsumeMsg
  <2>1. PICK val \in Costs : DFS!consumeEnergy(val)
    BY <1>7 DEF DFS!ConsumeMsg
  <2>2. pc = "run" /\ pc' = pc /\ msg' = msg
    BY <1>7 DEF DFS!ConsumeMsg
  <2>3. QED
    BY <1>3, <2>1, <2>2, ZenonT(30)
<1>8. CASE DFS!BroadcastBegin
  <2>1. /\ pc = "run" /\ pc' = "broadcast" /\ event_msg /\ event_msg' = FALSE
        /\ msg' = Head(msg_togo) /\ UNCHANGED <<energy_remained, state, msg_togo>>
    BY <1>8 DEF DFS!BroadcastBegin
  <2>2. Told(msg_togo, FALSE, "broadcast", Head(msg_togo), DFS!MsgType, DFSWalk,
             DFSLast(state))
    BY <1>1, <2>1, ToldBegin, ZenonT(30) DEF DFSTold
  <2>3. QED
    BY <1>1, <2>1, <2>2, ZenonT(30) DEF DFSInv, DFSTold
<1>9. CASE DFS!BroadcastEnd
  <2>1. /\ pc = "broadcast" /\ pc' = "run" /\ msg_togo' = Tail(msg_togo) /\ msg' = msg
        /\ event_msg' = (event_msg \/ Tail(msg_togo) # <<>>)
        /\ UNCHANGED <<energy_remained, state>>
    BY <1>9 DEF DFS!BroadcastEnd
  <2>2. Told(Tail(msg_togo), (event_msg \/ Tail(msg_togo) # <<>>), "run", msg,
             DFS!MsgType, DFSWalk, DFSLast(state))
    BY <1>1, <2>1, ToldEnd, ZenonT(30) DEF DFSTold
  <2>3. QED
    BY <1>1, <2>1, <2>2, ZenonT(30) DEF DFSInv, DFSTold
<1>10. CASE DFS!Deliver
  <2>1. pc = "broadcast" /\ pc' = pc /\ msg' = msg
    BY <1>10 DEF DFS!Deliver
  <2>2. CASE UNCHANGED <<energy_remained, state, msg_togo, event_msg>>
    BY <1>2, <2>1, <2>2, ZenonT(30)
  <2>3. ASSUME NEW val \in HandlerCosts, DFS!consumeEnergy(val)
        PROVE  DFSInv'
    BY <1>3, <2>1, <2>3, ZenonT(30)
  <2>4. QED
    BY <1>10, <2>2, <2>3, ZenonT(30) DEF DFS!Deliver
<1>11. CASE UNCHANGED <<machine, managerVars>>
  BY <1>2, <1>11, SMTT(30) DEF managerVars
<1>12. QED
  BY <1>4, <1>5, <1>6, <1>7, <1>8, <1>9, <1>10, <1>11, SMTT(30)
     DEF MachinesNext, StartUp, Broadcast, Energy


-----------------------------------------------------------------------------
\* TwoThresSM.  On and off alternate, beginning with off.
TwoMsgOf(s) == IF s = "STATE_POWEROFF" THEN "POWEROFF" ELSE "POWERON"
TwoWalk == {<<"POWEROFF", "POWERON">>, <<"POWERON", "POWEROFF">>}
TwoTold == Told(msg_togo, event_msg, pc, msg, Two!MsgType, TwoWalk, {TwoMsgOf(state)})

\* Outside a broadcast all slaves have heard the last message; inside one those
\* before pos have heard the new one and the others have not.
TwoHeard ==
    /\ pos \in 1 .. N + 1 /\ heard \in [1 .. N -> Two!MsgType \cup {NoMsg}]
    /\ pc # "broadcast" => pos = 1 /\ \A i \in 1 .. N : heard[i] = msg
    /\ pc = "broadcast" => \A i \in 1 .. N : heard[i] = msg <=> i < pos

TwoInv ==
    machine = "TwoThresSM" =>
        /\ TwoTold /\ TwoHeard
        /\ pc = "mgmt_init" => state = "STATE_INIT"
        /\ pc \in {"run", "broadcast"} => state \in {"STATE_POWEROFF", "STATE_POWERON"}
        /\ pc = "run" /\ msg = NoMsg => msg_togo # <<>> /\ msg_togo[1] = "POWEROFF"

\* What consumeEnergy does once the machine has left STATE_INIT.
LEMMA TwoConsumes ==
    ASSUME TwoTold, pc \in {"run", "broadcast"}, pc' = pc, msg' = msg,
           state \in {"STATE_POWEROFF", "STATE_POWERON"}, NEW x, Two!consumeEnergy(x)
    PROVE  /\ TwoTold' /\ state' \in {"STATE_POWEROFF", "STATE_POWERON"}
           /\ msg_togo # <<>> => msg_togo' # <<>> /\ msg_togo'[1] = msg_togo[1]
<1> DEFINE u == Two!update(state, Two!EnergyAfter(x))
<1>1. /\ state' = u.state /\ msg_togo' = msg_togo \o u.msgs
      /\ event_msg' = (event_msg \/ (u.msgs # <<>> /\ Len(msg_togo \o u.msgs) = 1))
  BY DEF Two!consumeEnergy, Two!broadcastMsgAsEvent
<1>2. /\ u.state \in {"STATE_POWEROFF", "STATE_POWERON"}
      /\ \/ u.state = state /\ u.msgs = <<>>
         \/ u.state # state /\ u.msgs = <<TwoMsgOf(u.state)>>
  BY DEF Two!update, TwoMsgOf
<1> HIDE DEF u
<1>3. msg_togo \in Seq(Two!MsgType) /\ event_msg \in BOOLEAN
  BY DEF TwoTold, Told
<1>4. CASE u.state = state /\ u.msgs = <<>>
  <2>1. msg_togo \o <<>> = msg_togo
    BY <1>3
  <2>2. msg_togo' = msg_togo /\ event_msg' = event_msg /\ state' = state
    BY <1>1, <1>3, <1>4, <2>1, SMTT(30)
  <2>3. QED
    BY <2>2 DEF TwoTold
<1>5. CASE u.state # state /\ u.msgs = <<TwoMsgOf(u.state)>>
  <2> DEFINE n == TwoMsgOf(u.state)
  <2>1. n \in Two!MsgType /\ <<TwoMsgOf(state), n>> \in TwoWalk
    BY <1>2, <1>5, SMTT(30) DEF TwoMsgOf, TwoWalk, Two!MsgType
  <2>2. u.msgs = <<n>> /\ n = TwoMsgOf(state')
    BY <1>1, <1>5
  <2> HIDE DEF n
  <2>3. /\ msg_togo \o <<n>> = Append(msg_togo, n) /\ <<n>> # <<>>
        /\ Len(msg_togo \o <<n>>) = 1 <=> msg_togo = <<>>
    BY <1>3, <2>1
  <2>4. msg_togo' = Append(msg_togo, n) /\ event_msg' = (event_msg \/ msg_togo = <<>>)
    BY <1>1, <2>2, <2>3, ZenonT(30)
  <2>5. Told(Append(msg_togo, n), (event_msg \/ msg_togo = <<>>), pc, msg,
             Two!MsgType, TwoWalk, {n})
    <3> DEFINE L == {TwoMsgOf(state)}
               L2 == {n}
    <3>1. \A l \in L : <<l, n>> \in TwoWalk
      BY <2>1
    <3>2. n \in L2 /\ n \in Two!MsgType
      BY <2>1, SMTT(30)
    <3>3. Told(msg_togo, event_msg, pc, msg, Two!MsgType, TwoWalk, L)
      BY DEF TwoTold
    <3> HIDE DEF L, L2
    <3>4. Told(Append(msg_togo, n), (event_msg \/ msg_togo = <<>>), pc, msg,
               Two!MsgType, TwoWalk, L2)
      BY <3>1, <3>2, <3>3, ToldMore, SMTT(30)
    <3>5. QED
      BY <3>4 DEF L2
  <2>6. msg_togo # <<>> => Append(msg_togo, n) # <<>> /\ Append(msg_togo, n)[1] = msg_togo[1]
    <3>1. Len(Append(msg_togo, n)) = Len(msg_togo) + 1 /\ Len(msg_togo) \in Nat
      BY <1>3
    <3>2. msg_togo # <<>> => 1 \in 1 .. Len(msg_togo)
      BY <1>3
    <3>3. \A i \in 1 .. Len(msg_togo) : Append(msg_togo, n)[i] = msg_togo[i]
      BY <1>3
    <3>4. Append(msg_togo, n) # <<>>
      BY <1>3, SMTT(30)
    <3>5. QED
      BY <3>2, <3>3, <3>4, SMTT(30)
  <2>7. TwoTold'
    BY <2>2, <2>4, <2>5, SMTT(30) DEF TwoTold
  <2>8. msg_togo # <<>> => msg_togo' # <<>> /\ msg_togo'[1] = msg_togo[1]
    BY <2>4, <2>6, SMTT(30)
  <2>9. QED
    BY <1>1, <1>2, <2>7, <2>8, SMTT(30)
<1>6. QED
  BY <1>2, <1>4, <1>5, SMTT(30)

\* Neither the last message nor what a slave heard changes.
RailStill == UNCHANGED <<machine, msg, heard>>

\* Every step keeps the invariant, and is a step of the rail or none.
LEMMA TwoStep ==
    ASSUME Quantities, machine = "TwoThresSM", TwoInv, [MachinesNext]_<<machine, managerVars>>
    PROVE  TwoInv' /\ (RailStill \/ Rail!RailNext)
<1>0. /\ NoMsg \notin {"POWEROFF", "POWERON", "POWER_OFF", "POWER_ON"}
      /\ N \in Nat /\ machine' = machine
      /\ Two!MsgType = {"POWEROFF", "POWERON"}
  BY DEF Quantities, Ret!MsgType, Two!MsgType, MachinesNext
<1>1. /\ TwoTold /\ TwoHeard
      /\ pc = "mgmt_init" => state = "STATE_INIT"
      /\ pc \in {"run", "broadcast"} => state \in {"STATE_POWEROFF", "STATE_POWERON"}
      /\ pc = "run" /\ msg = NoMsg => msg_togo # <<>> /\ msg_togo[1] = "POWEROFF"
  BY SMTT(30) DEF TwoInv
<1>2. ASSUME UNCHANGED <<state, msg_togo, event_msg, pc, pos, msg, heard>>
      PROVE  TwoInv' /\ RailStill
  BY <1>0, <1>1, <1>2, SMTT(30) DEF TwoInv, TwoTold, TwoHeard, RailStill
<1>3. ASSUME NEW x, Two!consumeEnergy(x), pc \in {"run", "broadcast"}, pc' = pc, msg' = msg
      PROVE  /\ TwoTold' /\ state' \in {"STATE_POWEROFF", "STATE_POWERON"}
             /\ pc' = "run" /\ msg' = NoMsg => msg_togo' # <<>> /\ msg_togo'[1] = "POWEROFF"
  <2>1. /\ TwoTold' /\ state' \in {"STATE_POWEROFF", "STATE_POWERON"}
        /\ msg_togo # <<>> => msg_togo' # <<>> /\ msg_togo'[1] = msg_togo[1]
    BY <1>1, <1>3, TwoConsumes, SMTT(30)
  <2>2. QED
    BY <1>1, <1>3, <2>1, SMTT(30)
<1>4. ASSUME NEW x, Two!consumeEnergy(x), pc = "run", UNCHANGED <<pc, pos, msg, heard>>
      PROVE  TwoInv' /\ RailStill
  <2>1. TwoHeard'
    BY <1>1, <1>4 DEF TwoHeard
  <2>2. QED
    BY <1>0, <1>3, <1>4, <2>1, SMTT(30) DEF TwoInv, RailStill
<1>5. CASE Two!MgmtInit
  <2>1. pc = "mgmt_init" /\ pc' = "sm_init" /\ UNCHANGED <<pos, msg, heard>>
    BY <1>5 DEF Two!MgmtInit
  <2>2. msg_togo = <<>> /\ msg = NoMsg /\ event_msg = FALSE /\ state = "STATE_INIT"
    <3>1. msg_togo = <<>> /\ msg = NoMsg /\ ~event_msg /\ event_msg \in BOOLEAN
      BY <1>1, <2>1, ZenonT(30) DEF TwoTold, Told
    <3>2. QED
      BY <1>1, <2>1, <3>1, SMTT(30)
  <2>3. msg_togo' = <<>> /\ event_msg' = FALSE
    <3>1. CASE UNCHANGED <<energy_remained, state, msg_togo, event_msg>>
      BY <2>2, <3>1, SMTT(30)
    <3>2. ASSUME NEW val \in FirstSamples, Two!consumeEnergy(-val)
          PROVE  msg_togo' = <<>> /\ event_msg' = FALSE
      <4>1. Two!update(state, Two!EnergyAfter(-val)).msgs = <<>>
        BY <2>2, SMTT(30) DEF Two!update
      <4>2. /\ msg_togo' = <<>> \o <<>>
            /\ event_msg' = (FALSE \/ (<<>> # <<>> /\ Len(<<>> \o <<>>) = 1))
        BY <2>2, <3>2, <4>1, SMTT(30) DEF Two!consumeEnergy, Two!broadcastMsgAsEvent
      <4>3. <<>> \o <<>> = <<>>
        OBVIOUS
      <4>4. QED
        BY <4>2, <4>3, ZenonT(30)
    <3>3. QED
      BY <1>5, <3>1, <3>2, ZenonT(30) DEF Two!MgmtInit, Two!energyHarvest
  <2>4. Told(<<>>, FALSE, "sm_init", NoMsg, Two!MsgType, TwoWalk, {TwoMsgOf(state')})
    <3>1. <<>> \in Seq(Two!MsgType) /\ Len(<<>>) = 0
      OBVIOUS
    <3>2. 1 .. Len(<<>>) - 1 = {}
      BY <3>1
    <3>3. QED
      BY <3>1, <3>2, SMTT(30) DEF Told
  <2>5. TwoHeard' /\ TwoTold'
    BY <1>1, <2>1, <2>2, <2>3, <2>4, ZenonT(30) DEF TwoHeard, TwoTold
  <2>6. QED
    BY <1>0, <2>1, <2>5, ZenonT(30) DEF TwoInv, RailStill
<1>6. CASE Two!SMInit
  <2>1. /\ pc = "sm_init" /\ pc' = "run" /\ UNCHANGED <<pos, msg, heard>>
        /\ state' = "STATE_POWEROFF" /\ msg_togo' = msg_togo \o <<"POWEROFF">>
        /\ event_msg' = (event_msg \/ (<<"POWEROFF">> # <<>> /\ Len(msg_togo \o <<"POWEROFF">>) = 1))
    BY <1>6 DEF Two!SMInit, Two!InitState, Two!InitMsg, Two!broadcastMsgAsEvent
  <2>2. "POWEROFF" \in Two!MsgType /\ TwoMsgOf(state') = "POWEROFF"
    BY <2>1 DEF Two!MsgType, TwoMsgOf
  <2>3. Told(msg_togo, event_msg, "sm_init", msg, Two!MsgType, TwoWalk, {TwoMsgOf(state)})
    BY <1>1, <2>1, ZenonT(30) DEF TwoTold
  <2>4. Told(msg_togo \o <<"POWEROFF">>,
             (event_msg \/ (<<"POWEROFF">> # <<>> /\ Len(msg_togo \o <<"POWEROFF">>) = 1)),
             "run", msg, Two!MsgType, TwoWalk, {"POWEROFF"})
    BY <2>2, <2>3, ToldFirst, ZenonT(30)
  <2>5. TwoTold' /\ TwoHeard'
    BY <1>1, <2>1, <2>2, <2>4, ZenonT(30) DEF TwoTold, TwoHeard
  <2>6. msg_togo' # <<>> /\ msg_togo'[1] = "POWEROFF"
    <3>1. msg_togo = <<>>
      BY <2>3 DEF Told
    <3>2. <<>> \o <<"POWEROFF">> = <<"POWEROFF">> /\ <<"POWEROFF">> # <<>>
      OBVIOUS
    <3>3. QED
      BY <2>1, <3>1, <3>2, SMTT(30)
  <2>7. QED
    BY <1>0, <2>1, <2>5, <2>6, SMTT(30) DEF TwoInv, RailStill
<1>7. CASE Two!HarvestEvent
  <2>1. pc = "run" /\ UNCHANGED <<pc, pos, msg, heard>>
    BY <1>7, SMTT(30) DEF Two!HarvestEvent
  <2>2. CASE UNCHANGED <<energy_remained, state, msg_togo, event_msg>>
    BY <1>2, <2>1, <2>2, ZenonT(30)
  <2>3. ASSUME NEW val \in Samples, Two!consumeEnergy(-val)
        PROVE  TwoInv' /\ RailStill
    BY <1>4, <2>1, <2>3, ZenonT(30)
  <2>4. QED
    BY <1>7, <2>2, <2>3, ZenonT(30) DEF Two!HarvestEvent, Two!energyHarvest
<1>8. CASE Two!ConsumeMsg
  <2>1. PICK val \in Costs : Two!consumeEnergy(val)
    BY <1>8, SMTT(30) DEF Two!ConsumeMsg
  <2>2. pc = "run" /\ UNCHANGED <<pc, pos, msg, heard>>
    BY <1>8, SMTT(30) DEF Two!ConsumeMsg
  <2>3. QED
    BY <1>4, <2>1, <2>2, ZenonT(30)
<1>9. CASE Two!BroadcastBegin
  <2>1. /\ pc = "run" /\ pc' = "broadcast" /\ event_msg /\ event_msg' = FALSE /\ pos' = 1
        /\ msg' = Head(msg_togo) /\ UNCHANGED <<energy_remained, state, msg_togo, heard>>
    BY <1>9 DEF Two!BroadcastBegin
  <2>2. Told(msg_togo, FALSE, "broadcast", Head(msg_togo), Two!MsgType, TwoWalk,
             {TwoMsgOf(state)})
    BY <1>1, <2>1, ToldBegin, ZenonT(30) DEF TwoTold
  <2>3. TwoTold'
    BY <2>1, <2>2, ZenonT(30) DEF TwoTold
  <2>4. /\ msg' = msg_togo[1] /\ msg' \in {"POWEROFF", "POWERON", NoMsg} /\ msg_togo # <<>>
        /\ msg \in {"POWEROFF", "POWERON", NoMsg}
        /\ msg # NoMsg => <<msg, msg_togo[1]>> \in TwoWalk
    BY <1>0, <1>1, <2>1, <2>2, ZenonT(30) DEF TwoTold, Told
  <2>5. \/ msg = NoMsg /\ msg' = "POWEROFF"
        \/ msg = "POWEROFF" /\ msg' = "POWERON"
        \/ msg = "POWERON" /\ msg' = "POWEROFF"
    BY <1>1, <2>1, <2>4, ZenonT(30) DEF TwoWalk
  <2>6. heard \in [1 .. N -> Two!MsgType \cup {NoMsg}] /\ \A i \in 1 .. N : heard[i] = msg
    BY <1>1, <2>1, ZenonT(30) DEF TwoHeard
  <2>7. TwoHeard'
    BY <1>0, <2>1, <2>5, <2>6, SMTT(30) DEF TwoHeard
  <2>8. TwoInv'
    BY <1>1, <2>1, <2>3, <2>7, SMTT(30) DEF TwoInv
  <2>9. Rail!Switch
    <3>1. TwoRailMsg(msg)' = TwoRailMsg(msg')
      BY <1>0, SMTT(30) DEF TwoRailMsg, Two!RailMsg
    <3>2. TwoRailMsg(msg') = IF TwoRailMsg(msg) = "POWER_OFF" THEN "POWER_ON" ELSE "POWER_OFF"
      BY <1>0, <2>5, SMTT(30) DEF TwoRailMsg, Two!RailMsg
    <3>3. [i \in 1 .. N |-> TwoRailMsg(heard[i])]' = [i \in 1 .. N |-> TwoRailMsg(heard[i])]
      BY <1>0, <2>1, SMTT(30) DEF TwoRailMsg, Two!RailMsg
    <3>4. \A i \in 1 .. N : TwoRailMsg(heard[i]) = TwoRailMsg(msg)
      BY <2>6, SMTT(30)
    <3>5. QED
      BY <3>1, <3>2, <3>3, <3>4, SMTT(30) DEF Rail!Switch, Rail!Told
  <2>10. QED
    BY <2>8, <2>9, SMTT(30) DEF Rail!RailNext
<1>10. CASE Two!BroadcastEnd
  <2>1. /\ pc = "broadcast" /\ pc' = "run" /\ msg_togo' = Tail(msg_togo)
        /\ pos = N + 1 /\ pos' = 1
        /\ event_msg' = (event_msg \/ Tail(msg_togo) # <<>>)
        /\ UNCHANGED <<energy_remained, state, msg, heard>>
    BY <1>10 DEF Two!BroadcastEnd
  <2>2. Told(Tail(msg_togo), (event_msg \/ Tail(msg_togo) # <<>>), "run", msg,
             Two!MsgType, TwoWalk, {TwoMsgOf(state)})
    BY <1>1, <2>1, ToldEnd, ZenonT(30) DEF TwoTold
  <2>3. TwoTold'
    BY <2>1, <2>2, ZenonT(30) DEF TwoTold
  <2>4. TwoHeard'
    BY <1>0, <1>1, <2>1, SMTT(30) DEF TwoHeard
  <2>5. msg # NoMsg
    <3>1. msg_togo \in Seq(Two!MsgType) /\ msg_togo # <<>> /\ msg = msg_togo[1]
      BY <1>1, <2>1, ZenonT(30) DEF TwoTold, Told
    <3>2. msg \in Two!MsgType
      BY <3>1
    <3>3. QED
      BY <1>0, <3>2
  <2>6. QED
    BY <1>0, <1>1, <2>1, <2>3, <2>4, <2>5, SMTT(30) DEF TwoInv, RailStill
<1>11. CASE Two!Deliver
  <2>1. /\ pc = "broadcast" /\ pc' = pc /\ msg' = msg /\ pos <= N /\ pos' = pos + 1
        /\ heard' = [heard EXCEPT ![pos] = msg]
    BY <1>11, SMTT(30) DEF Two!Deliver
  <2>2. /\ heard \in [1 .. N -> Two!MsgType \cup {NoMsg}] /\ pos \in 1 .. N
        /\ \A i \in 1 .. N : heard[i] = msg <=> i < pos
        /\ msg \in Two!MsgType \cup {NoMsg} /\ msg # NoMsg
    <3>1. msg_togo \in Seq(Two!MsgType) /\ msg_togo # <<>> /\ msg = msg_togo[1]
      BY <1>1, <2>1, ZenonT(30) DEF TwoTold, Told
    <3>2. msg \in Two!MsgType
      BY <3>1
    <3>3. QED
      BY <1>0, <1>1, <2>1, <3>2, SMTT(30) DEF TwoHeard
  <2>3. TwoHeard'
    BY <1>0, <2>1, <2>2, SMTT(30) DEF TwoHeard
  <2>4. TwoInv'
    <3>1. CASE UNCHANGED <<energy_remained, state, msg_togo, event_msg>>
      <4>1. TwoTold'
        BY <1>1, <2>1, <3>1, SMTT(30) DEF TwoTold
      <4>2. QED
        BY <1>1, <2>1, <2>3, <3>1, <4>1, SMTT(30) DEF TwoInv
    <3>2. ASSUME NEW val \in HandlerCosts, Two!consumeEnergy(val)
          PROVE  TwoInv'
      BY <1>3, <2>1, <2>3, <3>2, SMTT(30) DEF TwoInv
    <3>3. QED
      BY <1>11, <3>1, <3>2, SMTT(30) DEF Two!Deliver
  <2>5. Rail!Tell(pos)
    <3> DEFINE old == [i \in 1 .. N |-> TwoRailMsg(heard[i])]
    <3>1. \A v \in {"POWEROFF", "POWERON", NoMsg} : TwoRailMsg(v) = TwoRailMsg(msg) <=> v = msg
      BY <1>0, <2>2, SMTT(30) DEF TwoRailMsg, Two!RailMsg
    <3>2. \A i \in 1 .. N : heard[i] \in {"POWEROFF", "POWERON", NoMsg}
      BY <1>0, <2>2, SMTT(30)
    <3>3. \A i \in 1 .. N : old[i] = TwoRailMsg(msg) <=> i < pos
      BY <2>2, <3>1, <3>2, SMTT(30)
    <3>4. TwoRailMsg(msg)' = TwoRailMsg(msg)
      BY <1>0, <2>1 DEF TwoRailMsg, Two!RailMsg
    <3>5. [i \in 1 .. N |-> TwoRailMsg(heard[i])]' = [i \in 1 .. N |-> TwoRailMsg(heard'[i])]
      BY <1>0 DEF TwoRailMsg, Two!RailMsg
    <3>6. [i \in 1 .. N |-> TwoRailMsg(heard'[i])] = [old EXCEPT ![pos] = TwoRailMsg(msg)]
      BY <2>1, <2>2, ZenonT(30)
    <3>7. ~(old[pos] = TwoRailMsg(msg)) /\ \A j \in 1 .. pos - 1 : old[j] = TwoRailMsg(msg)
      BY <1>0, <2>2, <3>3, SMTT(30)
    <3>8. QED
      BY <3>4, <3>5, <3>6, <3>7, ZenonT(30) DEF Rail!Tell, Rail!Told
  <2>6. QED
    BY <2>2, <2>4, <2>5, SMTT(30) DEF Rail!RailNext
<1>12. CASE UNCHANGED <<machine, managerVars>>
  BY <1>2, <1>12, SMTT(30) DEF managerVars
<1>13. QED
  BY <1>5, <1>6, <1>7, <1>8, <1>9, <1>10, <1>11, <1>12, SMTT(30)
     DEF MachinesNext, StartUp, Broadcast, Energy

-----------------------------------------------------------------------------
\* Before the first init() nothing has been said.
LEMMA ToldNothing ==
    ASSUME NEW M, NEW W, NEW L
    PROVE  Told(<<>>, FALSE, "mgmt_init", NoMsg, M, W, L)
<1>1. <<>> \in Seq(M) /\ Len(<<>>) = 0
  OBVIOUS
<1>2. 1 .. Len(<<>>) - 1 = {}
  BY <1>1
<1>3. QED
  BY <1>1, <1>2, SMTT(30) DEF Told

\* The three invariants hold together.
LEMMA MachinesHold ==
    ASSUME Quantities PROVE MachinesSpec => [](RetentionInv /\ DVFSInv /\ DFSInv)
<1>1. MachinesInit => DVFSInv /\ DFSInv
  <2>1. ASSUME DVFS!Init PROVE DVFSInv
    <3>1. DVFSTold
      BY <2>1, ToldNothing, ZenonT(30) DEF DVFS!Init, DVFSTold
    <3>2. QED
      BY <2>1, <3>1, SMTT(30) DEF DVFS!Init, DVFS!StartState, DVFSInv
  <2>2. ASSUME DFS!Init PROVE DFSInv
    <3>1. DFSTold
      BY <2>2, ToldNothing, ZenonT(30) DEF DFS!Init, DFSTold
    <3>2. QED
      BY <2>2, <3>1 DEF DFS!Init, DFS!StartState, DFSInv
  <2>3. QED
    BY <2>1, <2>2, SMTT(30) DEF MachinesInit, DVFSInv, DFSInv
<1>2. DVFSInv /\ DFSInv /\ [MachinesNext]_<<machine, managerVars>> => DVFSInv' /\ DFSInv'
  <2> SUFFICES ASSUME DVFSInv, DFSInv, [MachinesNext]_<<machine, managerVars>>
               PROVE  DVFSInv' /\ DFSInv'
    OBVIOUS
  <2>1. machine' = machine
    BY DEF MachinesNext
  <2>2. CASE machine = "DVFSSM"
    BY <2>1, <2>2, DVFSStep, ZenonT(30) DEF DFSInv
  <2>3. CASE machine = "DFS_LRY"
    BY <2>1, <2>3, DFSStep, ZenonT(30) DEF DVFSInv
  <2>4. QED
    BY <2>1, <2>2, <2>3, ZenonT(30) DEF DVFSInv, DFSInv
<1>3. QED
  BY <1>1, <1>2, RetentionHolds, PTL DEF MachinesSpec

\* Whatever handlers draw inside a broadcast, what the slaves are told is a
\* walk of the machine that ends in its present state (broadcastMsgAsEvent,
\* broadcastMsg and the update of each machine).
THEOREM MsgsFollowCorrect == ASSUME Quantities PROVE MachinesSpec => []MsgsFollow
<1>1. RetentionInv /\ DVFSInv /\ DFSInv => MsgsFollow
  <2> SUFFICES ASSUME RetentionInv, DVFSInv, DFSInv
               PROVE  MsgsFollow
    OBVIOUS
  <2>1. ASSUME machine = "SM_Retention"
        PROVE  Ret!RetentionMsgsFollow /\ Ret!AtMostThreeMsgs
    <3>1. RetP!RetInv
      BY <2>1 DEF RetentionInv
    <3>2. RetP!RetentionMsgsFollow /\ RetP!AtMostThreeMsgs
      BY <3>1, RetP!MsgsFollowInv, RetP!AtMostThree, ZenonT(30)
    <3>3. QED
      BY <3>2, ZenonT(30) DEF RetP!RetentionMsgsFollow, Ret!RetentionMsgsFollow, RetP!Announced,
                  Ret!Announced, RetP!MsgOf, Ret!MsgOf, RetP!AtMostThreeMsgs,
                  Ret!AtMostThreeMsgs
  <2>2. ASSUME machine = "DVFSSM"
        PROVE  DVFS!DVFSMsgsFollow
    <3> DEFINE a == DVFS!Announced
    <3>1. DVFSTold
      BY <2>2 DEF DVFSInv
    <3>2. a = Said(msg_togo, pc, msg)
      BY DEF DVFS!Announced, Said
    <3> HIDE DEF a
    <3>3. /\ \A i \in 1 .. Len(a) - 1 : <<a[i], a[i + 1]>> \in DVFSWalk
          /\ a # <<>> => a[Len(a)] \in {DVFS!MsgOf(state)}
      BY <3>1, <3>2, ToldWalk, ZenonT(30) DEF DVFSTold, Walks
    <3>4. \A i \in 1 .. Len(a) - 1 : a[i] # a[i + 1]
      <4>1. \A v, w : <<v, w>> \in DVFSWalk => v # w
        BY DEF DVFSWalk
      <4>2. QED
        BY <3>3, <4>1, ZenonT(30)
    <3>5. a # <<>> => a[Len(a)] = DVFS!MsgOf(state)
      BY <3>3
    <3>6. QED
      BY <3>4, <3>5, SMTT(30) DEF DVFS!DVFSMsgsFollow, a
  <2>3. ASSUME machine = "DFS_LRY"
        PROVE  DFS!LevelMsgsFollow
    <3> DEFINE a == DFS!Announced
    <3>1. DFSTold
      BY <2>3 DEF DFSInv
    <3>2. a = Said(msg_togo, pc, msg)
      BY DEF DFS!Announced, Said
    <3> HIDE DEF a
    <3>3. /\ \A i \in 1 .. Len(a) - 1 : <<a[i], a[i + 1]>> \in DFSWalk
          /\ a # <<>> => a[Len(a)] \in DFSLast(state)
      BY <3>1, <3>2, ToldWalk, ZenonT(30) DEF DFSTold, Walks
    <3>4. \A i \in 1 .. Len(a) - 1 : DFS!Target(a[i]) \in DFS!Sources(a[i + 1])
      <4>1. \A v, w : <<v, w>> \in DFSWalk => DFS!Target(v) \in DFS!Sources(w)
        BY DEF DFSWalk
      <4>2. QED
        BY <3>3, <4>1, ZenonT(30)
    <3>5. a # <<>> => DFS!Target(a[Len(a)]) = state
      BY <3>3 DEF DFSLast
    <3>6. QED
      BY <3>4, <3>5, SMTT(30) DEF DFS!LevelMsgsFollow, a
  <2>4. QED
    BY <2>1, <2>2, <2>3, ZenonT(30) DEF MsgsFollow
<1>2. QED
  BY <1>1, MachinesHold, PTL

\* Every change of the energy of a started system puts the level of DVFSSM
\* where the energy says, however many levels it skips (DVFSSM::update).
THEOREM DVFSLevelOKCorrect == ASSUME Quantities PROVE MachinesSpec => DVFSLevelOK
<1>1. DVFSInv /\ [MachinesNext]_<<machine, managerVars>>
         => [machine = "DVFSSM" => DVFS!LevelStep]_<<machine, managerVars>>
  BY DVFSStep
<1>2. QED
  BY <1>1, MachinesHold, PTL DEF MachinesSpec, DVFSLevelOK


\* The slaves of TwoThresSM see a rail that is announced off first, then
\* switches, and never again before all have been told, although the first
\* update turns the machine on silently (init, update, broadcastMsg): the
\* safety part of TwoThresRail.
THEOREM TwoThresRailRefined == ASSUME Quantities PROVE MachinesSpec => Rail!RailSafe
<1>1. MachinesInit => TwoInv /\ Rail!RailInit
  <2>1. NoMsg \notin {"POWEROFF", "POWERON"} /\ N \in Nat
    BY DEF Quantities, Two!MsgType
  <2>2. TwoRailMsg(NoMsg) = NoMsg
    BY <2>1 DEF TwoRailMsg, Two!RailMsg
  <2>3. MachinesInit => msg = NoMsg /\ heard = [i \in 1 .. N |-> NoMsg]
    BY DEF MachinesInit, Ret!Init, DFS!Init, DVFS!Init, Two!Init
  <2>4. MachinesInit => Rail!RailInit
    BY <2>2, <2>3 DEF Rail!RailInit
  <2>5. ASSUME Two!Init PROVE TwoInv
    <3>1. TwoTold
      BY <2>5, ToldNothing, ZenonT(30) DEF Two!Init, TwoTold
    <3>2. TwoHeard
      BY <2>1, <2>5, SMTT(30) DEF Two!Init, TwoHeard
    <3>3. QED
      BY <2>5, <3>1, <3>2, ZenonT(30) DEF Two!Init, Two!StartState, TwoInv
  <2>6. QED
    BY <2>4, <2>5 DEF MachinesInit, TwoInv
<1>2. TwoInv /\ [MachinesNext]_<<machine, managerVars>>
         => TwoInv' /\ [Rail!RailNext]_(Rail!railVars)
  <2> SUFFICES ASSUME TwoInv, [MachinesNext]_<<machine, managerVars>>
               PROVE  TwoInv' /\ [Rail!RailNext]_(Rail!railVars)
    OBVIOUS
  <2>1. machine' = machine
    BY DEF MachinesNext
  <2>2. CASE machine = "TwoThresSM"
    <3>1. RailStill => UNCHANGED Rail!railVars
      BY DEF RailStill, Rail!railVars, TwoRailMsg, Two!RailMsg
    <3>2. QED
      BY <2>2, <3>1, TwoStep, ZenonT(30)
  <2>3. CASE machine # "TwoThresSM"
    <3>1. UNCHANGED Rail!railVars
      BY <2>1, <2>3 DEF Rail!railVars, TwoRailMsg
    <3>2. QED
      BY <2>1, <2>3, <3>1, ZenonT(30) DEF TwoInv
  <2>4. QED
    BY <2>2, <2>3, SMTT(30)
<1>3. QED
  BY <1>1, <1>2, PTL DEF MachinesSpec, Rail!RailSafe
=============================================================================
