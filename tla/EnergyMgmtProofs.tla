-------------------------- MODULE EnergyMgmtProofs --------------------------
(***************************************************************************)
(* For every state machine, every number of slaves and every amount of     *)
(* energy drawn or harvested: the types, the discipline of the message     *)
(* queue, and that slaves learn of changes together.                       *)
(***************************************************************************)
EXTENDS EnergyMgmt, TLAPS

\* The energy stays in the range the bounds of consumeEnergy allow, whatever
\* is drawn (val > 0) or harvested (val < 0).
LEMMA EnergyStaysInRange ==
    ASSUME TypeOK, NEW val \in Int
    PROVE  EnergyAfter(val) \in EnergyRange
<1>1. energy_remained \in Int /\ Leakage \in Int
  BY EnergyAssumption, SMAssumption DEF TypeOK, EnergyRange, Leakage
<1>2. (-val) * energy_profile_mult \in Int
  BY EnergyAssumption
<1>3. val > 0 => Drawn(val) \in EnergyRange
  BY <1>1, EnergyAssumption DEF Drawn, EnergyRange, TypeOK
<1>4. val < 0 => Harvested(val) \in EnergyRange
  <2> DEFINE gain == (-val) * energy_profile_mult
  <2>1. gain \in Int
    BY <1>2
  <2>2. Harvested(val) = LET e == energy_remained - Leakage + gain
                         IN  IF e > Upper THEN Upper ELSE IF e < Lower THEN Lower ELSE e
    BY DEF Harvested
  <2> HIDE DEF gain
  <2>3. QED
    BY <1>1, <2>1, <2>2, EnergyAssumption DEF EnergyRange
<1>5. QED
  BY <1>3, <1>4 DEF EnergyAfter, TypeOK

\* What consumeEnergy leaves behind: a typed state, and a queue that grew by
\* no message or by one, with event_msg scheduled if it was empty before.
LEMMA ConsumeEffect ==
    ASSUME TypeOK, NEW val \in Int, consumeEnergy(val)
    PROVE  /\ energy_remained' \in EnergyRange
           /\ state' \in SMState
           /\ event_msg' \in BOOLEAN
           /\ \/ msg_togo' = msg_togo /\ event_msg' = event_msg
              \/ \E m \in SMMsg :
                    /\ msg_togo' = Append(msg_togo, m)
                    /\ event_msg' = (event_msg \/ msg_togo = <<>>)
<1> DEFINE u == SMUpdate(state, EnergyAfter(val))
<1>1. EnergyAfter(val) \in EnergyRange
  BY EnergyStaysInRange
<1>2. u \in Result
  BY <1>1, SMAssumption DEF TypeOK
<1>3. /\ energy_remained' = EnergyAfter(val)
      /\ state' = u.state
      /\ msg_togo' = msg_togo \o u.msgs
      /\ event_msg' = (event_msg \/ (u.msgs # <<>> /\ Len(msg_togo \o u.msgs) = 1))
  BY DEF consumeEnergy, broadcastMsgAsEvent
<1>4. u.state \in SMState /\ (u.msgs = <<>> \/ \E m \in SMMsg : u.msgs = <<m>>)
  BY <1>2 DEF Result
<1> HIDE DEF u
<1>5. CASE u.msgs = <<>>
  <2>1. msg_togo \o <<>> = msg_togo
    BY DEF TypeOK
  <2>2. QED
    BY <1>1, <1>3, <1>4, <1>5, <2>1 DEF TypeOK
<1>6. ASSUME NEW m \in SMMsg, u.msgs = <<m>>
      PROVE  /\ msg_togo' = Append(msg_togo, m)
             /\ event_msg' = (event_msg \/ msg_togo = <<>>)
  <2>1. msg_togo \o <<m>> = Append(msg_togo, m)
    BY DEF TypeOK
  <2>2. Len(msg_togo \o <<m>>) = 1 <=> msg_togo = <<>>
    BY DEF TypeOK
  <2>3. QED
    BY <1>3, <1>6, <2>1, <2>2
<1>7. QED
  BY <1>1, <1>3, <1>4, <1>5, <1>6 DEF TypeOK

-----------------------------------------------------------------------------
\* The queue invariant is what makes Head and Tail of msg_togo safe, and types
\* are what the queue argument computes with: the two are proved together.
QueueIInv == TypeOK /\ MsgQueueInv

LEMMA QueueIInvInit == Init => QueueIInv
<1> SUFFICES ASSUME Init PROVE QueueIInv
  OBVIOUS
<1>1. TypeOK
  <2>1. energy_remained \in EnergyRange /\ state \in SMState /\ msg_togo \in Seq(SMMsg)
    BY SMAssumption DEF Init, EnergyRange
  <2>2. pos \in 1 .. N + 1
    BY SlavesAssumption DEF Init
  <2>3. heard \in [1 .. N -> SMMsg \cup {NoMsg}] /\ msg \in SMMsg \cup {NoMsg}
    BY DEF Init
  <2>4. QED
    BY <2>1, <2>2, <2>3, ZenonT(30) DEF Init, TypeOK
<1>2. MsgQueueInv
  BY DEF Init, MsgQueueInv
<1>3. QED
  BY <1>1, <1>2 DEF QueueIInv

\* A consumeEnergy outside a broadcast keeps the two in agreement.
LEMMA ConsumeKeepsQueue ==
    ASSUME QueueIInv, NEW val \in Int, consumeEnergy(val)
    PROVE  /\ msg_togo' \in Seq(SMMsg)
           /\ (event_msg <=> msg_togo # <<>>) => (event_msg' <=> msg_togo' # <<>>)
           /\ (~event_msg /\ msg_togo # <<>>) =>
                 (~event_msg' /\ msg_togo' # <<>> /\ Head(msg_togo') = Head(msg_togo))
<1>1. TypeOK
  BY DEF QueueIInv
<1>2. CASE msg_togo' = msg_togo /\ event_msg' = event_msg
  BY <1>1, <1>2 DEF TypeOK
<1>3. ASSUME NEW m \in SMMsg,
             msg_togo' = Append(msg_togo, m),
             event_msg' = (event_msg \/ msg_togo = <<>>)
      PROVE  /\ msg_togo' \in Seq(SMMsg)
             /\ msg_togo' # <<>>
             /\ msg_togo # <<>> => Head(msg_togo') = Head(msg_togo)
  BY <1>1, <1>3 DEF TypeOK
<1>4. QED
  BY <1>1, <1>2, <1>3, ConsumeEffect

\* The same for the body of the harvest event.
LEMMA HarvestKeepsQueue ==
    ASSUME QueueIInv, NEW S \in SUBSET Nat, energyHarvest(S)
    PROVE  /\ energy_remained' \in EnergyRange
           /\ state' \in SMState
           /\ event_msg' \in BOOLEAN
           /\ event_harvest' \in BOOLEAN
           /\ msg_togo' \in Seq(SMMsg)
           /\ (event_msg <=> msg_togo # <<>>) => (event_msg' <=> msg_togo' # <<>>)
<1>1. CASE event_harvest' = FALSE /\ UNCHANGED <<energy_remained, state, msg_togo, event_msg>>
  BY <1>1, ZenonT(30) DEF QueueIInv, TypeOK
<1>2. ASSUME NEW v \in S, consumeEnergy(-v), event_harvest' = TRUE
      PROVE  /\ energy_remained' \in EnergyRange
             /\ state' \in SMState
             /\ event_msg' \in BOOLEAN
             /\ event_harvest' \in BOOLEAN
             /\ msg_togo' \in Seq(SMMsg)
             /\ (event_msg <=> msg_togo # <<>>) => (event_msg' <=> msg_togo' # <<>>)
  <2>1. -v \in Int
    OBVIOUS
  <2>2. QED
    BY <1>2, <2>1, ConsumeEffect, ConsumeKeepsQueue DEF QueueIInv
<1>3. QED
  BY <1>1, <1>2, ZenonT(30) DEF energyHarvest

LEMMA QueueIInvStep == QueueIInv /\ [Next]_vars => QueueIInv'
<1> SUFFICES ASSUME QueueIInv, [Next]_vars PROVE QueueIInv'
  OBVIOUS
<1> USE DEF QueueIInv
<1>1. CASE MgmtInit
  <2>1. FirstSamples \in SUBSET Nat
    BY EnergyAssumption
  <2>2. QED
    BY <1>1, <2>1, HarvestKeepsQueue DEF MgmtInit, TypeOK, MsgQueueInv
<1>2. CASE SMInit
  <2>1. /\ msg_togo' = Append(msg_togo, InitSMMsg)
        /\ event_msg' = (event_msg \/ msg_togo = <<>>)
    BY <1>2, SMAssumption DEF SMInit, broadcastMsgAsEvent, TypeOK
  <2>2. msg_togo' \in Seq(SMMsg) /\ msg_togo' # <<>>
    BY <2>1, SMAssumption DEF TypeOK
  <2>3. QED
    BY <1>2, <2>1, <2>2, SMAssumption, ZenonT(30) DEF SMInit, TypeOK, MsgQueueInv
<1>3. CASE HarvestEvent
  <2>1. Samples \in SUBSET Nat
    BY EnergyAssumption
  <2>2. QED
    BY <1>3, <2>1, HarvestKeepsQueue DEF HarvestEvent, TypeOK, MsgQueueInv
<1>4. CASE ConsumeMsg
  <2>1. PICK val \in Costs : consumeEnergy(val)
    BY <1>4 DEF ConsumeMsg
  <2>2. val \in Int
    BY EnergyAssumption
  <2>3. QED
    BY <1>4, <2>1, <2>2, ConsumeEffect, ConsumeKeepsQueue DEF ConsumeMsg, TypeOK, MsgQueueInv
<1>5. CASE BroadcastBegin
  <2>1. msg_togo # <<>> /\ Head(msg_togo) \in SMMsg
    BY <1>5 DEF BroadcastBegin, MsgQueueInv, TypeOK
  <2>2. 1 \in 1 .. N + 1
    BY SlavesAssumption
  <2>3. TypeOK'
    BY <1>5, <2>1, <2>2, ZenonT(30) DEF BroadcastBegin, TypeOK
  <2>4. MsgQueueInv'
    BY <1>5, <2>1 DEF BroadcastBegin, MsgQueueInv
  <2>5. QED
    BY <2>3, <2>4
<1>6. CASE Deliver
  <2>1. /\ heard' \in [1 .. N -> SMMsg \cup {NoMsg}]
        /\ pos' \in 1 .. N + 1
        /\ UNCHANGED <<event_harvest, pc, msg>>
        /\ pc = "broadcast"
    BY <1>6, SlavesAssumption DEF Deliver, TypeOK
  <2>2. CASE UNCHANGED <<energy_remained, state, msg_togo, event_msg>>
    BY <2>1, <2>2 DEF TypeOK, MsgQueueInv
  <2>3. ASSUME NEW val \in HandlerCosts, consumeEnergy(val)
        PROVE  QueueIInv'
    <3>1. val \in Int
      BY EnergyAssumption
    <3>2. QED
      BY <2>1, <2>3, <3>1, ConsumeEffect, ConsumeKeepsQueue DEF TypeOK, MsgQueueInv
  <2>4. QED
    BY <1>6, <2>2, <2>3 DEF Deliver
<1>7. CASE BroadcastEnd
  <2>1. Tail(msg_togo) \in Seq(SMMsg)
    BY <1>7 DEF BroadcastEnd, MsgQueueInv, TypeOK
  <2>2. 1 \in 1 .. N + 1
    BY SlavesAssumption
  <2>3. TypeOK'
    BY <1>7, <2>1, <2>2 DEF BroadcastEnd, TypeOK
  <2>4. MsgQueueInv'
    BY <1>7, ZenonT(30) DEF BroadcastEnd, MsgQueueInv
  <2>5. QED
    BY <2>3, <2>4
<1>8. CASE UNCHANGED vars
  BY <1>8 DEF vars, TypeOK, MsgQueueInv
<1>9. QED
  BY <1>1, <1>2, <1>3, <1>4, <1>5, <1>6, <1>7, <1>8 DEF Next

LEMMA QueueIInvAlways == Spec => []QueueIInv
<1>1. QED
  BY QueueIInvInit, QueueIInvStep, PTL DEF Spec

\* Every variable of the manager keeps its type, in particular the energy
\* stays within the bounds consumeEnergy clamps to (or at its initial 0).
THEOREM TypeCorrect == Spec => []TypeOK
<1>1. QueueIInv => TypeOK
  BY DEF QueueIInv
<1>2. QED
  BY <1>1, QueueIInvAlways, PTL

\* msg_togo and event_msg agree for every state machine and all costs.
THEOREM MsgQueueCorrect == Spec => []MsgQueueInv
<1>1. QueueIInv => MsgQueueInv
  BY DEF QueueIInv
<1>2. QED
  BY <1>1, QueueIInvAlways, PTL

-----------------------------------------------------------------------------
\* A step changes what slaves heard for the next one in the loop only.
LEMMA SlavesInStepStep == QueueIInv /\ SlavesInStep /\ [Next]_vars => SlavesInStep'
<1> SUFFICES ASSUME QueueIInv, SlavesInStep, [Next]_vars PROVE SlavesInStep'
  OBVIOUS
<1>1. TypeOK
  BY DEF QueueIInv
<1>2. CASE MgmtInit \/ SMInit \/ HarvestEvent \/ ConsumeMsg \/ UNCHANGED vars
  <2>1. heard' = heard /\ pos' = pos /\ msg' = msg
    BY <1>2 DEF MgmtInit, SMInit, HarvestEvent, ConsumeMsg, vars
  <2>2. pc' = pc \/ (pc # "broadcast" /\ pc' # "broadcast")
    BY <1>2 DEF MgmtInit, SMInit, HarvestEvent, ConsumeMsg, vars
  <2>3. QED
    BY <2>1, <2>2 DEF SlavesInStep
<1>3. CASE BroadcastBegin
  BY <1>1, <1>3, SlavesAssumption DEF BroadcastBegin, SlavesInStep
<1>4. CASE Deliver
  <2>1. /\ pc = "broadcast" /\ pc' = "broadcast"
        /\ pos \in 1 .. N /\ pos' = pos + 1 /\ msg' = msg
        /\ heard' = [heard EXCEPT ![pos] = msg]
    BY <1>1, <1>4, SlavesAssumption DEF Deliver, TypeOK
  <2>2. \A i \in 1 .. pos' - 1 : heard'[i] = msg'
    BY <1>1, <2>1, SlavesAssumption DEF SlavesInStep, TypeOK
  <2>3. \A i, j \in pos' .. N : heard'[i] = heard'[j]
    BY <1>1, <2>1, SlavesAssumption DEF SlavesInStep, TypeOK
  <2>4. QED
    BY <2>1, <2>2, <2>3 DEF SlavesInStep
<1>5. CASE BroadcastEnd
  BY <1>1, <1>5, SlavesAssumption DEF BroadcastEnd, SlavesInStep, TypeOK
<1>6. QED
  BY <1>2, <1>3, <1>4, <1>5 DEF Next

\* All slaves hear the same messages, one broadcast at a time, whatever their
\* handlers consume on the way.
THEOREM SlavesInStepCorrect == Spec => []SlavesInStep
<1>1. Init => SlavesInStep
  BY SlavesAssumption DEF Init, SlavesInStep
<1>2. QED
  BY <1>1, SlavesInStepStep, QueueIInvAlways, PTL DEF Spec
=============================================================================
