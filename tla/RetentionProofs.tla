-------------------------- MODULE RetentionProofs --------------------------
(***************************************************************************)
(* With SM_Retention, and for every capacitor, profile, cost and number of *)
(* slaves: a started system is in the state its energy asks for, the       *)
(* messages are a walk through the machine, and at most three wait.        *)
(***************************************************************************)
EXTENDS RetentionPower, TLAPS

\* The quantities are what EnergyMgmt assumes, the thresholds in order, and
\* the first sample does not start the system.
Setting ==
    /\ RetThresAssumption /\ FirstSampleLow
    /\ N \in Nat /\ Upper \in Nat /\ thres_ret_to_off <= Upper
    /\ energy_profile_mult \in Nat /\ NoMsg \notin MsgType
    /\ FirstSamples \subseteq Nat /\ Samples \subseteq Nat
    /\ Costs \subseteq Nat /\ HandlerCosts \subseteq Nat

Started == pc \in {"run", "broadcast"}

\* Which message may follow which, and how far up the state is it announces.
Walk == {<<"POWER_ON", "POWER_RET">>, <<"POWER_ON", "POWER_OFF">>,
         <<"POWER_RET", "POWER_OFF">>, <<"POWER_RET", "POWER_ON">>,
         <<"POWER_OFF", "POWER_ON">>}

Height(m) == CASE m = "POWER_OFF" -> 0 [] m = "POWER_RET" -> 1 [] m = "POWER_ON" -> 2

\* A queue of messages that lead to state s, each from the one before it; all
\* but the first one step down.
Queue(q, s) ==
    /\ q # <<>> => q[Len(q)] = MsgOf(s)
    /\ \A i \in 1 .. Len(q) - 1 :
          <<q[i], q[i + 1]>> \in Walk /\ Height(q[i + 1]) < Height(q[i])

\* Before init() of the machine: off, and nobody has been told anything.
Quiet == energy_remained < thres_ret_to_1 /\ state = "STATE_POWER_OFF" /\ msg_togo = <<>>
         /\ msg = NoMsg /\ ~event_msg

RetInv ==
    /\ energy_remained \in {0} \cup (thres_ret_to_off .. Upper)
    /\ state \in State /\ msg_togo \in Seq(MsgType) /\ event_msg \in BOOLEAN
    /\ pc \in {"mgmt_init", "sm_init", "run", "broadcast"}
    /\ msg \in MsgType \cup {NoMsg}
    /\ ~Started => Quiet
    /\ pc = "mgmt_init" => energy_remained = 0
    /\ RetentionMatchesEnergy /\ Queue(msg_togo, state)
    /\ pc = "run" => /\ event_msg <=> msg_togo # <<>>
                     /\ msg_togo = <<>> => msg = MsgOf(state)
                     /\ msg # NoMsg /\ msg_togo # <<>> => <<msg, msg_togo[1]>> \in Walk
    /\ pc = "broadcast" => ~event_msg /\ msg_togo # <<>> /\ msg = msg_togo[1]

-----------------------------------------------------------------------------
\* update stays and says nothing, or moves with a message that may follow the
\* last one; it ends where the energy says, and steps up only at the top.
LEMMA UpdateWalks ==
    ASSUME Setting, NEW s \in State, NEW e \in Int
    PROVE  LET u == update(s, e)
           IN  /\ u.state \in State
               /\ \/ u.state = s /\ u.msgs = <<>>
                  \/ /\ u.msgs = <<MsgOf(u.state)>> /\ MsgOf(u.state) \in MsgType
                     /\ <<MsgOf(s), MsgOf(u.state)>> \in Walk
               /\ u.state = "STATE_POWER_ON" => e > thres_1_to_ret
               /\ u.state = "STATE_POWER_RETENTION" =>
                     thres_ret_to_off < e /\ e < thres_ret_to_1
               /\ u.state = "STATE_POWER_OFF" => e < thres_ret_to_1
               /\ s = "STATE_POWER_ON" \/ e < thres_ret_to_1 =>
                     u.state = s \/ Height(MsgOf(u.state)) < Height(MsgOf(s))
<1>1. /\ thres_ret_to_off \in Nat /\ thres_1_to_ret \in Nat /\ thres_ret_to_1 \in Nat
      /\ thres_ret_to_off < thres_1_to_ret /\ thres_1_to_ret < thres_ret_to_1
  BY DEF Setting, RetThresAssumption
<1>2. CASE PowerFailure(s, e)
  BY <1>1, <1>2 DEF update, PowerFailure, State, MsgType, MsgOf, Walk, Height
<1>3. CASE ~PowerFailure(s, e) /\ EnterRetention(s, e)
  BY <1>1, <1>3 DEF update, PowerFailure, EnterRetention, State, MsgType, MsgOf, Walk, Height
<1>4. CASE ~PowerFailure(s, e) /\ ~EnterRetention(s, e) /\ PowerRecovery(s, e)
  BY <1>1, <1>4 DEF update, PowerFailure, EnterRetention, PowerRecovery, State, MsgType,
                    MsgOf, Walk, Height
<1>5. CASE ~PowerFailure(s, e) /\ ~EnterRetention(s, e) /\ ~PowerRecovery(s, e)
  BY <1>1, <1>5 DEF update, PowerFailure, EnterRetention, PowerRecovery, State, MsgType,
                    MsgOf, Walk, Height
<1>6. QED
  BY <1>2, <1>3, <1>4, <1>5, ZenonT(30)

\* What is left in the capacitor.
Range == {0} \cup (thres_ret_to_off .. Upper)

\* What is left of the energy: a draw lowers it or raises it to the bound.
LEMMA EnergyMoves ==
    ASSUME Setting, energy_remained \in Range, NEW val \in Nat
    PROVE  /\ EnergyAfter(val) \in Range
           /\ energy_remained < thres_ret_to_1 => EnergyAfter(val) < thres_ret_to_1
           /\ EnergyAfter(-val) \in Range
           /\ energy_remained = 0 /\ val * energy_profile_mult < thres_ret_to_1
                 => EnergyAfter(-val) < thres_ret_to_1
<1>1. /\ thres_ret_to_off \in Nat /\ thres_1_to_ret \in Nat /\ thres_ret_to_1 \in Nat
      /\ thres_ret_to_off < thres_ret_to_1 /\ thres_ret_to_off <= Upper /\ Upper \in Nat
  BY DEF Setting, RetThresAssumption
<1>2. /\ energy_remained \in Int
      /\ (energy_remained = 0 \/ energy_remained \in thres_ret_to_off .. Upper)
  BY <1>1 DEF Range
<1>3. /\ EnergyAfter(val) \in Range
      /\ energy_remained < thres_ret_to_1 => EnergyAfter(val) < thres_ret_to_1
  BY <1>1, <1>2 DEF EnergyAfter, Drawn, energy_consume_lower_bound, Range
<1> DEFINE gain == (-(-val)) * energy_profile_mult
<1>4. gain \in Nat /\ gain = val * energy_profile_mult
  BY DEF Setting
<1>5. Leakage = 0
  BY DEF Leakage, DirtyPatch
<1>6. -val < 0 => Harvested(-val) =
        LET x == energy_remained - 0 + gain
        IN  IF x > Upper THEN Upper
            ELSE IF x < thres_ret_to_off THEN thres_ret_to_off ELSE x
  BY <1>5 DEF Harvested, energy_consume_lower_bound
<1>7. EnergyAfter(-val) = IF -val < 0 THEN Harvested(-val) ELSE energy_remained
  BY DEF EnergyAfter
<1> HIDE DEF gain
<1>8. /\ EnergyAfter(-val) \in Range
      /\ energy_remained = 0 /\ gain < thres_ret_to_1 => EnergyAfter(-val) < thres_ret_to_1
  BY <1>1, <1>2, <1>4, <1>6, <1>7 DEF Range
<1>9. QED
  BY <1>3, <1>4, <1>8

\* What a change of energy to e does to the state and the queue.
LEMMA Consumes ==
    ASSUME Setting, state \in State, msg_togo \in Seq(MsgType), event_msg \in BOOLEAN,
           NEW x, consumeEnergy(x), EnergyAfter(x) \in Range
    PROVE  /\ energy_remained' = EnergyAfter(x) /\ state' \in State
           /\ \/ state' = state /\ msg_togo' = msg_togo /\ event_msg' = event_msg
              \/ /\ MsgOf(state') \in MsgType /\ <<MsgOf(state), MsgOf(state')>> \in Walk
                 /\ msg_togo' = Append(msg_togo, MsgOf(state'))
                 /\ event_msg' = (event_msg \/ msg_togo = <<>>)
           /\ state' = "STATE_POWER_ON" => energy_remained' > thres_1_to_ret
           /\ state' = "STATE_POWER_RETENTION" =>
                 thres_ret_to_off < energy_remained' /\ energy_remained' < thres_ret_to_1
           /\ state' = "STATE_POWER_OFF" => energy_remained' < thres_ret_to_1
           /\ state = "STATE_POWER_ON" \/ energy_remained' < thres_ret_to_1 =>
                 state' = state \/ Height(MsgOf(state')) < Height(MsgOf(state))
<1> DEFINE e == EnergyAfter(x)
           u == update(state, e)
<1>1. /\ energy_remained' = e /\ state' = u.state /\ msg_togo' = msg_togo \o u.msgs
      /\ event_msg' = (event_msg \/ (u.msgs # <<>> /\ Len(msg_togo \o u.msgs) = 1))
  BY DEF consumeEnergy, broadcastMsgAsEvent
<1>2. e \in Int
  BY DEF Range, Setting, RetThresAssumption
<1> HIDE DEF e
<1>3. /\ u.state \in State
      /\ \/ u.state = state /\ u.msgs = <<>>
         \/ /\ u.msgs = <<MsgOf(u.state)>> /\ MsgOf(u.state) \in MsgType
            /\ <<MsgOf(state), MsgOf(u.state)>> \in Walk
      /\ u.state = "STATE_POWER_ON" => e > thres_1_to_ret
      /\ u.state = "STATE_POWER_RETENTION" => thres_ret_to_off < e /\ e < thres_ret_to_1
      /\ u.state = "STATE_POWER_OFF" => e < thres_ret_to_1
      /\ state = "STATE_POWER_ON" \/ e < thres_ret_to_1 =>
            u.state = state \/ Height(MsgOf(u.state)) < Height(MsgOf(state))
  BY <1>2, UpdateWalks
<1> HIDE DEF u
<1>4. CASE u.state = state /\ u.msgs = <<>>
  <2>1. msg_togo \o <<>> = msg_togo
    OBVIOUS
  <2>2. msg_togo' = msg_togo /\ event_msg' = event_msg
    BY <1>1, <1>4, <2>1
  <2>3. QED
    BY <1>1, <1>3, <1>4, <2>2 DEF e
<1>5. CASE /\ u.msgs = <<MsgOf(u.state)>> /\ MsgOf(u.state) \in MsgType
           /\ <<MsgOf(state), MsgOf(u.state)>> \in Walk
  <2> DEFINE m == MsgOf(u.state)
  <2>1. m \in MsgType /\ u.msgs = <<m>> /\ MsgOf(state') = m
    BY <1>1, <1>5
  <2> HIDE DEF m
  <2>2. /\ msg_togo \o <<m>> = Append(msg_togo, m) /\ <<m>> # <<>>
        /\ Len(msg_togo \o <<m>>) = 1 <=> msg_togo = <<>>
    BY <2>1
  <2>3. msg_togo' = Append(msg_togo, m) /\ event_msg' = (event_msg \/ msg_togo = <<>>)
    BY <1>1, <2>1, <2>2
  <2>4. <<MsgOf(state), m>> \in Walk
    BY <1>5, <1>1, <2>1
  <2>5. QED
    BY <1>1, <1>3, <2>1, <2>3, <2>4 DEF e
<1>6. QED
  BY <1>3, <1>4, <1>5

\* A message that leads down, or the first one, keeps the queue in order.
LEMMA QueueGrows ==
    ASSUME NEW q \in Seq(MsgType), NEW s, NEW z, Queue(q, s), MsgOf(z) \in MsgType,
           <<MsgOf(s), MsgOf(z)>> \in Walk,
           q = <<>> \/ Height(MsgOf(z)) < Height(MsgOf(s))
    PROVE  /\ Append(q, MsgOf(z)) \in Seq(MsgType) /\ Queue(Append(q, MsgOf(z)), z)
           /\ Append(q, MsgOf(z)) # <<>>
           /\ Append(q, MsgOf(z))[1] = IF q = <<>> THEN MsgOf(z) ELSE q[1]
<1> DEFINE m == MsgOf(z)
           r == Append(q, m)
<1>0. m \in MsgType
  OBVIOUS
<1> HIDE DEF m
<1>1. /\ r \in Seq(MsgType) /\ Len(r) = Len(q) + 1 /\ r[Len(r)] = m /\ r # <<>>
      /\ \A i \in 1 .. Len(q) : r[i] = q[i]
      /\ Len(q) \in Nat /\ (q = <<>> <=> Len(q) = 0)
  <2>0. r \in Seq(MsgType) /\ Len(r) = Len(q) + 1 /\ Len(q) \in Nat
    BY <1>0
  <2>1. r[Len(q) + 1] = m /\ \A i \in 1 .. Len(q) : r[i] = q[i]
    BY <1>0
  <2>2. q = <<>> <=> Len(q) = 0
    OBVIOUS
  <2>3. r # <<>>
    <3> HIDE DEF r
    <3>1. Len(r) # 0
      BY <2>0
    <3>2. QED
      BY <3>1
  <2>4. QED
    BY <2>0, <2>1, <2>2, <2>3
<1>2. r[1] = IF q = <<>> THEN m ELSE q[1]
  BY <1>1
<1>3. ASSUME NEW i \in 1 .. Len(r) - 1
      PROVE  <<r[i], r[i + 1]>> \in Walk /\ Height(r[i + 1]) < Height(r[i])
  <2>1. CASE i = Len(q)
    <3>1. q # <<>> /\ r[i] = q[Len(q)] /\ r[i + 1] = m
      BY <1>1, <1>3, <2>1
    <3>2. q[Len(q)] = MsgOf(s)
      BY <3>1 DEF Queue
    <3>3. QED
      BY <3>1, <3>2 DEF m
  <2>2. CASE i # Len(q)
    <3>1. i \in 1 .. Len(q) - 1 /\ r[i] = q[i] /\ r[i + 1] = q[i + 1]
      BY <1>1, <1>3, <2>2
    <3>2. QED
      BY <3>1 DEF Queue
  <2>3. QED
    BY <2>1, <2>2, ZenonT(30)
<1> HIDE DEF r
<1>4. Queue(r, z)
  BY <1>1, <1>3 DEF Queue, m
<1>5. QED
  BY <1>1, <1>2, <1>4 DEF r, m

\* So does taking the first one away, which the next one then follows.
LEMMA QueueShrinks ==
    ASSUME NEW q \in Seq(MsgType), q # <<>>, NEW s, Queue(q, s)
    PROVE  /\ Tail(q) \in Seq(MsgType) /\ Queue(Tail(q), s)
           /\ Tail(q) = <<>> => q[1] = MsgOf(s)
           /\ Tail(q) # <<>> => <<q[1], Tail(q)[1]>> \in Walk
<1> DEFINE r == Tail(q)
<1>1. /\ r \in Seq(MsgType) /\ Len(r) = Len(q) - 1 /\ Len(q) \in Nat \ {0}
      /\ \A i \in 1 .. Len(r) : r[i] = q[i + 1]
      /\ (r = <<>> <=> Len(r) = 0)
  <2>1. Len(q) \in Nat \ {0}
    OBVIOUS
  <2>2. r \in Seq(MsgType) /\ Len(r) = Len(q) - 1
    BY <2>1
  <2>3. \A i \in 1 .. Len(q) - 1 : r[i] = q[i + 1]
    BY <2>1
  <2>4. r = <<>> <=> Len(r) = 0
    BY <2>2, SMTT(30)
  <2>5. QED
    BY <2>1, <2>2, <2>3, <2>4, SMTT(30)
<1> HIDE DEF r
<1>2. Queue(r, s)
  <2>1. r # <<>> => r[Len(r)] = MsgOf(s)
    <3>1. r # <<>> => Len(r) \in 1 .. Len(r) /\ Len(r) + 1 = Len(q)
      BY <1>1
    <3>2. QED
      BY <1>1, <3>1 DEF Queue
  <2>2. ASSUME NEW i \in 1 .. Len(r) - 1
        PROVE  <<r[i], r[i + 1]>> \in Walk /\ Height(r[i + 1]) < Height(r[i])
    <3>1. i + 1 \in 1 .. Len(q) - 1 /\ r[i] = q[i + 1] /\ r[i + 1] = q[(i + 1) + 1]
      BY <1>1, <2>2, SMTT(30)
    <3>2. QED
      BY <3>1 DEF Queue
  <2>3. QED
    BY <2>1, <2>2 DEF Queue
<1>3. r = <<>> => q[1] = MsgOf(s)
  <2>1. r = <<>> => Len(q) = 1
    BY <1>1
  <2>2. q[Len(q)] = MsgOf(s)
    BY DEF Queue
  <2>3. QED
    BY <2>1, <2>2, ZenonT(30)
<1>4. r # <<>> => <<q[1], r[1]>> \in Walk
  <2>1. r # <<>> => 1 \in 1 .. Len(q) - 1 /\ r[1] = q[1 + 1]
    BY <1>1
  <2>2. QED
    BY <2>1 DEF Queue
<1>5. QED
  BY <1>1, <1>2, <1>3, <1>4, ZenonT(30) DEF r

-----------------------------------------------------------------------------
\* A draw in a started system: the state follows the energy, and a message it
\* appends leads down from the last one.
LEMMA DrawKeeps ==
    ASSUME Setting, RetInv, Started, NEW val \in Nat, consumeEnergy(val)
    PROVE  /\ energy_remained' \in Range /\ state' \in State
           /\ msg_togo' \in Seq(MsgType) /\ Queue(msg_togo', state')
           /\ state' = "STATE_POWER_ON" => energy_remained' > thres_1_to_ret
           /\ state' = "STATE_POWER_RETENTION" =>
                 thres_ret_to_off < energy_remained' /\ energy_remained' < thres_ret_to_1
           /\ state' = "STATE_POWER_OFF" => energy_remained' < thres_ret_to_1
           /\ \/ state' = state /\ msg_togo' = msg_togo /\ event_msg' = event_msg
              \/ /\ <<MsgOf(state), MsgOf(state')>> \in Walk /\ msg_togo' # <<>>
                 /\ msg_togo'[1] = IF msg_togo = <<>> THEN MsgOf(state') ELSE msg_togo[1]
                 /\ event_msg' = (event_msg \/ msg_togo = <<>>)
<1>1. /\ state \in State /\ msg_togo \in Seq(MsgType) /\ event_msg \in BOOLEAN
      /\ energy_remained \in Range /\ Queue(msg_togo, state)
  BY DEF RetInv, Range
<1>2. /\ EnergyAfter(val) \in Range
      /\ energy_remained < thres_ret_to_1 => EnergyAfter(val) < thres_ret_to_1
  BY <1>1, EnergyMoves
<1>3. state = "STATE_POWER_ON" \/ energy_remained < thres_ret_to_1
  BY <1>1 DEF RetInv, RetentionMatchesEnergy, Started, State
<1>4. /\ energy_remained' = EnergyAfter(val) /\ state' \in State
      /\ \/ state' = state /\ msg_togo' = msg_togo /\ event_msg' = event_msg
         \/ /\ MsgOf(state') \in MsgType /\ <<MsgOf(state), MsgOf(state')>> \in Walk
            /\ msg_togo' = Append(msg_togo, MsgOf(state'))
            /\ event_msg' = (event_msg \/ msg_togo = <<>>)
      /\ state' = "STATE_POWER_ON" => energy_remained' > thres_1_to_ret
      /\ state' = "STATE_POWER_RETENTION" =>
            thres_ret_to_off < energy_remained' /\ energy_remained' < thres_ret_to_1
      /\ state' = "STATE_POWER_OFF" => energy_remained' < thres_ret_to_1
      /\ state = "STATE_POWER_ON" \/ energy_remained' < thres_ret_to_1 =>
            state' = state \/ Height(MsgOf(state')) < Height(MsgOf(state))
  BY <1>1, <1>2, Consumes
<1>5. state' = state \/ Height(MsgOf(state')) < Height(MsgOf(state))
  BY <1>2, <1>3, <1>4
<1>6. CASE state' = state /\ msg_togo' = msg_togo /\ event_msg' = event_msg
  BY <1>1, <1>2, <1>4, <1>6
<1>7. CASE /\ MsgOf(state') \in MsgType /\ <<MsgOf(state), MsgOf(state')>> \in Walk
           /\ msg_togo' = Append(msg_togo, MsgOf(state'))
           /\ event_msg' = (event_msg \/ msg_togo = <<>>)
  <2>1. state' # state
    BY <1>1, <1>7 DEF Walk, MsgOf, State
  <2>2. /\ msg_togo' \in Seq(MsgType) /\ Queue(msg_togo', state') /\ msg_togo' # <<>>
        /\ msg_togo'[1] = IF msg_togo = <<>> THEN MsgOf(state') ELSE msg_togo[1]
    BY <1>1, <1>5, <1>7, <2>1, QueueGrows
  <2>3. QED
    BY <1>2, <1>4, <1>7, <2>2
<1>8. QED
  BY <1>4, <1>6, <1>7

\* The invariant after a step that stays in its place of the event loop and
\* draws or harvests.
LEMMA StaysInPlace ==
    ASSUME Setting, RetInv, Started, pc' = pc, msg' = msg,
           energy_remained' \in Range, state' \in State,
           msg_togo' \in Seq(MsgType), Queue(msg_togo', state'),
           state' = "STATE_POWER_ON" => energy_remained' > thres_1_to_ret,
           state' = "STATE_POWER_RETENTION" =>
                 thres_ret_to_off < energy_remained' /\ energy_remained' < thres_ret_to_1,
           state' = "STATE_POWER_OFF" => energy_remained' < thres_ret_to_1,
           \/ state' = state /\ msg_togo' = msg_togo /\ event_msg' = event_msg
           \/ /\ <<MsgOf(state), MsgOf(state')>> \in Walk /\ msg_togo' # <<>>
              /\ msg_togo'[1] = IF msg_togo = <<>> THEN MsgOf(state') ELSE msg_togo[1]
              /\ event_msg' = (event_msg \/ msg_togo = <<>>)
    PROVE  RetInv'
<1>1. /\ energy_remained' \in {0} \cup (thres_ret_to_off .. Upper)
      /\ pc' \in {"run", "broadcast"} /\ msg' \in MsgType \cup {NoMsg} /\ Started'
      /\ RetentionMatchesEnergy' /\ event_msg \in BOOLEAN
  BY DEF RetInv, Range, Started, RetentionMatchesEnergy
<1>2. CASE state' = state /\ msg_togo' = msg_togo /\ event_msg' = event_msg
  BY <1>1, <1>2 DEF RetInv
<1>3. CASE /\ <<MsgOf(state), MsgOf(state')>> \in Walk /\ msg_togo' # <<>>
           /\ msg_togo'[1] = IF msg_togo = <<>> THEN MsgOf(state') ELSE msg_togo[1]
           /\ event_msg' = (event_msg \/ msg_togo = <<>>)
  <2>1. event_msg' \in BOOLEAN
    BY <1>1, <1>3
  <2>2. pc = "run" => event_msg'
    BY <1>1, <1>3, ZenonT(30) DEF RetInv
  <2>3. pc = "run" /\ msg # NoMsg => <<msg, msg_togo'[1]>> \in Walk
    BY <1>3, ZenonT(30) DEF RetInv
  <2>4. pc = "broadcast" => ~event_msg' /\ msg = msg_togo'[1]
    BY <1>3 DEF RetInv
  <2>5. QED
    BY <1>1, <1>3, <2>1, <2>2, <2>3, <2>4 DEF RetInv
<1>4. QED
  BY <1>2, <1>3

\* A harvest meets an empty queue, so whatever it announces comes first.
LEMMA HarvestKeeps ==
    ASSUME Setting, RetInv, HarvestEvent
    PROVE  RetInv'
<1>1. /\ Started /\ pc' = pc /\ msg' = msg /\ msg_togo = <<>>
      /\ state \in State /\ msg_togo \in Seq(MsgType) /\ event_msg \in BOOLEAN
      /\ energy_remained \in Range /\ Queue(msg_togo, state)
  BY DEF HarvestEvent, RetInv, Started, Range
<1>2. CASE UNCHANGED <<energy_remained, state, msg_togo, event_msg>>
  BY <1>1, <1>2 DEF RetInv, Started, RetentionMatchesEnergy, Quiet
<1>3. ASSUME NEW val \in Samples, consumeEnergy(-val)
      PROVE  RetInv'
  <2>1. val \in Nat
    BY DEF Setting
  <2>2. EnergyAfter(-val) \in Range
    BY <1>1, <2>1, EnergyMoves
  <2>3. /\ energy_remained' = EnergyAfter(-val) /\ state' \in State
        /\ \/ state' = state /\ msg_togo' = msg_togo /\ event_msg' = event_msg
           \/ /\ MsgOf(state') \in MsgType /\ <<MsgOf(state), MsgOf(state')>> \in Walk
              /\ msg_togo' = Append(msg_togo, MsgOf(state'))
              /\ event_msg' = (event_msg \/ msg_togo = <<>>)
        /\ state' = "STATE_POWER_ON" => energy_remained' > thres_1_to_ret
        /\ state' = "STATE_POWER_RETENTION" =>
              thres_ret_to_off < energy_remained' /\ energy_remained' < thres_ret_to_1
        /\ state' = "STATE_POWER_OFF" => energy_remained' < thres_ret_to_1
    BY <1>1, <1>3, <2>2, Consumes
  <2>4. CASE state' = state /\ msg_togo' = msg_togo /\ event_msg' = event_msg
    BY <1>1, <2>2, <2>3, <2>4, StaysInPlace
  <2>5. CASE /\ MsgOf(state') \in MsgType /\ <<MsgOf(state), MsgOf(state')>> \in Walk
             /\ msg_togo' = Append(msg_togo, MsgOf(state'))
             /\ event_msg' = (event_msg \/ msg_togo = <<>>)
    <3>1. /\ msg_togo' \in Seq(MsgType) /\ Queue(msg_togo', state') /\ msg_togo' # <<>>
          /\ msg_togo'[1] = IF msg_togo = <<>> THEN MsgOf(state') ELSE msg_togo[1]
      BY <1>1, <2>5, QueueGrows, ZenonT(30)
    <3>2. QED
      BY <1>1, <2>2, <2>3, <2>5, <3>1, StaysInPlace
  <2>6. QED
    BY <2>3, <2>4, <2>5
<1>4. QED
  BY <1>2, <1>3 DEF HarvestEvent, energyHarvest

\* Before the start the machine is off and says nothing; init then queues the
\* first POWER_OFF.
LEMMA StartKeeps ==
    ASSUME Setting, RetInv, MgmtInit \/ SMInit
    PROVE  RetInv'
<1>1. CASE MgmtInit
  <2>1. /\ pc = "mgmt_init" /\ pc' = "sm_init" /\ msg' = msg /\ Quiet /\ energy_remained = 0
        /\ state \in State /\ msg_togo \in Seq(MsgType) /\ event_msg \in BOOLEAN
        /\ energy_remained \in Range
    BY <1>1 DEF MgmtInit, RetInv, Started, Range
  <2>2. energy_remained' \in Range /\ Quiet'
    <3>1. CASE UNCHANGED <<energy_remained, state, msg_togo, event_msg>>
      BY <2>1, <3>1 DEF Quiet
    <3>2. ASSUME NEW val \in FirstSamples, consumeEnergy(-val)
          PROVE  energy_remained' \in Range /\ Quiet'
      <4>1. val \in Nat /\ val * energy_profile_mult < thres_ret_to_1
        BY DEF Setting, FirstSampleLow
      <4>2. EnergyAfter(-val) \in Range /\ EnergyAfter(-val) < thres_ret_to_1
        BY <2>1, <4>1, EnergyMoves
      <4>3. /\ energy_remained' = EnergyAfter(-val) /\ state' \in State
            /\ \/ state' = state /\ msg_togo' = msg_togo /\ event_msg' = event_msg
               \/ <<MsgOf(state), MsgOf(state')>> \in Walk
            /\ energy_remained' < thres_ret_to_1 =>
                  state' = state \/ Height(MsgOf(state')) < Height(MsgOf(state))
        BY <2>1, <3>2, <4>2, Consumes, ZenonT(30)
      <4>4. state = "STATE_POWER_OFF"
        BY <2>1 DEF Quiet
      <4>5. state' = state
        BY <4>2, <4>3, <4>4 DEF State, Height, MsgOf
      <4>6. ~(<<MsgOf(state), MsgOf(state')>> \in Walk)
        BY <4>4, <4>5 DEF MsgOf, Walk
      <4>7. QED
        BY <2>1, <4>2, <4>3, <4>6 DEF Quiet
    <3>3. QED
      BY <1>1, <3>1, <3>2 DEF MgmtInit, energyHarvest
  <2>3. /\ state' \in State /\ msg_togo' \in Seq(MsgType) /\ event_msg' \in BOOLEAN
        /\ Queue(msg_togo', state')
    <3>1. Len(<<>>) = 0 /\ <<>> \in Seq(MsgType)
      OBVIOUS
    <3>2. msg_togo' = <<>> /\ state' \in State /\ event_msg' = FALSE
      <4>1. msg_togo' = <<>> /\ state' = "STATE_POWER_OFF" /\ ~event_msg'
        BY <2>2 DEF Quiet
      <4>2. event_msg' \in BOOLEAN
        BY <1>1, <2>1, ZenonT(30) DEF MgmtInit, energyHarvest, consumeEnergy, broadcastMsgAsEvent
      <4>3. QED
        BY <4>1, <4>2 DEF State
    <3>3. 1 .. Len(<<>>) - 1 = {}
      BY <3>1
    <3>4. Queue(<<>>, state')
      BY <3>3 DEF Queue
    <3>5. QED
      BY <3>1, <3>2, <3>4, ZenonT(30)
  <2>4. QED
    BY <2>1, <2>2, <2>3 DEF RetInv, Started, RetentionMatchesEnergy, Range, Quiet
<1>2. CASE SMInit
  <2>1. /\ pc = "sm_init" /\ pc' = "run" /\ msg' = msg /\ Quiet
        /\ state' = "STATE_POWER_OFF" /\ energy_remained' = energy_remained
        /\ msg_togo' = <<>> \o <<"POWER_OFF">>
        /\ event_msg' = (FALSE \/ (<<"POWER_OFF">> # <<>> /\ Len(<<>> \o <<"POWER_OFF">>) = 1))
    BY <1>2 DEF SMInit, RetInv, Started, Quiet, InitState, InitMsg, broadcastMsgAsEvent
  <2>2. /\ <<>> \o <<"POWER_OFF">> = <<"POWER_OFF">> /\ Len(<<"POWER_OFF">>) = 1
        /\ <<"POWER_OFF">> # <<>> /\ <<"POWER_OFF">> \in Seq(MsgType)
    BY DEF MsgType
  <2>3. msg_togo' = <<"POWER_OFF">> /\ event_msg'
    BY <2>1, <2>2, ZenonT(30)
  <2>4. Queue(msg_togo', state')
    BY <2>1, <2>3 DEF Queue, MsgOf
  <2>5. energy_remained \in {0} \cup (thres_ret_to_off .. Upper) /\ energy_remained < thres_ret_to_1
    BY <2>1 DEF RetInv, Quiet
  <2>6. msg' = NoMsg /\ state' \in State /\ RetentionMatchesEnergy'
    BY <2>1, <2>5 DEF Quiet, State, RetentionMatchesEnergy
  <2>7. event_msg' = TRUE
    BY <2>1, <2>2, ZenonT(30)
  <2>8. QED
    BY <2>1, <2>2, <2>3, <2>4, <2>5, <2>6, <2>7 DEF RetInv, Started
<1>3. QED
  BY <1>1, <1>2

\* Beginning a broadcast takes the first message up, ending it takes it away.
LEMMA BroadcastKeeps ==
    ASSUME Setting, RetInv, BroadcastBegin \/ BroadcastEnd
    PROVE  RetInv'
<1>1. CASE BroadcastBegin
  <2>1. /\ pc = "run" /\ pc' = "broadcast" /\ event_msg' = FALSE /\ msg_togo # <<>>
        /\ msg' = Head(msg_togo)
        /\ UNCHANGED <<energy_remained, state, msg_togo>>
        /\ msg_togo \in Seq(MsgType)
    BY <1>1 DEF BroadcastBegin, RetInv
  <2>2. Head(msg_togo) = msg_togo[1] /\ Head(msg_togo) \in MsgType
    BY <2>1
  <2>3. RetentionMatchesEnergy'
    BY <2>1 DEF RetInv, RetentionMatchesEnergy
  <2>4. QED
    BY <2>1, <2>2, <2>3, ZenonT(30) DEF RetInv, Started
<1>2. CASE BroadcastEnd
  <2>1. /\ pc = "broadcast" /\ pc' = "run" /\ msg_togo # <<>> /\ msg' = msg
        /\ msg_togo' = Tail(msg_togo) /\ msg = msg_togo[1]
        /\ event_msg' = (event_msg \/ Tail(msg_togo) # <<>>) /\ ~event_msg
        /\ UNCHANGED <<energy_remained, state>>
        /\ msg_togo \in Seq(MsgType) /\ Queue(msg_togo, state)
    BY <1>2 DEF BroadcastEnd, RetInv
  <2>2. /\ Tail(msg_togo) \in Seq(MsgType) /\ Queue(Tail(msg_togo), state)
        /\ Tail(msg_togo) = <<>> => msg_togo[1] = MsgOf(state)
        /\ Tail(msg_togo) # <<>> => <<msg_togo[1], Tail(msg_togo)[1]>> \in Walk
    BY <2>1, QueueShrinks, ZenonT(30)
  <2>3. RetentionMatchesEnergy'
    BY <2>1 DEF RetInv, RetentionMatchesEnergy
  <2>4. event_msg' \in BOOLEAN /\ (event_msg' <=> msg_togo' # <<>>)
    BY <2>1, ZenonT(30)
  <2>5. QED
    BY <2>1, <2>2, <2>3, <2>4, ZenonT(30) DEF RetInv, Started
<1>3. QED
  BY <1>1, <1>2

-----------------------------------------------------------------------------
\* Before the first init() nothing has been said.
LEMMA RetentionInit == ASSUME Setting, Init PROVE RetInv
<1>2. Len(<<>>) = 0 /\ <<>> \in Seq(MsgType)
  OBVIOUS
<1>3. 1 .. Len(<<>>) - 1 = {}
  BY <1>2
<1>4. Queue(<<>>, state)
  BY <1>3 DEF Queue
<1>5. thres_ret_to_1 \in Nat /\ 0 < thres_ret_to_1
  BY DEF Setting, RetThresAssumption
<1>6. QED
  BY <1>2, <1>4, <1>5, ZenonT(30)
     DEF Init, RetInv, Started, Quiet, StartState, State, RetentionMatchesEnergy

\* Every step of the manager keeps RetInv.
LEMMA RetentionStep == ASSUME Setting, RetInv, [Next]_vars PROVE RetInv'
<1>1. CASE MgmtInit \/ SMInit
  BY <1>1, StartKeeps
<1>2. CASE HarvestEvent
  BY <1>2, HarvestKeeps
<1>3. CASE BroadcastBegin \/ BroadcastEnd
  BY <1>3, BroadcastKeeps
<1>4. ASSUME NEW val \in Nat, consumeEnergy(val), Started, pc' = pc, msg' = msg
      PROVE  RetInv'
  <2>1. /\ energy_remained' \in Range /\ state' \in State
        /\ msg_togo' \in Seq(MsgType) /\ Queue(msg_togo', state')
        /\ state' = "STATE_POWER_ON" => energy_remained' > thres_1_to_ret
        /\ state' = "STATE_POWER_RETENTION" =>
              thres_ret_to_off < energy_remained' /\ energy_remained' < thres_ret_to_1
        /\ state' = "STATE_POWER_OFF" => energy_remained' < thres_ret_to_1
        /\ \/ state' = state /\ msg_togo' = msg_togo /\ event_msg' = event_msg
           \/ /\ <<MsgOf(state), MsgOf(state')>> \in Walk /\ msg_togo' # <<>>
              /\ msg_togo'[1] = IF msg_togo = <<>> THEN MsgOf(state') ELSE msg_togo[1]
              /\ event_msg' = (event_msg \/ msg_togo = <<>>)
    BY <1>4, DrawKeeps
  <2>2. QED
    BY <1>4, <2>1, StaysInPlace
<1>5. CASE ConsumeMsg
  <2>1. PICK val \in Costs : consumeEnergy(val)
    BY <1>5 DEF ConsumeMsg
  <2>2. val \in Nat /\ Started /\ pc' = pc /\ msg' = msg
    BY <1>5 DEF ConsumeMsg, Setting, Started
  <2>3. QED
    BY <1>4, <2>1, <2>2
<1>6. CASE UNCHANGED <<energy_remained, state, msg_togo, event_msg, pc, msg>>
  BY <1>6 DEF RetInv, Started, Quiet, RetentionMatchesEnergy
<1>7. CASE Deliver
  <2>1. Started /\ pc' = pc /\ msg' = msg
    BY <1>7 DEF Deliver, Started
  <2>2. ASSUME NEW val \in HandlerCosts, consumeEnergy(val)
        PROVE  RetInv'
    <3>1. val \in Nat
      BY DEF Setting
    <3>2. QED
      BY <1>4, <2>1, <2>2, <3>1
  <2>3. CASE UNCHANGED <<energy_remained, state, msg_togo, event_msg>>
    BY <1>6, <2>1, <2>3
  <2>4. QED
    BY <1>7, <2>2, <2>3 DEF Deliver
<1>8. CASE UNCHANGED vars
  BY <1>6, <1>8 DEF vars
<1>9. QED
  BY <1>1, <1>2, <1>3, <1>5, <1>7, <1>8 DEF Next

\* The messages and the state follow the energy in every reachable state.
THEOREM RetentionInvariant == ASSUME Setting PROVE Spec => []RetInv
<1>1. Init => RetInv
  BY RetentionInit
<1>2. RetInv /\ [Next]_vars => RetInv'
  BY RetentionStep
<1>3. QED
  BY <1>1, <1>2, PTL DEF Spec

\* SM_Retention::update leaves a started system in the state its energy asks
\* for, whatever one draw or harvest skips.
THEOREM RetentionMatchesEnergyCorrect ==
    ASSUME Setting PROVE Spec => []RetentionMatchesEnergy
<1>1. RetInv => RetentionMatchesEnergy
  BY DEF RetInv
<1>2. QED
  BY <1>1, RetentionInvariant, PTL

\* A queue whose messages lead down has at most three.
LEMMA AtMostThree == ASSUME RetInv PROVE AtMostThreeMsgs
<1>1. SUFFICES ASSUME Len(msg_togo) > 3
               PROVE  FALSE
  BY DEF RetInv, AtMostThreeMsgs
<1>2. msg_togo \in Seq(MsgType) /\ Queue(msg_togo, state) /\ Len(msg_togo) \in Nat
  BY <1>1 DEF RetInv
<1>3. \A m \in MsgType : Height(m) \in 0 .. 2
  BY DEF MsgType, Height
<1>4. msg_togo[1] \in MsgType /\ msg_togo[2] \in MsgType
      /\ msg_togo[3] \in MsgType /\ msg_togo[4] \in MsgType
  BY <1>1, <1>2
<1>5. \A i \in 1 .. 3 : Height(msg_togo[i + 1]) < Height(msg_togo[i])
  <2>1. \A i \in 1 .. Len(msg_togo) - 1 : Height(msg_togo[i + 1]) < Height(msg_togo[i])
    BY <1>2, ZenonT(30) DEF Queue
  <2>2. \A i \in 1 .. 3 : i \in 1 .. Len(msg_togo) - 1
    BY <1>1, <1>2
  <2>3. QED
    BY <2>1, <2>2
<1>6. /\ Height(msg_togo[2]) < Height(msg_togo[1])
      /\ Height(msg_togo[3]) < Height(msg_togo[2])
      /\ Height(msg_togo[4]) < Height(msg_togo[3])
  BY <1>5
<1>7. QED
  BY <1>3, <1>4, <1>6

\* However handlers draw energy inside a broadcast, broadcastMsgAsEvent never
\* has more than three messages to keep: each queued one leads further down.
THEOREM AtMostThreeMsgsCorrect ==
    ASSUME Setting PROVE Spec => []AtMostThreeMsgs
<1>1. RetInv => AtMostThreeMsgs
  BY AtMostThree
<1>2. QED
  BY <1>1, RetentionInvariant, PTL

\* The last message broadcast continues into the queue.
LEMMA MsgsFollowInv == ASSUME RetInv PROVE RetentionMsgsFollow
<1>1. msg_togo \in Seq(MsgType) /\ Queue(msg_togo, state)
  BY DEF RetInv
<1>2. CASE Announced = msg_togo
  BY <1>1, <1>2 DEF RetentionMsgsFollow, Queue, Walk
<1>3. CASE pc # "broadcast" /\ msg # NoMsg
  <2>1. /\ pc = "run" /\ msg \in MsgType
        /\ msg_togo = <<>> => msg = MsgOf(state)
        /\ msg_togo # <<>> => <<msg, msg_togo[1]>> \in Walk
    BY <1>3 DEF RetInv, Started, Quiet
  <2> DEFINE a == <<msg>> \o msg_togo
  <2>2. Announced = a
    BY <1>3 DEF Announced
  <2>3. /\ Len(a) = Len(msg_togo) + 1 /\ Len(msg_togo) \in Nat /\ a[1] = msg
        /\ \A i \in 1 .. Len(msg_togo) : a[i + 1] = msg_togo[i]
    BY <1>1, <2>1
  <2>4. msg_togo = <<>> <=> Len(msg_togo) = 0
    BY <1>1
  <2> HIDE DEF a
  <2>5. ASSUME NEW i \in 1 .. Len(a) - 1
        PROVE  <<a[i], a[i + 1]>> \in Walk
    <3>1. CASE i = 1
      <4>1. msg_togo # <<>> /\ a[i + 1] = msg_togo[1] /\ a[i] = msg
        BY <2>3, <2>4, <2>5, <3>1
      <4>2. QED
        BY <2>1, <4>1
    <3>2. CASE i # 1
      <4>1. i - 1 \in 1 .. Len(msg_togo) - 1
        BY <2>3, <2>5, <3>2
      <4>2. a[(i - 1) + 1] = msg_togo[i - 1] /\ a[i + 1] = msg_togo[(i - 1) + 1]
        BY <2>3, <2>5, <4>1
      <4>3. (i - 1) + 1 = i
        BY <2>5
      <4>4. <<msg_togo[i - 1], msg_togo[(i - 1) + 1]>> \in Walk
        BY <1>1, <4>1 DEF Queue
      <4>5. QED
        BY <4>2, <4>3, <4>4
    <3>3. QED
      BY <3>1, <3>2
  <2>6. a[Len(a)] = MsgOf(state)
    <3>1. CASE msg_togo = <<>>
      BY <2>1, <2>3, <2>4, <3>1
    <3>2. CASE msg_togo # <<>>
      <4>1. Len(msg_togo) \in 1 .. Len(msg_togo)
        BY <2>3, <2>4, <3>2
      <4>2. a[Len(a)] = msg_togo[Len(msg_togo)]
        BY <2>3, <4>1
      <4>3. QED
        BY <1>1, <3>2, <4>2 DEF Queue
    <3>3. QED
      BY <3>1, <3>2
  <2>7. QED
    BY <2>2, <2>5, <2>6 DEF RetentionMsgsFollow, Walk
<1>4. QED
  BY <1>2, <1>3 DEF Announced

\* What slaves are told is a walk of the machine that ends in its state.
THEOREM RetentionMsgsFollowCorrect ==
    ASSUME Setting PROVE Spec => []RetentionMsgsFollow
<1>1. RetInv => RetentionMsgsFollow
  BY MsgsFollowInv
<1>2. QED
  BY <1>1, RetentionInvariant, PTL
=============================================================================
