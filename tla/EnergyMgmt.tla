----------------------------- MODULE EnergyMgmt -----------------------------
(***************************************************************************)
(* The energy manager (engy/energy_mgmt.cc), its energy state machine and  *)
(* its master energy port (engy/energy_port.cc).                           *)
(*                                                                         *)
(* The manager keeps the energy left in the capacitor.  Consumers on the   *)
(* slave ports draw from it, the harvest event adds to it, and after every *)
(* change the state machine may hand over a message.  Messages wait in     *)
(* msg_togo; event_msg broadcasts the first one to every slave in binding  *)
(* order.  A slave may consume energy while it handles a message, which    *)
(* appends to msg_togo in the middle of the broadcast.                     *)
(*                                                                         *)
(* The simulation is one thread of events.  pc says what it is doing: one  *)
(* of the two start-up calls, nothing ("run": between two events), or the  *)
(* broadcast loop, whose next slave is pos.  Other events run only in      *)
(* "run".                                                                  *)
(*                                                                         *)
(* The state machine is a parameter.  Slaves are abstract here: what they  *)
(* consume is any value of a set, and heard[i] is the last message slave i *)
(* was given.                                                              *)
(***************************************************************************)
EXTENDS Integers, Sequences

CONSTANTS
    N,                   \* number of bound slave ports
    SMState, SMMsg,      \* states and message types of the state machine
    StartSM,             \* state after its constructor
    InitSM, InitSMMsg,   \* state and message of its init()
    SMUpdate(_, _),      \* its update: [state, msgs]
    Leaks(_),            \* states in which DFS_LRY_poweron_dirty_patch is set
    Lower,               \* energy_consume_lower_bound
    Upper,               \* upper_bound, from the capacity
    system_leakage,
    energy_profile_mult,
    FirstSamples,        \* what the first entry of the profile may be
    Samples,             \* what the later entries may be
    Costs,               \* what a slave may consume in an event of its own
    HandlerCosts,        \* what a slave may consume while handling a message
    NoMsg                \* heard before the first message

EnergyRange == {0} \cup (Lower .. Upper)
Result == [state : SMState, msgs : {<<>>} \cup {<<m>> : m \in SMMsg}]

ASSUME SlavesAssumption == N \in Nat

ASSUME EnergyAssumption ==
    /\ Lower \in Nat /\ Upper \in Nat /\ Lower <= Upper
    /\ system_leakage \in Nat /\ energy_profile_mult \in Nat
    /\ FirstSamples \subseteq Nat /\ Samples \subseteq Nat
    /\ Costs \subseteq Nat /\ HandlerCosts \subseteq Nat

ASSUME SMAssumption ==
    /\ StartSM \in SMState /\ InitSM \in SMState /\ InitSMMsg \in SMMsg
    /\ NoMsg \notin SMMsg
    /\ \A s \in SMState, e \in EnergyRange : SMUpdate(s, e) \in Result
    /\ \A s \in SMState : Leaks(s) \in BOOLEAN

VARIABLES
    energy_remained,
    state,           \* of the state machine
    msg_togo,
    event_msg,       \* is event_msg scheduled?
    event_harvest,   \* is event_energy_harvest scheduled?
    pc, pos,
    msg,             \* the by-value argument of the broadcast under way
    heard

vars == <<energy_remained, state, msg_togo, event_msg, event_harvest,
          pc, pos, msg, heard>>

TypeOK ==
    /\ energy_remained \in EnergyRange
    /\ state \in SMState
    /\ msg_togo \in Seq(SMMsg)
    /\ event_msg \in BOOLEAN
    /\ event_harvest \in BOOLEAN
    /\ pc \in {"mgmt_init", "sm_init", "run", "broadcast"}
    /\ pos \in 1 .. N + 1
    /\ msg \in SMMsg \cup {NoMsg}
    /\ heard \in [1 .. N -> SMMsg \cup {NoMsg}]

-----------------------------------------------------------------------------
\* The energy after consumeEnergy(val): val > 0 draws, val < 0 harvests.
Drawn(val) ==
    IF energy_remained - val < Lower THEN Lower ELSE energy_remained - val

Leakage == IF Leaks(state) THEN system_leakage ELSE 0

Harvested(val) ==
    LET e == energy_remained - Leakage + (-val) * energy_profile_mult
    IN  IF e > Upper THEN Upper ELSE IF e < Lower THEN Lower ELSE e

EnergyAfter(val) ==
    IF val > 0 THEN Drawn(val)
    ELSE IF val < 0 THEN Harvested(val)
    ELSE energy_remained

\* Mutant of broadcastMsgAsEvent: every message schedules event_msg.
ScheduleAlways(ms) ==
    /\ msg_togo' = msg_togo \o ms
    /\ event_msg' = (event_msg \/ ms # <<>>)

\* Queue the messages ms (none or one); the first one schedules event_msg.
broadcastMsgAsEvent(ms) ==
    /\ msg_togo' = msg_togo \o ms
    /\ event_msg' = (event_msg \/ (ms # <<>> /\ Len(msg_togo \o ms) = 1))

\* Mutant of consumeEnergy: the state machine sees the energy before the draw.
UpdateBeforeDraw(val) ==
    LET u == SMUpdate(state, energy_remained)
    IN  /\ energy_remained' = EnergyAfter(val)
        /\ state' = u.state
        /\ broadcastMsgAsEvent(u.msgs)

consumeEnergy(val) ==
    LET e == EnergyAfter(val)
        u == SMUpdate(state, e)
    IN  /\ energy_remained' = e
        /\ state' = u.state
        /\ broadcastMsgAsEvent(u.msgs)

\* The body of energyHarvest.  An exhausted (or absent) profile ends the
\* chain of harvest events.
energyHarvest(samples) ==
    \/ /\ event_harvest' = FALSE
       /\ UNCHANGED <<energy_remained, state, msg_togo, event_msg>>
    \/ \E val \in samples :
          /\ consumeEnergy(-val)
          /\ event_harvest' = TRUE

-----------------------------------------------------------------------------
Init ==
    /\ energy_remained = 0
    /\ state = StartSM
    /\ msg_togo = <<>>
    /\ event_msg = FALSE
    /\ event_harvest = FALSE
    /\ pc = "mgmt_init"
    /\ pos = 1
    /\ msg = NoMsg
    /\ heard = [i \in 1 .. N |-> NoMsg]

\* EnergyMgmt::init harvests at once; the manager comes before its child, the
\* state machine, in the order of init() calls.
MgmtInit ==
    /\ pc = "mgmt_init"
    /\ energyHarvest(FirstSamples)
    /\ pc' = "sm_init"
    /\ UNCHANGED <<pos, msg, heard>>

SMInit ==
    /\ pc = "sm_init"
    /\ state' = InitSM
    /\ broadcastMsgAsEvent(<<InitSMMsg>>)
    /\ pc' = "run"
    /\ UNCHANGED <<energy_remained, event_harvest, pos, msg, heard>>

\* The harvest event.  event_msg is only ever scheduled for the current tick
\* and the two events have the same priority, so the queue (last in, first
\* out within a tick and priority) serves a waiting event_msg first.
HarvestEvent ==
    /\ pc = "run" /\ event_harvest /\ ~event_msg
    /\ energyHarvest(Samples)
    /\ UNCHANGED <<pc, pos, msg, heard>>

\* A slave consumes energy in an event of its own, through its slave port.
ConsumeMsg ==
    /\ pc = "run"
    /\ \E val \in Costs : consumeEnergy(val)
    /\ UNCHANGED <<event_harvest, pc, pos, msg, heard>>

\* Mutant of BroadcastBegin: the loop misses the first slave.
BroadcastFromSecond ==
    /\ pc = "run" /\ event_msg
    /\ event_msg' = FALSE
    /\ msg' = Head(msg_togo)
    /\ pc' = "broadcast" /\ pos' = IF N > 0 THEN 2 ELSE 1
    /\ UNCHANGED <<energy_remained, state, msg_togo, event_harvest, heard>>

\* event_msg fires: broadcastMsg copies the first message and starts the loop.
BroadcastBegin ==
    /\ pc = "run" /\ event_msg
    /\ event_msg' = FALSE
    /\ msg' = Head(msg_togo)
    /\ pc' = "broadcast" /\ pos' = 1
    /\ UNCHANGED <<energy_remained, state, msg_togo, event_harvest, heard>>

\* One slave handles the message; it may or may not consume energy.
Deliver ==
    /\ pc = "broadcast" /\ pos <= N
    /\ heard' = [heard EXCEPT ![pos] = msg]
    /\ pos' = pos + 1
    /\ \/ \E val \in HandlerCosts : consumeEnergy(val)
       \/ UNCHANGED <<energy_remained, state, msg_togo, event_msg>>
    /\ UNCHANGED <<event_harvest, pc, msg>>

\* Mutants of BroadcastEnd: it drops all messages; it forgets to go on.
DropAll ==
    /\ pc = "broadcast" /\ pos = N + 1
    /\ msg_togo' = <<>>
    /\ pc' = "run" /\ pos' = 1
    /\ UNCHANGED <<energy_remained, state, event_msg, event_harvest, msg, heard>>

NoFollowUp ==
    /\ pc = "broadcast" /\ pos = N + 1
    /\ msg_togo' = Tail(msg_togo)
    /\ pc' = "run" /\ pos' = 1
    /\ UNCHANGED <<energy_remained, state, event_msg, event_harvest, msg, heard>>

\* The loop is over: drop the message, go on in the same tick if more wait.
BroadcastEnd ==
    /\ pc = "broadcast" /\ pos = N + 1
    /\ msg_togo' = Tail(msg_togo)
    /\ event_msg' = (event_msg \/ Tail(msg_togo) # <<>>)
    /\ pc' = "run" /\ pos' = 1
    /\ UNCHANGED <<energy_remained, state, event_harvest, msg, heard>>

Next == MgmtInit \/ SMInit \/ HarvestEvent \/ ConsumeMsg
        \/ BroadcastBegin \/ Deliver \/ BroadcastEnd

\* The event loop serves event_msg before time can pass, and a C++ loop once
\* entered runs to its end.
Fairness == /\ WF_vars(MgmtInit \/ SMInit)
            /\ WF_vars(BroadcastBegin) /\ WF_vars(Deliver) /\ WF_vars(BroadcastEnd)

Spec == Init /\ [][Next]_vars /\ Fairness

-----------------------------------------------------------------------------
\* What the slaves are being told: the last message broadcast, then those
\* still to go (a message under way is both the last one and the first).
Announced == IF pc = "broadcast" \/ msg = NoMsg THEN msg_togo ELSE <<msg>> \o msg_togo

\* msg_togo and event_msg never disagree, although messages are appended from
\* inside a broadcast: between events event_msg is scheduled exactly when
\* messages wait (so none is ever stranded, and schedule() in
\* broadcastMsgAsEvent and broadcastMsg never meets a scheduled event), and
\* during a broadcast the message at the front is still the one under way, so
\* that the erase() at the end drops that message and no other.
MsgQueueInv ==
    /\ pc # "broadcast" => (event_msg <=> msg_togo # <<>>)
    /\ pc = "broadcast" => /\ ~event_msg
                           /\ msg_togo # <<>>
                           /\ Head(msg_togo) = msg

\* Slaves learn of power changes together: between two broadcasts all have
\* heard the same message, and inside one those before pos have the new one
\* while the others still share the previous one (MasterEnergyPort's loop).
SlavesInStep ==
    /\ pc # "broadcast" => \A i, j \in 1 .. N : heard[i] = heard[j]
    /\ pc = "broadcast" =>
          /\ \A i \in 1 .. pos - 1 : heard[i] = msg
          /\ \A i, j \in pos .. N : heard[i] = heard[j]
=============================================================================
