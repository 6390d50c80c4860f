----------------------------- MODULE PowerCycle -----------------------------
(***************************************************************************)
(* The CPU, its devices and the program on it, living on a power rail.     *)
(*                                                                         *)
(* The energy framework is replaced by what it promises, PowerRail, which  *)
(* SimplePower implements: power may fail and return at any time.  Slave 1 *)
(* of the rail is the CPU and slave id + 1 is device id: every             *)
(* configuration script binds the CPU first.                               *)
(*                                                                         *)
(* Events of one tick run in the order of their priorities: the CPU tick,  *)
(* device interrupts, energy.  Elapse moves on to the next tick.           *)
(*                                                                         *)
(* The program uses its devices through test-progs/brgMonitor/peripheral.c *)
(* and nothing else: periInit writes INIT and polls READY, an operation    *)
(* writes EXEC (the device's ACTIVATE) and polls FINISH (its IDLE).  One   *)
(* tick of a polling loop is one poll.  sw[id] is where the program is     *)
(* with device id.                                                         *)
(***************************************************************************)
EXTENDS VirtualDevice, PowerRail

CONSTANTS Latencies,   \* what an instruction may take, in ticks
          ReInit       \* may a program initialise a device that is ready?

ASSUME NodeAssumption ==
    /\ N \in Nat \ {0} /\ Dev = 1 .. N - 1
    /\ NoMsg \notin {"POWER_OFF", "POWER_ON"}
    /\ Latencies \subseteq Nat /\ \A l \in Latencies : l >= clockPeriod
    /\ ReInit \in BOOLEAN

VARIABLES cpu, dev, sw

vars == <<cpu, dev, sw, rail, heard>>

TypeOK ==
    /\ cpu \in CPUType
    /\ dev \in [Dev -> DevType]
    /\ sw \in [Dev -> {"fresh", "init", "ready", "exec"}]
    /\ rail \in {"POWER_OFF", "POWER_ON", NoMsg}
    /\ heard \in [1 .. N -> {"POWER_OFF", "POWER_ON", NoMsg}]

-----------------------------------------------------------------------------
Polling == {id \in Dev : sw[id] \in {"init", "exec"}}

InterruptDue(id) == 0 \in {dev[id].event_init, dev[id].event_interrupt}
NothingDue == cpu.tickEvent # 0 /\ \A id \in Dev : ~InterruptDue(id)

\* Is a broadcast under way?
Telling == \E i \in 1 .. N : ~Told(i)

Init ==
    /\ RailInit
    /\ cpu = CPUInit
    /\ dev = [id \in Dev |-> DevInit]
    /\ sw = [id \in Dev |-> "fresh"]

\* The CPU's tick event, one action per kind of instruction.
Tick(r, id) ==
    /\ \E l \in Latencies : cpu' = cpuTick(r.cpu, l)
    /\ dev' = [dev EXCEPT ![id] = r.dev]
    /\ UNCHANGED <<rail, heard>>

Compute ==
    /\ cpu.tickEvent = 0 /\ ~Telling /\ Polling = {}
    /\ \E l \in Latencies : cpu' = cpuTick(cpu, l)
    /\ UNCHANGED <<dev, sw, rail, heard>>

\* The first instruction of a program, which runs before the first message,
\* does not access a device.
PeriInit(id) ==
    /\ cpu.tickEvent = 0 /\ ~Telling /\ Polling = {} /\ rail # NoMsg
    /\ sw[id] = "fresh" \/ (ReInit /\ sw[id] = "ready")
    /\ Tick(AccessInit(id, dev[id], cpu), id)
    /\ sw' = [sw EXCEPT ![id] = "init"]

Exec(id) ==
    /\ cpu.tickEvent = 0 /\ ~Telling /\ Polling = {}
    /\ sw[id] = "ready"
    /\ Tick(AccessActivate(id, dev[id], cpu), id)
    /\ sw' = [sw EXCEPT ![id] = "exec"]

Poll(id) ==
    /\ cpu.tickEvent = 0 /\ ~Telling /\ id \in Polling
    /\ Tick(Both(dev[id], cpu), id)
    /\ sw' = [sw EXCEPT ![id] =
                IF (IF @ = "init" THEN "READY" ELSE "IDLE") \in dev[id].pmem
                THEN "ready" ELSE @]

\* A device event fires; CPU ticks of the same tick come first.
InitEvent(id) ==
    /\ dev[id].event_init = 0 /\ cpu.tickEvent # 0 /\ ~Telling
    /\ LET r == triggerInterrupt(id, [dev[id] EXCEPT !.event_init = NotScheduled], cpu)
       IN  dev' = [dev EXCEPT ![id] = r.dev] /\ cpu' = r.cpu
    /\ UNCHANGED <<sw, rail, heard>>

InterruptEvent(id) ==
    /\ dev[id].event_interrupt = 0 /\ cpu.tickEvent # 0 /\ ~Telling
    /\ LET r == triggerInterrupt(id, [dev[id] EXCEPT !.event_interrupt = NotScheduled], cpu)
       IN  dev' = [dev EXCEPT ![id] = r.dev] /\ cpu' = r.cpu
    /\ UNCHANGED <<sw, rail, heard>>

\* The energy manager's event, the last of a tick, and its broadcast.
PowerSwitch ==
    /\ NothingDue /\ Switch
    /\ UNCHANGED <<cpu, dev, sw>>

TellCPU ==
    /\ Tell(1)
    /\ cpu' = cpuHandleMsg(cpu, rail)
    /\ UNCHANGED <<dev, sw>>

TellDev(id) ==
    /\ Tell(id + 1)
    /\ LET r == vdevHandleMsg(id, dev[id], cpu, rail)
       IN  dev' = [dev EXCEPT ![id] = r.dev] /\ cpu' = r.cpu
    /\ UNCHANGED sw

\* One tick of simulated time passes.
Sooner(e) == IF scheduled(e) THEN e - 1 ELSE e

Elapse ==
    /\ NothingDue /\ ~Telling /\ rail # NoMsg
    /\ \/ scheduled(cpu.tickEvent)
       \/ \E id \in Dev : scheduled(dev[id].event_init) \/ scheduled(dev[id].event_interrupt)
    /\ cpu' = [cpu EXCEPT !.tickEvent = Sooner(@)]
    /\ dev' = [id \in Dev |-> [dev[id] EXCEPT !.event_init = Sooner(@),
                                              !.event_interrupt = Sooner(@)]]
    /\ UNCHANGED <<sw, rail, heard>>

Next ==
    \/ Compute \/ PowerSwitch \/ TellCPU \/ Elapse
    \/ \E id \in Dev : \/ PeriInit(id) \/ Exec(id) \/ Poll(id)
                       \/ InitEvent(id) \/ InterruptEvent(id) \/ TellDev(id)

\* The event loop always serves the next event.  Nothing is assumed of the
\* power, nor of what the program does between two operations.
Fairness ==
    /\ WF_vars(Elapse) /\ WF_vars(TellCPU)
    /\ WF_vars(Compute \/ \E id \in Dev : PeriInit(id) \/ Exec(id))
    /\ \A id \in Dev : /\ WF_vars(Poll(id)) /\ WF_vars(TellDev(id))
                       /\ WF_vars(InitEvent(id)) /\ WF_vars(InterruptEvent(id))

Spec == Init /\ [][Next]_vars /\ Fairness

-----------------------------------------------------------------------------
\* The CPU has a tick to come exactly while it has not been told of a power
\* failure.  So no instruction runs without power, deschedule() in handleMsg
\* finds the event scheduled and schedule() finds it free, and the reschedule()
\* a device asks for when it recovers or interrupts always finds it scheduled.
TickIffPowered == scheduled(cpu.tickEvent) <=> heard[1] # "POWER_OFF"

\* The flags a program reads and the events a device has scheduled agree: it
\* initialises exactly while busy and not ready, works exactly while busy and
\* ready.  So the assertions before deschedule() in handleMsg and the one in
\* triggerInterrupt hold.
EventsMatchFlags ==
    \A id \in Dev :
        LET d == dev[id]
        IN  /\ scheduled(d.event_init) <=> "BUSY" \in d.pmem /\ "READY" \notin d.pmem
            /\ scheduled(d.event_interrupt) <=> "BUSY" \in d.pmem /\ "READY" \in d.pmem

\* The CPU is kept waiting long enough: when it executes an instruction, every
\* device that its program has initialised is initialised, however often power
\* failed in between; one that the program has not put to work is free, so
\* access() discards no operation; and one it polls does not show FINISH while
\* it works on a restarted task.
ReadyWhenCPURuns ==
    cpu.tickEvent = 0 /\ ~Telling =>
        \A id \in Dev :
            /\ sw[id] \in {"ready", "exec"} => "READY" \in dev[id].pmem
            /\ sw[id] = "ready" => "BUSY" \notin dev[id].pmem
            /\ sw[id] = "exec" => ~({"IDLE", "BUSY"} \subseteq dev[id].pmem)

\* A device draws its active power exactly while it works on a task, and none
\* once it has been told of a power failure.
EnergyStateTracksWork ==
    \A id \in Dev :
        /\ dev[id].vdev_energy_state = "STATE_ACTIVE" <=> scheduled(dev[id].event_interrupt)
        /\ heard[id + 1] = "POWER_OFF" => dev[id].vdev_energy_state = "STATE_POWER_OFF"


\* Once power stays on, every polling loop of the program ends.
PollingEnds ==
    <>[](rail = "POWER_ON") => \A id \in Dev : (id \in Polling) ~> (id \notin Polling)

-----------------------------------------------------------------------------
\* atomic.hh: the CPU records the time of the task that a power failure
\* interrupted.  Its next tick after power returns is not before that time.
RemainderResumed ==
    [][heard[1] = "POWER_OFF" /\ heard'[1] = "POWER_ON"
          => cpu'.tickEvent >= cpu.tick_recover]_vars

\* vdev.cc, handleMsg: assert(event_interrupt.scheduled()) when power fails
\* while the device is ready and busy, whichever commands access() has let pass.
AssertTaskScheduled ==
    \A id \in Dev :
        rail = "POWER_OFF" /\ ~Told(id + 1) /\ {"READY", "BUSY"} \subseteq dev[id].pmem
            => scheduled(dev[id].event_interrupt)
=============================================================================
