--------------------------- MODULE VirtualDevice ---------------------------
(***************************************************************************)
(* A peripheral of the non-volatile processor (vdev/vdev.cc).  Its first   *)
(* byte, pmem, is the set of the status flags that are on.  Each method    *)
(* returns the next state of the device and of the CPU it calls.           *)
(***************************************************************************)
EXTENDS AtomicCPU

CONSTANTS delay_set, delay_self, delay_cpu_interrupt, is_interruptable

ASSUME DevAssumption ==
    /\ delay_set \in [Dev -> Nat] /\ delay_self \in [Dev -> Nat]
    /\ delay_cpu_interrupt \in [Dev -> Nat] /\ is_interruptable \in [Dev -> BOOLEAN]

Flag == {"CHAOS", "READY", "BUSY", "IDLE"}
VdevEngyState == {"STATE_POWER_OFF", "STATE_SLEEP", "STATE_NORMAL", "STATE_ACTIVE"}

DevType == [pmem : SUBSET Flag, vdev_energy_state : VdevEngyState,
            need_recover : BOOLEAN, delay_remained : Nat,
            event_init : EventTime, event_interrupt : EventTime]

DevInit == [pmem |-> {}, vdev_energy_state |-> "STATE_POWER_OFF",
            need_recover |-> FALSE, delay_remained |-> 0,
            event_init |-> NotScheduled, event_interrupt |-> NotScheduled]

Both(d, c) == [dev |-> d, cpu |-> c]

-----------------------------------------------------------------------------
\* access, a write to the command byte.  Reads change nothing.
AccessInit(id, d, c) ==
    IF "BUSY" \in d.pmem
    THEN Both(d, c)
    ELSE Both([d EXCEPT !.vdev_energy_state = "STATE_NORMAL",
                        !.pmem = (@ \cup {"BUSY"}) \ {"IDLE"},
                        !.event_init = delay_set[id]], c)

AccessActivate(id, d, c) ==
    IF "CHAOS" \in d.pmem \/ "BUSY" \in d.pmem
    THEN Both(d, c)
    ELSE Both([d EXCEPT !.vdev_energy_state = "STATE_ACTIVE",
                        !.pmem = (@ \cup {"BUSY"}) \ {"IDLE"},
                        !.event_interrupt = delay_self[id]],
              virtualDeviceStart(c, id))

-----------------------------------------------------------------------------
\* Mutants of Initialized: a restarted task is not charged as active; the task
\* is restarted whether or not one is left.
RestartAsNormal(id, d, c) ==
    LET d1 == [d EXCEPT !.pmem = ((@ \cup {"IDLE", "READY"}) \ {"BUSY", "CHAOS"}),
                        !.vdev_energy_state = "STATE_NORMAL"]
    IN  IF d.delay_remained > 0
        THEN Both([d1 EXCEPT !.event_interrupt = d.delay_remained, !.pmem = @ \cup {"BUSY"}],
                  virtualDeviceStart(virtualDeviceRecover(c, d.delay_remained), id))
        ELSE Both(d1, virtualDeviceEnd(c, id))

RestartAlways(id, d, c) ==
    Both([d EXCEPT !.pmem = (@ \cup {"IDLE", "READY", "BUSY"}) \ {"CHAOS"},
                   !.event_interrupt = d.delay_remained,
                   !.vdev_energy_state = "STATE_ACTIVE"],
         virtualDeviceStart(virtualDeviceRecover(c, d.delay_remained), id))

\* triggerInterrupt, called by event_init and by event_interrupt: d is the
\* device with that event already taken off the queue.
Initialized(id, d, c) ==
    LET d1 == [d EXCEPT !.pmem = ((@ \cup {"IDLE", "READY"}) \ {"BUSY", "CHAOS"}),
                        !.vdev_energy_state = "STATE_NORMAL"]
        c1 == virtualDeviceEnd(virtualDeviceInterrupt(c, 0), id)
    IN  IF d.delay_remained > 0
        THEN Both([d1 EXCEPT !.event_interrupt = d.delay_remained,
                             !.pmem = @ \cup {"BUSY"},
                             !.vdev_energy_state = "STATE_ACTIVE"],
                  virtualDeviceStart(virtualDeviceRecover(c1, d.delay_remained), id))
        ELSE Both(d1, c1)

Completed(id, d, c) ==
    Both([d EXCEPT !.pmem = (@ \cup {"IDLE"}) \ {"BUSY"},
                   !.vdev_energy_state = "STATE_NORMAL",
                   !.delay_remained = 0],
         virtualDeviceEnd(virtualDeviceInterrupt(c, delay_cpu_interrupt[id]), id))

triggerInterrupt(id, d, c) ==
    IF "CHAOS" \in d.pmem THEN Initialized(id, d, c) ELSE Completed(id, d, c)

-----------------------------------------------------------------------------
\* Mutants of Dropped: an initialisation stays in the queue; it is not repeated.
InitLeftScheduled(id, d) ==
    IF {"READY", "BUSY"} \subseteq d.pmem
    THEN [d EXCEPT !.event_interrupt = NotScheduled, !.need_recover = TRUE,
                   !.delay_remained = d.event_interrupt]
    ELSE [d EXCEPT !.delay_remained = 0,
                   !.need_recover = @ \/ {"READY", "BUSY"} \cap d.pmem # {}]

InitNotRepeated(id, d) ==
    IF {"READY", "BUSY"} \subseteq d.pmem
    THEN [d EXCEPT !.event_interrupt = NotScheduled, !.need_recover = TRUE,
                   !.delay_remained = d.event_interrupt]
    ELSE [d EXCEPT !.event_init = NotScheduled, !.delay_remained = 0,
                   !.need_recover = @ \/ "READY" \in d.pmem]

\* handleMsg, power off: an initialised or initialising device will need to
\* recover; a working one remembers how much of its task is left.
Dropped(id, d) ==
    IF "READY" \in d.pmem /\ "BUSY" \notin d.pmem
    THEN [d EXCEPT !.need_recover = TRUE, !.delay_remained = 0]
    ELSE IF "READY" \notin d.pmem /\ "BUSY" \in d.pmem
    THEN [d EXCEPT !.event_init = NotScheduled,
                   !.need_recover = TRUE, !.delay_remained = 0]
    ELSE IF "READY" \in d.pmem /\ "BUSY" \in d.pmem
    THEN [d EXCEPT !.event_interrupt = NotScheduled,
                   !.need_recover = TRUE,
                   !.delay_remained = IF is_interruptable[id] THEN d.event_interrupt
                                      ELSE delay_self[id]]
    ELSE d

DevPowerOff(id, d, c) ==
    Both([Dropped(id, d) EXCEPT !.vdev_energy_state = "STATE_POWER_OFF",
                                !.pmem = {"CHAOS"}], c)

\* Mutant of DevPowerOn: the CPU is not told to wait.
RecoverWithoutWait(id, d, c) ==
    IF d.need_recover
    THEN Both([d EXCEPT !.event_init = delay_set[id],
                        !.vdev_energy_state = "STATE_NORMAL",
                        !.pmem = @ \cup {"BUSY"}], virtualDeviceStart(c, id))
    ELSE Both([d EXCEPT !.pmem = @ \ {"BUSY"}], c)

\* Power on: a device that was initialised before initialises itself again,
\* and the CPU waits for it.
DevPowerOn(id, d, c) ==
    IF d.need_recover
    THEN Both([d EXCEPT !.event_init = delay_set[id],
                        !.vdev_energy_state = "STATE_NORMAL",
                        !.pmem = @ \cup {"BUSY"}],
              virtualDeviceStart(virtualDeviceRecover(c, delay_set[id]), id))
    ELSE Both([d EXCEPT !.pmem = @ \ {"BUSY"}], c)

vdevHandleMsg(id, d, c, msg) ==
    CASE msg = "POWER_OFF" -> DevPowerOff(id, d, c)
      [] msg = "POWER_ON" -> DevPowerOn(id, d, c)
=============================================================================
