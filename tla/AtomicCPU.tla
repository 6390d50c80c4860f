----------------------------- MODULE AtomicCPU -----------------------------
(***************************************************************************)
(* The non-volatile CPU as the energy and device models see it             *)
(* (cpu/simple/atomic.cc, cpu/base.cc): its tick event, the backup and     *)
(* restore around a power failure, and the calls devices make to delay it. *)
(*                                                                         *)
(* The state is a record, each method an operator that returns the next    *)
(* one.  Times are relative: an event holds the ticks left until it is     *)
(* due, NotScheduled when it is not in the event queue, and curTick() is   *)
(* always 0.  So e.when() - curTick() is the event's value.                *)
(***************************************************************************)
EXTENDS Integers, FiniteSets

CONSTANTS Dev,            \* ids of the virtual devices
          clockPeriod, cycle_backup, cycle_restore

ASSUME CPUAssumption ==
    /\ clockPeriod \in Nat \ {0}
    /\ cycle_backup \in Nat /\ cycle_restore \in Nat

NotScheduled == -1
EventTime == Nat \cup {NotScheduled}
scheduled(e) == e # NotScheduled

CPUType == [tickEvent : EventTime, tick_recover : Nat, recover_time : Nat,
            status_vdev : [Dev -> {0, 1}]]

\* After construction and activateContext: the first tick is due at once.
CPUInit == [tickEvent |-> 0, tick_recover |-> 0, recover_time |-> 0,
            status_vdev |-> [id \in Dev |-> 0]]

\* tick: an instruction, then the next tick after its latency.
cpuTick(c, latency) == [c EXCEPT !.tickEvent = latency]

RoundUp(delay) ==
    IF delay % clockPeriod # 0
    THEN delay + (clockPeriod - (delay % clockPeriod))
    ELSE delay

\* The next four are called by devices; the first two reschedule tickEvent,
\* which must be scheduled.
virtualDeviceInterrupt(c, delay) ==
    [c EXCEPT !.tickEvent = @ + RoundUp(delay)]


\* It never stores the maximum in recover_time.
virtualDeviceRecover(c, delay) ==
    [c EXCEPT !.tickEvent =
        (@ - c.recover_time) + (IF c.recover_time >= delay THEN c.recover_time ELSE delay)]

virtualDeviceStart(c, id) == [c EXCEPT !.status_vdev[id] = 1]
virtualDeviceEnd(c, id) == [c EXCEPT !.status_vdev[id] = 0]

\* Mutant of Backup: the tick event is left in the queue.
BackupWithoutDeschedule(c) ==
    [c EXCEPT !.tick_recover = cycle_backup * clockPeriod + c.tickEvent, !.recover_time = 0]

\* handleMsg.  The energy it consumes is drawn from the energy manager.
Backup(c) ==
    LET tick_remain == c.tickEvent
    IN  [c EXCEPT !.tick_recover = cycle_backup * clockPeriod + tick_remain
                                   + (clockPeriod - (tick_remain % clockPeriod)),
                  !.recover_time = 0,
                  !.tickEvent = NotScheduled]

Restore(c) ==
    LET tick_recover == cycle_restore * clockPeriod
    IN  [c EXCEPT !.tick_recover = tick_recover, !.tickEvent = tick_recover]

cpuHandleMsg(c, msg) ==
    CASE msg = "POWER_OFF" -> Backup(c)
      [] msg = "POWER_ON" -> Restore(c)
=============================================================================
