------------------------- MODULE PowerCycleProofs -------------------------
(***************************************************************************)
(* For any number of devices and any delays: the CPU and its devices keep  *)
(* their events in step with the power, and the CPU waits long enough for  *)
(* its devices, as long as the program initialises each device once        *)
(* (~ReInit) and restoring takes at least one cycle.                       *)
(***************************************************************************)
EXTENDS TaskHistory, TLAPS

Power == {"POWER_OFF", "POWER_ON", NoMsg}
SwState == {"fresh", "init", "ready", "exec"}

\* The rail is announced off first, and tells its slaves in order.
RailInv ==
    /\ rail = NoMsg => \A i \in 1 .. N : heard[i] = NoMsg
    /\ rail = "POWER_ON" => \A i \in 1 .. N : heard[i] # NoMsg
    /\ \A i, j \in 1 .. N : i < j /\ Told(j) => Told(i)

\* Device d, which last heard h, with the program at s and the CPU's tick at t.
DevOK(d, h, s, t) ==
    /\ scheduled(d.event_init) <=> "BUSY" \in d.pmem /\ "READY" \notin d.pmem
    /\ scheduled(d.event_interrupt) <=> "BUSY" \in d.pmem /\ "READY" \in d.pmem
    /\ d.vdev_energy_state = "STATE_ACTIVE" <=> scheduled(d.event_interrupt)
    /\ h = NoMsg => d.pmem = {} /\ s = "fresh"
    /\ h # NoMsg => ("CHAOS" \in d.pmem <=> "READY" \notin d.pmem)
    /\ h = "POWER_OFF" => d.pmem = {"CHAOS"} /\ d.vdev_energy_state = "STATE_POWER_OFF"
    /\ "IDLE" \in d.pmem => "READY" \in d.pmem
    /\ "READY" \in d.pmem /\ "BUSY" \notin d.pmem => d.delay_remained = 0
    /\ s = "fresh" => d.pmem \subseteq {"CHAOS"} /\ ~d.need_recover /\ d.delay_remained = 0
    /\ s \in {"init", "ready"} => ~scheduled(d.event_interrupt) /\ d.delay_remained = 0
    /\ s # "fresh" => d.need_recover \/ "READY" \in d.pmem \/ "BUSY" \in d.pmem
    /\ s # "fresh" /\ h = "POWER_ON" => "READY" \in d.pmem \/ "BUSY" \in d.pmem
    /\ scheduled(t) =>
          /\ s \in {"ready", "exec"} /\ scheduled(d.event_init) => t > d.event_init
          /\ {"IDLE", "BUSY"} \subseteq d.pmem => t > d.event_interrupt

\* The invariant: before each broadcast ends, no tick of the CPU is due.
IInv ==
    /\ TypeOK /\ RailInv /\ TickIffPowered
    /\ cpu.recover_time = 0
    /\ Telling => cpu.tickEvent # 0
    /\ \A id \in Dev : DevOK(dev[id], heard[id + 1], sw[id], cpu.tickEvent)

\* The conditions under which the results below hold: the program calls
\* periInit once per device, and restoring takes time.
Once == ~ReInit /\ cycle_restore > 0

\* Device d works on a task or has one to restart.
Working(d) == scheduled(d.event_interrupt) \/ d.delay_remained > 0

\* What is owed covers what is under way and what is to be restarted.
OwedInv == \A id \in Dev : Working(dev[id]) => owed[id]

-----------------------------------------------------------------------------
\* Rounding up to the clock makes a delay no shorter.
LEMMA RoundUpNat ==
    ASSUME NEW delay \in Nat
    PROVE  RoundUp(delay) \in Nat
<1>1. delay % clockPeriod \in 0 .. clockPeriod - 1
  BY CPUAssumption
<1>2. QED
  BY <1>1, CPUAssumption DEF RoundUp

\* What the calls of a device leave of the CPU, whose tick is scheduled.
LEMMA CPUCalls ==
    ASSUME NEW c \in CPUType, c.recover_time = 0, c.tickEvent \in Nat,
           NEW delay \in Nat, NEW id \in Dev
    PROVE  /\ LET v == virtualDeviceInterrupt(c, delay)
              IN  /\ v \in CPUType /\ v.recover_time = 0
                  /\ v.tickEvent \in Nat /\ v.tickEvent >= c.tickEvent
           /\ LET v == virtualDeviceRecover(c, delay)
              IN  /\ v \in CPUType /\ v.recover_time = 0
                  /\ v.tickEvent = c.tickEvent + delay
           /\ LET v == virtualDeviceStart(c, id)
              IN  v \in CPUType /\ v.recover_time = 0 /\ v.tickEvent = c.tickEvent
           /\ LET v == virtualDeviceEnd(c, id)
              IN  v \in CPUType /\ v.recover_time = 0 /\ v.tickEvent = c.tickEvent
<1>1. RoundUp(delay) \in Nat
  BY RoundUpNat
<1>2. /\ c = [tickEvent |-> c.tickEvent, tick_recover |-> c.tick_recover,
              recover_time |-> c.recover_time, status_vdev |-> c.status_vdev]
      /\ c.status_vdev \in [Dev -> {0, 1}] /\ c.tick_recover \in Nat
  BY DEF CPUType
<1>3. virtualDeviceInterrupt(c, delay) =
         [tickEvent |-> c.tickEvent + RoundUp(delay), tick_recover |-> c.tick_recover,
          recover_time |-> c.recover_time, status_vdev |-> c.status_vdev]
  BY <1>2 DEF virtualDeviceInterrupt
<1>4. virtualDeviceRecover(c, delay) =
         [tickEvent |-> c.tickEvent + delay, tick_recover |-> c.tick_recover,
          recover_time |-> c.recover_time, status_vdev |-> c.status_vdev]
  <2>1. (c.tickEvent - c.recover_time)
            + (IF c.recover_time >= delay THEN c.recover_time ELSE delay) = c.tickEvent + delay
    OBVIOUS
  <2>2. QED
    BY <1>2, <2>1 DEF virtualDeviceRecover
<1>5. \A b \in {0, 1} : [c EXCEPT !.status_vdev[id] = b] =
         [tickEvent |-> c.tickEvent, tick_recover |-> c.tick_recover,
          recover_time |-> c.recover_time, status_vdev |-> [c.status_vdev EXCEPT ![id] = b]]
  BY <1>2
<1>6. \A b \in {0, 1} : [c.status_vdev EXCEPT ![id] = b] \in [Dev -> {0, 1}]
  BY <1>2
<1>7. QED
  BY <1>1, <1>2, <1>3, <1>4, <1>5, <1>6
     DEF CPUType, EventTime, virtualDeviceStart, virtualDeviceEnd

\* A device does not mind a later tick of the CPU.
LEMMA LaterTick ==
    ASSUME NEW d \in DevType, NEW h, NEW s, NEW t \in Nat, NEW u \in Nat, u >= t,
           DevOK(d, h, s, t)
    PROVE  DevOK(d, h, s, u)
<1>1. d.event_init \in Int /\ d.event_interrupt \in Int
  BY DEF DevType, EventTime, NotScheduled
<1>2. QED
  BY <1>1 DEF DevOK, scheduled, NotScheduled

\* A device does not mind a CPU without a tick.
LEMMA NoTick ==
    ASSUME NEW d \in DevType, NEW h, NEW s, NEW t, DevOK(d, h, s, t)
    PROVE  DevOK(d, h, s, NotScheduled)
BY DEF DevOK, scheduled

-----------------------------------------------------------------------------
\* The program writes INIT to a fresh device.
LEMMA InitAccepted ==
    ASSUME NEW id \in Dev, NEW d \in DevType, NEW c, NEW t,
           DevOK(d, "POWER_ON", "fresh", 0)
    PROVE  LET r == AccessInit(id, d, c)
           IN  /\ r.cpu = c /\ r.dev \in DevType
               /\ DevOK(r.dev, "POWER_ON", "init", t)
<1> DEFINE e == [d EXCEPT !.vdev_energy_state = "STATE_NORMAL",
                          !.pmem = (@ \cup {"BUSY"}) \ {"IDLE"},
                          !.event_init = delay_set[id]]
<1>1. "BUSY" \notin d.pmem /\ "READY" \notin d.pmem /\ "IDLE" \notin d.pmem
  BY DEF DevOK
<1>2. AccessInit(id, d, c) = Both(e, c)
  BY <1>1 DEF AccessInit
<1>3. /\ e \in DevType
      /\ e.pmem = (d.pmem \cup {"BUSY"}) \ {"IDLE"}
      /\ e.event_init = delay_set[id] /\ e.vdev_energy_state = "STATE_NORMAL"
      /\ e.event_interrupt = d.event_interrupt
      /\ e.need_recover = d.need_recover /\ e.delay_remained = d.delay_remained
  BY DevAssumption, ZenonT(30) DEF DevType, EventTime, Flag, VdevEngyState
<1>4. delay_set[id] \in Nat
  BY DevAssumption
<1> HIDE DEF e
<1>5. DevOK(e, "POWER_ON", "init", t)
  BY <1>1, <1>3, <1>4, NodeAssumption DEF DevOK, scheduled, NotScheduled
<1>6. QED
  BY <1>2, <1>3, <1>5 DEF Both

\* The program writes ACTIVATE to a ready device, which is not busy.
LEMMA ActivateAccepted ==
    ASSUME NEW id \in Dev, NEW d \in DevType, NEW c \in CPUType, NEW t \in Nat,
           c.tickEvent = 0, c.recover_time = 0,
           DevOK(d, "POWER_ON", "ready", 0)
    PROVE  LET r == AccessActivate(id, d, c)
           IN  /\ r.cpu \in CPUType /\ r.cpu.recover_time = 0 /\ r.dev \in DevType
               /\ DevOK(r.dev, "POWER_ON", "exec", t)
               /\ r.dev # d
<1> DEFINE e == [d EXCEPT !.vdev_energy_state = "STATE_ACTIVE",
                          !.pmem = (@ \cup {"BUSY"}) \ {"IDLE"},
                          !.event_interrupt = delay_self[id]]
<1>1. d.event_init \in Int /\ d.event_interrupt \in Int
      /\ (d.event_init >= 0 \/ d.event_init = NotScheduled)
  BY DEF DevType, EventTime, NotScheduled
<1>2. ~scheduled(d.event_init) /\ ~scheduled(d.event_interrupt)
  BY <1>1 DEF DevOK, scheduled, NotScheduled
<1>3. "BUSY" \notin d.pmem /\ "READY" \in d.pmem /\ "CHAOS" \notin d.pmem
  BY <1>2, NodeAssumption DEF DevOK
<1>4. AccessActivate(id, d, c) = Both(e, virtualDeviceStart(c, id))
  BY <1>3 DEF AccessActivate
<1>5. /\ e \in DevType
      /\ e.pmem = (d.pmem \cup {"BUSY"}) \ {"IDLE"}
      /\ e.event_init = d.event_init /\ e.vdev_energy_state = "STATE_ACTIVE"
      /\ e.event_interrupt = delay_self[id]
      /\ e.need_recover = d.need_recover /\ e.delay_remained = d.delay_remained
  BY DevAssumption, ZenonT(30) DEF DevType, EventTime, Flag, VdevEngyState
<1>6. delay_self[id] \in Nat
  BY DevAssumption
<1> HIDE DEF e
<1>7. DevOK(e, "POWER_ON", "exec", t)
  BY <1>2, <1>3, <1>5, <1>6, NodeAssumption DEF DevOK, scheduled, NotScheduled
<1>8. e # d
  BY <1>3, <1>5
<1>9. virtualDeviceStart(c, id) \in CPUType /\ virtualDeviceStart(c, id).recover_time = 0
  BY CPUCalls
<1>10. QED
  BY <1>4, <1>5, <1>7, <1>8, <1>9 DEF Both

\* What a poll tells the program is true.
LEMMA PollTrue ==
    ASSUME NEW d \in DevType, NEW s \in {"init", "exec"}, NEW t \in Nat,
           DevOK(d, "POWER_ON", s, 0)
    PROVE  DevOK(d, "POWER_ON",
                 IF (IF s = "init" THEN "READY" ELSE "IDLE") \in d.pmem THEN "ready" ELSE s, t)
<1>1. d.event_init \in Int /\ d.event_interrupt \in Int
      /\ (d.event_init >= 0 \/ d.event_init = NotScheduled)
      /\ (d.event_interrupt >= 0 \/ d.event_interrupt = NotScheduled)
  BY DEF DevType, EventTime, NotScheduled
<1>2. ~({"IDLE", "BUSY"} \subseteq d.pmem)
  BY <1>1 DEF DevOK, scheduled, NotScheduled
<1>3. s = "exec" => ~scheduled(d.event_init)
  BY <1>1 DEF DevOK, scheduled, NotScheduled
<1>4. QED
  BY <1>1, <1>2, <1>3 DEF DevOK, scheduled, NotScheduled

\* The end of an initialisation.
LEMMA InitEnds ==
    ASSUME NEW id \in Dev, NEW d \in DevType, NEW c \in CPUType, NEW s \in SwState,
           c.tickEvent \in Nat \ {0}, c.recover_time = 0,
           d.event_init = 0, DevOK(d, "POWER_ON", s, c.tickEvent)
    PROVE  LET r == triggerInterrupt(id, [d EXCEPT !.event_init = NotScheduled], c)
           IN  /\ r.cpu \in CPUType /\ r.cpu.recover_time = 0
               /\ r.cpu.tickEvent \in Nat /\ r.cpu.tickEvent >= c.tickEvent
               /\ r.dev \in DevType /\ DevOK(r.dev, "POWER_ON", s, r.cpu.tickEvent)
               /\ r.dev.delay_remained = d.delay_remained
               /\ scheduled(r.dev.event_interrupt) => d.delay_remained > 0
<1> DEFINE d0 == [d EXCEPT !.event_init = NotScheduled]
           d1 == [d0 EXCEPT !.pmem = ((@ \cup {"IDLE", "READY"}) \ {"BUSY", "CHAOS"}),
                            !.vdev_energy_state = "STATE_NORMAL"]
           d2 == [d1 EXCEPT !.event_interrupt = d0.delay_remained,
                            !.pmem = @ \cup {"BUSY"},
                            !.vdev_energy_state = "STATE_ACTIVE"]
           c1 == virtualDeviceEnd(virtualDeviceInterrupt(c, 0), id)
           c2 == virtualDeviceStart(virtualDeviceRecover(c1, d0.delay_remained), id)
<1>1. "BUSY" \in d.pmem /\ "READY" \notin d.pmem /\ "CHAOS" \in d.pmem
      /\ ~scheduled(d.event_interrupt) /\ d.delay_remained \in Nat
      /\ d.event_interrupt = NotScheduled
  BY NodeAssumption DEF DevOK, scheduled, NotScheduled, DevType
<1>2. /\ d0 \in DevType /\ d0.pmem = d.pmem /\ d0.delay_remained = d.delay_remained
      /\ d0.event_init = NotScheduled /\ d0.event_interrupt = NotScheduled
      /\ d0.need_recover = d.need_recover
  BY <1>1 DEF DevType, EventTime
<1>3. triggerInterrupt(id, d0, c) = IF d0.delay_remained > 0 THEN Both(d2, c2) ELSE Both(d1, c1)
  BY <1>1, <1>2 DEF triggerInterrupt, Initialized
<1> HIDE DEF d0
<1>4. /\ d1 \in DevType /\ d1.pmem = (d.pmem \cup {"IDLE", "READY"}) \ {"BUSY", "CHAOS"}
      /\ d1.vdev_energy_state = "STATE_NORMAL" /\ d1.delay_remained = d.delay_remained
      /\ d1.event_init = NotScheduled /\ d1.event_interrupt = NotScheduled
      /\ d1.need_recover = d.need_recover
  BY <1>2, ZenonT(30) DEF DevType, Flag, VdevEngyState
<1> HIDE DEF d1
<1>5. /\ d2 \in DevType /\ d2.pmem = d1.pmem \cup {"BUSY"}
      /\ d2.vdev_energy_state = "STATE_ACTIVE" /\ d2.delay_remained = d.delay_remained
      /\ d2.event_init = NotScheduled /\ d2.event_interrupt = d.delay_remained
      /\ d2.need_recover = d.need_recover
  BY <1>1, <1>2, <1>4, ZenonT(30) DEF DevType, Flag, VdevEngyState, EventTime
<1>6. /\ c1 \in CPUType /\ c1.recover_time = 0
      /\ c1.tickEvent \in Nat /\ c1.tickEvent >= c.tickEvent
  <2> DEFINE v == virtualDeviceInterrupt(c, 0)
  <2>1. /\ v \in CPUType /\ v.recover_time = 0
        /\ v.tickEvent \in Nat /\ v.tickEvent >= c.tickEvent
    BY CPUCalls
  <2> HIDE DEF v
  <2>2. LET w == virtualDeviceEnd(v, id)
        IN  w \in CPUType /\ w.recover_time = 0 /\ w.tickEvent = v.tickEvent
    BY <2>1, CPUCalls
  <2>3. QED
    BY <2>1, <2>2 DEF v
<1> HIDE DEF c1
<1>7. /\ c2 \in CPUType /\ c2.recover_time = 0
      /\ c2.tickEvent = c1.tickEvent + d.delay_remained
  <2> DEFINE v == virtualDeviceRecover(c1, d.delay_remained)
  <2>1. /\ v \in CPUType /\ v.recover_time = 0
        /\ v.tickEvent = c1.tickEvent + d.delay_remained
    BY <1>1, <1>6, CPUCalls, ZenonT(30)
  <2> HIDE DEF v
  <2>2. v.tickEvent \in Nat
    BY <1>1, <1>6, <2>1
  <2>3. LET w == virtualDeviceStart(v, id)
        IN  w \in CPUType /\ w.recover_time = 0 /\ w.tickEvent = v.tickEvent
    BY <2>1, <2>2, CPUCalls, SMTT(30)
  <2>4. QED
    BY <1>2, <2>1, <2>3 DEF v
<1> HIDE DEF c2, d2
<1>8. CASE d.delay_remained > 0
  <2>1. DevOK(d2, "POWER_ON", s, c2.tickEvent)
    BY <1>1, <1>4, <1>5, <1>6, <1>7, <1>8, NodeAssumption DEF DevOK, scheduled, NotScheduled, SwState
  <2>2. triggerInterrupt(id, d0, c).dev = d2 /\ triggerInterrupt(id, d0, c).cpu = c2
    BY <1>2, <1>3, <1>8 DEF Both
  <2>3. QED
    BY <1>1, <1>5, <1>6, <1>7, <1>8, <2>1, <2>2 DEF d0
<1>9. CASE ~(d.delay_remained > 0)
  <2>1. DevOK(d1, "POWER_ON", s, c1.tickEvent)
    BY <1>1, <1>4, <1>6, <1>9, NodeAssumption DEF DevOK, scheduled, NotScheduled, SwState
  <2>2. triggerInterrupt(id, d0, c).dev = d1 /\ triggerInterrupt(id, d0, c).cpu = c1
    BY <1>2, <1>3, <1>9 DEF Both
  <2>3. QED
    BY <1>4, <1>6, <2>1, <2>2 DEF d0, scheduled
<1>10. QED
  BY <1>8, <1>9

\* The end of a task.
LEMMA TaskEnds ==
    ASSUME NEW id \in Dev, NEW d \in DevType, NEW c \in CPUType, NEW s \in SwState,
           c.tickEvent \in Nat \ {0}, c.recover_time = 0,
           d.event_interrupt = 0, DevOK(d, "POWER_ON", s, c.tickEvent)
    PROVE  LET r == triggerInterrupt(id, [d EXCEPT !.event_interrupt = NotScheduled], c)
           IN  /\ r.cpu \in CPUType /\ r.cpu.recover_time = 0
               /\ r.cpu.tickEvent \in Nat /\ r.cpu.tickEvent >= c.tickEvent
               /\ r.dev \in DevType /\ DevOK(r.dev, "POWER_ON", s, r.cpu.tickEvent)
               /\ r.dev.delay_remained = 0 /\ ~scheduled(r.dev.event_interrupt)
<1> DEFINE d0 == [d EXCEPT !.event_interrupt = NotScheduled]
           d1 == [d0 EXCEPT !.pmem = (@ \cup {"IDLE"}) \ {"BUSY"},
                            !.vdev_energy_state = "STATE_NORMAL",
                            !.delay_remained = 0]
           c1 == virtualDeviceEnd(virtualDeviceInterrupt(c, delay_cpu_interrupt[id]), id)
<1>1. /\ "BUSY" \in d.pmem /\ "READY" \in d.pmem /\ "CHAOS" \notin d.pmem
      /\ d.event_init = NotScheduled
  BY NodeAssumption DEF DevOK, scheduled, NotScheduled
<1>2. /\ d0 \in DevType /\ d0.pmem = d.pmem
      /\ d0.event_init = NotScheduled /\ d0.event_interrupt = NotScheduled
      /\ d0.need_recover = d.need_recover
  BY <1>1 DEF DevType, EventTime
<1>3. triggerInterrupt(id, d0, c) = Both(d1, c1)
  BY <1>1, <1>2 DEF triggerInterrupt, Completed
<1> HIDE DEF d0
<1>4. /\ d1 \in DevType /\ d1.pmem = (d.pmem \cup {"IDLE"}) \ {"BUSY"}
      /\ d1.vdev_energy_state = "STATE_NORMAL" /\ d1.delay_remained = 0
      /\ d1.event_init = NotScheduled /\ d1.event_interrupt = NotScheduled
      /\ d1.need_recover = d.need_recover
  BY <1>2, ZenonT(30) DEF DevType, Flag, VdevEngyState
<1> HIDE DEF d1
<1>5. /\ c1 \in CPUType /\ c1.recover_time = 0
      /\ c1.tickEvent \in Nat /\ c1.tickEvent >= c.tickEvent
  <2>1. delay_cpu_interrupt[id] \in Nat
    BY DevAssumption
  <2> DEFINE v == virtualDeviceInterrupt(c, delay_cpu_interrupt[id])
  <2>2. /\ v \in CPUType /\ v.recover_time = 0
        /\ v.tickEvent \in Nat /\ v.tickEvent >= c.tickEvent
    BY <2>1, CPUCalls, ZenonT(30)
  <2> HIDE DEF v
  <2>3. LET w == virtualDeviceEnd(v, id)
        IN  w \in CPUType /\ w.recover_time = 0 /\ w.tickEvent = v.tickEvent
    BY <2>2, CPUCalls
  <2>4. QED
    BY <2>2, <2>3 DEF v
<1> HIDE DEF c1
<1>6. DevOK(d1, "POWER_ON", s, c1.tickEvent)
  BY <1>1, <1>4, <1>5, NodeAssumption DEF DevOK, scheduled, NotScheduled, SwState
<1>7. triggerInterrupt(id, d0, c).dev = d1 /\ triggerInterrupt(id, d0, c).cpu = c1
  BY <1>3 DEF Both
<1>8. QED
  BY <1>4, <1>5, <1>6, <1>7 DEF d0, scheduled

\* Power fails under a device in any state.
LEMMA DevFails ==
    ASSUME NEW id \in Dev, NEW d \in DevType, NEW c, NEW h, NEW s \in SwState,
           NEW t, NEW u, DevOK(d, h, s, t)
    PROVE  LET r == DevPowerOff(id, d, c)
           IN  /\ r.cpu = c /\ r.dev \in DevType
               /\ DevOK(r.dev, "POWER_OFF", s, u)
               /\ ~scheduled(r.dev.event_interrupt)
               /\ r.dev.delay_remained > 0 =>
                     scheduled(d.event_interrupt) \/ d.delay_remained > 0
<1> DEFINE e == Dropped(id, d)
           f == [e EXCEPT !.vdev_energy_state = "STATE_POWER_OFF", !.pmem = {"CHAOS"}]
<1>1. /\ d.event_init \in EventTime /\ d.event_interrupt \in EventTime
      /\ d.need_recover \in BOOLEAN /\ d.delay_remained \in Nat
      /\ delay_self[id] \in Nat /\ is_interruptable[id] \in BOOLEAN
  BY DevAssumption DEF DevType
<1>2. /\ e \in DevType /\ e.event_init = NotScheduled /\ e.event_interrupt = NotScheduled
      /\ s = "fresh" => ~e.need_recover /\ e.delay_remained = 0
      /\ s \in {"init", "ready"} => e.delay_remained = 0
      /\ s # "fresh" => e.need_recover
      /\ e.delay_remained > 0 => scheduled(d.event_interrupt) \/ d.delay_remained > 0
  <2>1. CASE "READY" \in d.pmem /\ "BUSY" \notin d.pmem
    <3>1. e = [d EXCEPT !.need_recover = TRUE, !.delay_remained = 0]
      BY <2>1 DEF Dropped
    <3> HIDE DEF e
    <3>2. /\ e \in DevType /\ e.need_recover = TRUE /\ e.delay_remained = 0
          /\ e.event_init = d.event_init /\ e.event_interrupt = d.event_interrupt
      BY <3>1, ZenonT(30) DEF DevType
    <3>3. QED
      BY <2>1, <3>2 DEF DevOK, scheduled
  <2>2. CASE "READY" \notin d.pmem /\ "BUSY" \in d.pmem
    <3>1. e = [d EXCEPT !.event_init = NotScheduled,
                        !.need_recover = TRUE, !.delay_remained = 0]
      BY <2>2 DEF Dropped
    <3> HIDE DEF e
    <3>2. /\ e \in DevType /\ e.need_recover = TRUE /\ e.delay_remained = 0
          /\ e.event_init = NotScheduled /\ e.event_interrupt = d.event_interrupt
      BY <3>1, ZenonT(30) DEF DevType, EventTime
    <3>3. QED
      BY <2>2, <3>2 DEF DevOK, scheduled
  <2>3. CASE "READY" \in d.pmem /\ "BUSY" \in d.pmem
    <3>0. scheduled(d.event_interrupt)
      BY <2>3 DEF DevOK
    <3>1. d.event_interrupt \in Nat
      BY <1>1, <3>0 DEF scheduled, EventTime
    <3>2. e = [d EXCEPT !.event_interrupt = NotScheduled,
                        !.need_recover = TRUE,
                        !.delay_remained = IF is_interruptable[id] THEN d.event_interrupt
                                           ELSE delay_self[id]]
      BY <2>3 DEF Dropped
    <3> HIDE DEF e
    <3>3. /\ e \in DevType /\ e.need_recover = TRUE
          /\ e.event_init = d.event_init /\ e.event_interrupt = NotScheduled
      BY <1>1, <3>1, <3>2, ZenonT(30) DEF DevType, EventTime
    <3>4. QED
      BY <2>3, <3>0, <3>3 DEF DevOK, scheduled
  <2>4. CASE "READY" \notin d.pmem /\ "BUSY" \notin d.pmem
    <3>1. e = d
      BY <2>4 DEF Dropped
    <3> HIDE DEF e
    <3>2. QED
      BY <2>4, <3>1 DEF DevOK, scheduled
  <2>5. QED
    BY <2>1, <2>2, <2>3, <2>4
<1>3. DevPowerOff(id, d, c) = Both(f, c)
  BY DEF DevPowerOff
<1> HIDE DEF e
<1>4. /\ f \in DevType /\ f.pmem = {"CHAOS"} /\ f.vdev_energy_state = "STATE_POWER_OFF"
      /\ f.event_init = NotScheduled /\ f.event_interrupt = NotScheduled
      /\ f.need_recover = e.need_recover /\ f.delay_remained = e.delay_remained
  BY <1>2, ZenonT(30) DEF DevType, Flag, VdevEngyState
<1> HIDE DEF f
<1>5. DevOK(f, "POWER_OFF", s, u)
  BY <1>2, <1>4, NodeAssumption DEF DevOK, scheduled
<1>6. QED
  BY <1>2, <1>3, <1>4, <1>5 DEF Both, scheduled

\* Power returns to a device that had lost it.
LEMMA DevRecovers ==
    ASSUME NEW id \in Dev, NEW d \in DevType, NEW c \in CPUType, NEW s \in SwState,
           c.tickEvent \in Nat \ {0}, c.recover_time = 0,
           DevOK(d, "POWER_OFF", s, c.tickEvent)
    PROVE  LET r == DevPowerOn(id, d, c)
           IN  /\ r.cpu \in CPUType /\ r.cpu.recover_time = 0
               /\ r.cpu.tickEvent \in Nat /\ r.cpu.tickEvent >= c.tickEvent
               /\ r.dev \in DevType /\ DevOK(r.dev, "POWER_ON", s, r.cpu.tickEvent)
               /\ r.dev.delay_remained = d.delay_remained
               /\ ~scheduled(r.dev.event_interrupt)
<1> DEFINE e == [d EXCEPT !.event_init = delay_set[id],
                          !.vdev_energy_state = "STATE_NORMAL",
                          !.pmem = @ \cup {"BUSY"}]
           f == [d EXCEPT !.pmem = @ \ {"BUSY"}]
           v == virtualDeviceRecover(c, delay_set[id])
<1>1. /\ delay_set[id] \in Nat /\ d.pmem = {"CHAOS"}
      /\ d.event_init = NotScheduled /\ d.event_interrupt = NotScheduled
      /\ d.vdev_energy_state = "STATE_POWER_OFF"
  BY DevAssumption DEF DevOK, scheduled
<1>2. /\ v \in CPUType /\ v.recover_time = 0 /\ v.tickEvent = c.tickEvent + delay_set[id]
  BY <1>1, CPUCalls, ZenonT(30)
<1>3. DevPowerOn(id, d, c) =
         IF d.need_recover THEN Both(e, virtualDeviceStart(v, id)) ELSE Both(f, c)
  BY DEF DevPowerOn
<1> HIDE DEF v
<1>4. v.tickEvent \in Nat
  BY <1>1, <1>2
<1>5. LET w == virtualDeviceStart(v, id)
      IN  w \in CPUType /\ w.recover_time = 0 /\ w.tickEvent = v.tickEvent
  BY <1>1, <1>2, <1>4, CPUCalls
<1>6. /\ e \in DevType /\ e.pmem = {"CHAOS", "BUSY"} /\ e.vdev_energy_state = "STATE_NORMAL"
      /\ e.event_init = delay_set[id] /\ e.event_interrupt = NotScheduled
      /\ e.need_recover = d.need_recover /\ e.delay_remained = d.delay_remained
  BY <1>1, ZenonT(30) DEF DevType, Flag, VdevEngyState, EventTime
<1>7. f \in DevType /\ f = d
  BY <1>1 DEF DevType, Flag
<1> HIDE DEF e, f
<1>8. CASE d.need_recover
  <2>1. DevOK(e, "POWER_ON", s, v.tickEvent)
    <3>1. s # "fresh"
      BY <1>8 DEF DevOK
    <3>2. QED
      BY <1>1, <1>2, <1>6, <1>8, <3>1, NodeAssumption DEF DevOK, scheduled, NotScheduled
  <2>2. DevPowerOn(id, d, c).dev = e /\ DevPowerOn(id, d, c).cpu = virtualDeviceStart(v, id)
    BY <1>3, <1>8 DEF Both
  <2>3. QED
    BY <1>1, <1>2, <1>5, <1>6, <2>1, <2>2 DEF scheduled
<1>9. CASE ~d.need_recover
  <2>1. DevOK(f, "POWER_ON", s, c.tickEvent)
    BY <1>1, <1>7, <1>9, NodeAssumption DEF DevOK, scheduled
  <2>2. DevPowerOn(id, d, c).dev = f /\ DevPowerOn(id, d, c).cpu = c
    BY <1>3, <1>9 DEF Both
  <2>3. QED
    BY <1>1, <1>7, <2>1, <2>2 DEF scheduled
<1>10. QED
  BY <1>8, <1>9

\* An event that is not due comes one tick nearer.
LEMMA SoonerOK ==
    \A x \in EventTime \ {0} :
        /\ Sooner(x) \in EventTime /\ (scheduled(Sooner(x)) <=> scheduled(x))
        /\ scheduled(x) => Sooner(x) = x - 1 /\ x \in Nat
BY DEF Sooner, EventTime, scheduled, NotScheduled

\* Time passes for the CPU and the device alike.
LEMMA TimePasses ==
    ASSUME NEW d \in DevType, NEW h, NEW s, NEW t \in EventTime, t # 0,
           d.event_init # 0, d.event_interrupt # 0, DevOK(d, h, s, t)
    PROVE  LET e == [d EXCEPT !.event_init = Sooner(@), !.event_interrupt = Sooner(@)]
           IN  /\ e \in DevType /\ DevOK(e, h, s, Sooner(t))
               /\ e.delay_remained = d.delay_remained
               /\ scheduled(e.event_interrupt) <=> scheduled(d.event_interrupt)
<1> DEFINE e == [d EXCEPT !.event_init = Sooner(@), !.event_interrupt = Sooner(@)]
<1>1. d.event_init \in EventTime /\ d.event_interrupt \in EventTime
  BY DEF DevType
<1>2. \A x \in EventTime \ {0} :
         /\ Sooner(x) \in EventTime /\ (scheduled(Sooner(x)) <=> scheduled(x))
         /\ scheduled(x) => Sooner(x) = x - 1 /\ x \in Nat
  BY SoonerOK
<1>3. /\ Sooner(d.event_init) \in EventTime /\ Sooner(d.event_interrupt) \in EventTime
  BY <1>1, <1>2
<1>4. /\ e \in DevType /\ e.pmem = d.pmem /\ e.vdev_energy_state = d.vdev_energy_state
      /\ e.event_init = Sooner(d.event_init) /\ e.event_interrupt = Sooner(d.event_interrupt)
      /\ e.need_recover = d.need_recover /\ e.delay_remained = d.delay_remained
  BY <1>3, ZenonT(30) DEF DevType
<1> HIDE DEF e
<1>5. /\ scheduled(e.event_init) <=> scheduled(d.event_init)
      /\ scheduled(e.event_interrupt) <=> scheduled(d.event_interrupt)
      /\ scheduled(Sooner(t)) <=> scheduled(t)
      /\ scheduled(t) /\ scheduled(d.event_init) /\ t > d.event_init
            => Sooner(t) > e.event_init
      /\ scheduled(t) /\ scheduled(d.event_interrupt) /\ t > d.event_interrupt
            => Sooner(t) > e.event_interrupt
  BY <1>1, <1>2, <1>4
<1>6. {"IDLE", "BUSY"} \subseteq d.pmem => scheduled(d.event_interrupt)
  BY DEF DevOK
<1>7. DevOK(e, h, s, Sooner(t))
  BY <1>4, <1>5, <1>6 DEF DevOK
<1>8. QED
  BY <1>4, <1>5, <1>7 DEF e

-----------------------------------------------------------------------------
\* The rail's steps keep its invariant.
LEMMA RailStep ==
    ASSUME TypeOK, RailInv, Switch \/ \E i \in 1 .. N : Tell(i)
    PROVE  /\ RailInv'
           /\ rail' \in {"POWER_OFF", "POWER_ON"}
           /\ heard' \in [1 .. N -> Power]
<1>0. N \in Nat \ {0} /\ NoMsg # "POWER_OFF" /\ NoMsg # "POWER_ON"
  BY NodeAssumption
<1>1. CASE Switch
  BY <1>0, <1>1 DEF Switch, RailInv, Told, TypeOK, Power
<1>2. CASE \E i \in 1 .. N : Tell(i)
  <2>1. PICK i \in 1 .. N : Tell(i)
    BY <1>2
  <2>2. /\ heard[i] # rail /\ (\A j \in 1 .. i - 1 : heard[j] = rail)
        /\ heard' = [heard EXCEPT ![i] = rail] /\ rail' = rail
        /\ rail \in Power /\ heard \in [1 .. N -> Power]
    BY <2>1 DEF Tell, Told, TypeOK, Power
  <2>3. rail # NoMsg
    BY <2>2 DEF RailInv
  <2>4. \A j, k \in 1 .. N : j < k /\ heard'[k] = rail' => heard'[j] = rail'
    <3>1. SUFFICES ASSUME NEW j \in 1 .. N, NEW k \in 1 .. N, j < k, heard'[k] = rail'
                   PROVE  heard'[j] = rail'
      OBVIOUS
    <3>2. CASE k = i
      <4>1. j \in 1 .. i - 1
        BY <1>0, <3>1, <3>2
      <4>2. QED
        BY <2>2, <4>1
    <3>3. CASE k # i
      BY <2>2, <3>1, <3>3 DEF RailInv, Told
    <3>4. QED
      BY <3>2, <3>3
  <2>5. QED
    BY <1>0, <2>2, <2>3, <2>4 DEF RailInv, Told, Power
<1>3. QED
  BY <1>1, <1>2

\* When the CPU runs, power is on for everybody.
LEMMA AllPowered ==
    ASSUME IInv, ~Telling, rail # NoMsg, scheduled(cpu.tickEvent)
    PROVE  rail = "POWER_ON" /\ \A i \in 1 .. N : heard[i] = "POWER_ON"
<1>1. \A i \in 1 .. N : heard[i] = rail
  BY DEF Telling, Told
<1>2. 1 \in 1 .. N
  BY NodeAssumption
<1>3. QED
  BY <1>1, <1>2 DEF IInv, TickIffPowered, TypeOK

\* A program that is past periInit has met a powered device.
LEMMA NotFresh ==
    ASSUME IInv, ~Telling, NEW id \in Dev, sw[id] # "fresh"
    PROVE  rail # NoMsg
<1>1. id + 1 \in 1 .. N
  BY NodeAssumption
<1>2. heard[id + 1] = rail
  BY <1>1 DEF Telling, Told
<1>3. QED
  BY <1>2 DEF IInv, DevOK

\* A step that changes one device, and the CPU's tick to a later time if at all.
LEMMA OneDevice ==
    ASSUME IInv, NEW id \in Dev, NEW e \in DevType, NEW s \in SwState, NEW h \in Power,
           cpu' \in CPUType, cpu'.recover_time = 0,
           \/ cpu'.tickEvent = cpu.tickEvent
           \/ /\ cpu.tickEvent \in Nat /\ cpu'.tickEvent \in Nat
              /\ cpu'.tickEvent >= cpu.tickEvent,
           dev' = [dev EXCEPT ![id] = e], sw' = [sw EXCEPT ![id] = s],
           heard' = [heard EXCEPT ![id + 1] = h], rail' \in Power,
           DevOK(e, h, s, cpu'.tickEvent), RailInv', Telling' => cpu'.tickEvent # 0
    PROVE  IInv'
<1>1. /\ id \in Int /\ id + 1 \in 1 .. N /\ id + 1 # 1 /\ 1 \in 1 .. N
      /\ \A j \in Dev : j \in Int /\ j + 1 \in 1 .. N
  BY NodeAssumption
<1>2. /\ dev \in [Dev -> DevType] /\ sw \in [Dev -> SwState] /\ heard \in [1 .. N -> Power]
      /\ cpu \in CPUType
  BY DEF IInv, TypeOK, SwState, Power
<1>3. TypeOK'
  BY <1>1, <1>2 DEF TypeOK, SwState, Power
<1>4. TickIffPowered'
  <2>1. scheduled(cpu'.tickEvent) <=> scheduled(cpu.tickEvent)
    BY DEF scheduled, NotScheduled
  <2>2. heard'[1] = heard[1]
    BY <1>1, <1>2
  <2>3. QED
    BY <2>1, <2>2 DEF IInv, TickIffPowered
<1>5. ASSUME NEW j \in Dev
      PROVE  DevOK(dev'[j], heard'[j + 1], sw'[j], cpu'.tickEvent)
  <2>1. CASE j = id
    BY <1>1, <1>2, <2>1
  <2>2. CASE j # id
    <3>1. dev'[j] = dev[j] /\ sw'[j] = sw[j] /\ heard'[j + 1] = heard[j + 1]
      BY <1>1, <1>2, <2>2
    <3>2. DevOK(dev[j], heard[j + 1], sw[j], cpu.tickEvent) /\ dev[j] \in DevType
      BY <1>2 DEF IInv
    <3>3. DevOK(dev[j], heard[j + 1], sw[j], cpu'.tickEvent)
      BY <3>2, LaterTick
    <3>4. QED
      BY <3>1, <3>3
  <2>3. QED
    BY <2>1, <2>2
<1>6. QED
  BY <1>3, <1>4, <1>5 DEF IInv

\* The CPU backs up and restores.
LEMMA CPUHandles ==
    ASSUME NEW c \in CPUType
    PROVE  /\ c.tickEvent \in Nat =>
                 LET v == Backup(c)
                 IN  v \in CPUType /\ v.recover_time = 0 /\ v.tickEvent = NotScheduled
           /\ Once =>
                 LET v == Restore(c)
                 IN  v \in CPUType /\ v.recover_time = c.recover_time
                     /\ v.tickEvent \in Nat \ {0}
<1>1. cycle_backup * clockPeriod \in Nat
  BY CPUAssumption
<1>2. cycle_restore * clockPeriod \in Nat /\ (Once => cycle_restore * clockPeriod > 0)
  BY CPUAssumption DEF Once
<1>3. c.tickEvent \in Nat => c.tickEvent % clockPeriod \in 0 .. clockPeriod - 1
  BY CPUAssumption
<1> DEFINE b == cycle_backup * clockPeriod + c.tickEvent
                + (clockPeriod - (c.tickEvent % clockPeriod))
<1>4. c.tickEvent \in Nat => b \in Nat
  BY <1>1, <1>3, CPUAssumption
<1>5. /\ c = [tickEvent |-> c.tickEvent, tick_recover |-> c.tick_recover,
              recover_time |-> c.recover_time, status_vdev |-> c.status_vdev]
      /\ c.status_vdev \in [Dev -> {0, 1}] /\ c.recover_time \in Nat
  BY DEF CPUType
<1>6. ASSUME c.tickEvent \in Nat
      PROVE
         LET v == Backup(c)
         IN  v \in CPUType /\ v.recover_time = 0 /\ v.tickEvent = NotScheduled
  <2>0. Backup(c) = [c EXCEPT !.tick_recover = b, !.recover_time = 0,
                              !.tickEvent = NotScheduled]
    BY DEF Backup
  <2>2. b \in Nat /\ NotScheduled \in EventTime
    BY <1>4, <1>6 DEF EventTime
  <2> HIDE DEF b
  <2>1. Backup(c) = [tickEvent |-> NotScheduled, tick_recover |-> b,
                     recover_time |-> 0, status_vdev |-> c.status_vdev]
    BY <1>5, <2>0, ZenonT(30)
  <2>3. Backup(c) \in CPUType
    BY <1>5, <2>1, <2>2 DEF CPUType
  <2>4. QED
    BY <2>1, <2>3
<1>7. ASSUME Once
      PROVE   LET v == Restore(c)
              IN  v \in CPUType /\ v.recover_time = c.recover_time
                  /\ v.tickEvent \in Nat \ {0}
  <2> DEFINE p == cycle_restore * clockPeriod
  <2>0. Restore(c) = [c EXCEPT !.tick_recover = p, !.tickEvent = p]
    BY DEF Restore
  <2>2. p \in Nat \ {0} /\ p \in EventTime /\ p \in Nat
    BY <1>2, <1>7 DEF EventTime
  <2> HIDE DEF p
  <2>1. Restore(c) = [tickEvent |-> p, tick_recover |-> p,
                      recover_time |-> c.recover_time, status_vdev |-> c.status_vdev]
    BY <1>5, <2>0, ZenonT(30)
  <2>3. Restore(c) \in CPUType
    BY <1>5, <2>1, <2>2 DEF CPUType
  <2>4. QED
    BY <2>1, <2>2, <2>3
<1>8. QED
  BY <1>6, <1>7

\* A tick of the CPU that leaves one device as e and the program at s with it.
LEMMA TickStep ==
    ASSUME IInv, cpu.tickEvent = 0, ~Telling, NEW id \in Dev, NEW r,
           r.cpu \in CPUType, r.cpu.recover_time = 0, r.dev \in DevType,
           NEW s \in SwState, Tick(r, id), sw' = [sw EXCEPT ![id] = s],
           \A t \in Nat : DevOK(r.dev, heard[id + 1], s, t)
    PROVE  IInv'
<1>1. PICK l \in Latencies : cpu' = cpuTick(r.cpu, l)
  BY DEF Tick
<1>2. l \in Nat
  BY NodeAssumption
<1>3. cpu' \in CPUType /\ cpu'.recover_time = 0 /\ cpu'.tickEvent = l
  BY <1>1, <1>2 DEF cpuTick, CPUType, EventTime
<1>4. id + 1 \in 1 .. N /\ heard \in [1 .. N -> Power] /\ rail \in Power
  BY NodeAssumption DEF IInv, TypeOK, Power
<1>5. dev' = [dev EXCEPT ![id] = r.dev] /\ rail' = rail /\ heard' = heard
  BY DEF Tick
<1>6. heard' = [heard EXCEPT ![id + 1] = heard[id + 1]] /\ heard[id + 1] \in Power
  BY <1>4, <1>5
<1>7. RailInv' /\ ~Telling'
  BY <1>5 DEF IInv, RailInv, Told, Telling
<1>8. DevOK(r.dev, heard[id + 1], s, cpu'.tickEvent)
  BY <1>2, <1>3
<1>9. /\ cpu.tickEvent \in Nat /\ cpu'.tickEvent \in Nat
      /\ cpu'.tickEvent >= cpu.tickEvent
      /\ rail' \in Power
  BY <1>2, <1>3, <1>4, <1>5
<1> DEFINE e == r.dev
           h == heard[id + 1]
<1>10. /\ e \in DevType /\ h \in Power /\ dev' = [dev EXCEPT ![id] = e]
       /\ heard' = [heard EXCEPT ![id + 1] = h] /\ DevOK(e, h, s, cpu'.tickEvent)
  BY <1>5, <1>6, <1>8, ZenonT(30)
<1> HIDE DEF e, h
<1>11. QED
  BY <1>3, <1>7, <1>9, <1>10, OneDevice, ZenonT(30)

\* Each action preserves the invariant, first the four kinds of CPU tick.
LEMMA ComputeStep == ASSUME IInv, Compute PROVE IInv'
<1>1. PICK l \in Latencies : cpu' = cpuTick(cpu, l)
  BY DEF Compute
<1>2. l \in Nat
  BY NodeAssumption
<1>3. cpu' \in CPUType /\ cpu'.recover_time = 0 /\ cpu'.tickEvent = l
  BY <1>1, <1>2 DEF cpuTick, CPUType, EventTime, IInv, TypeOK
<1>4. dev' = dev /\ sw' = sw /\ rail' = rail /\ heard' = heard /\ cpu.tickEvent = 0
  BY DEF Compute
<1>5. TypeOK' /\ RailInv' /\ ~Telling'
  BY <1>3, <1>4 DEF Compute, IInv, TypeOK, RailInv, Told, Telling
<1>6. TickIffPowered'
  BY <1>2, <1>3, <1>4 DEF IInv, TickIffPowered, scheduled, NotScheduled
<1>7. ASSUME NEW j \in Dev
      PROVE  DevOK(dev[j], heard[j + 1], sw[j], l)
  <2>1. DevOK(dev[j], heard[j + 1], sw[j], 0) /\ dev[j] \in DevType
    BY <1>4 DEF IInv, TypeOK
  <2>2. QED
    BY <1>2, <2>1, LaterTick
<1>8. QED
  BY <1>3, <1>4, <1>5, <1>6, <1>7 DEF IInv

\* The program initialises a device it has not used yet.
LEMMA PeriInitStep ==
    ASSUME IInv, Once, NEW id \in Dev, PeriInit(id) PROVE IInv'
<1>1. cpu.tickEvent = 0 /\ ~Telling /\ rail # NoMsg /\ sw[id] = "fresh"
  BY DEF PeriInit, Once
<1>2. id + 1 \in 1 .. N
  BY NodeAssumption
<1>3. heard[id + 1] = "POWER_ON"
  BY <1>1, <1>2, AllPowered DEF scheduled, NotScheduled
<1>4. DevOK(dev[id], "POWER_ON", "fresh", 0) /\ dev[id] \in DevType
      /\ cpu \in CPUType /\ cpu.recover_time = 0
  BY <1>1, <1>3 DEF IInv, TypeOK
<1> DEFINE r == AccessInit(id, dev[id], cpu)
<1>5. /\ r.cpu = cpu /\ r.dev \in DevType
      /\ \A t \in Nat : DevOK(r.dev, heard[id + 1], "init", t)
  BY <1>3, <1>4, InitAccepted
<1>6. Tick(r, id) /\ sw' = [sw EXCEPT ![id] = "init"]
  BY DEF PeriInit
<1> HIDE DEF r
<1>7. QED
  BY <1>1, <1>4, <1>5, <1>6, TickStep, ZenonT(30) DEF SwState

\* The program puts a ready device to work, and the device accepts.
LEMMA ExecStep ==
    ASSUME IInv, NEW id \in Dev, Exec(id) PROVE IInv' /\ dev'[id] # dev[id]
<1>1. cpu.tickEvent = 0 /\ ~Telling /\ sw[id] = "ready"
  BY DEF Exec
<1>2. id + 1 \in 1 .. N
  BY NodeAssumption
<1>3. heard[id + 1] = "POWER_ON"
  BY <1>1, <1>2, AllPowered, NotFresh DEF scheduled, NotScheduled
<1>4. DevOK(dev[id], "POWER_ON", "ready", 0) /\ dev \in [Dev -> DevType]
      /\ cpu \in CPUType /\ cpu.recover_time = 0
  BY <1>1, <1>3 DEF IInv, TypeOK
<1> DEFINE r == AccessActivate(id, dev[id], cpu)
<1>5. /\ r.cpu \in CPUType /\ r.cpu.recover_time = 0 /\ r.dev \in DevType
      /\ \A t \in Nat : DevOK(r.dev, heard[id + 1], "exec", t)
      /\ r.dev # dev[id]
  <2>1. dev[id] \in DevType /\ 0 \in Nat
    BY <1>4
  <2>2. ASSUME NEW t \in Nat
        PROVE /\ r.cpu \in CPUType /\ r.cpu.recover_time = 0 /\ r.dev \in DevType
              /\ DevOK(r.dev, heard[id + 1], "exec", t) /\ r.dev # dev[id]
    BY <1>1, <1>3, <1>4, <2>1, ActivateAccepted
  <2> HIDE DEF r
  <2>3. QED
    BY <2>1, <2>2
<1>6. Tick(r, id) /\ sw' = [sw EXCEPT ![id] = "exec"]
  BY DEF Exec
<1> HIDE DEF r
<1>7. IInv'
  BY <1>1, <1>5, <1>6, TickStep, ZenonT(30) DEF SwState
<1>8. dev'[id] = r.dev
  BY <1>4, <1>6 DEF Tick
<1>9. QED
  BY <1>5, <1>7, <1>8

\* The program polls a device.
LEMMA PollStep ==
    ASSUME IInv, NEW id \in Dev, Poll(id) PROVE IInv'
<1>1. cpu.tickEvent = 0 /\ ~Telling /\ sw[id] \in {"init", "exec"}
  BY DEF Poll, Polling
<1>2. id + 1 \in 1 .. N
  BY NodeAssumption
<1>3. heard[id + 1] = "POWER_ON"
  BY <1>1, <1>2, AllPowered, NotFresh DEF scheduled, NotScheduled
<1>4. DevOK(dev[id], "POWER_ON", sw[id], 0) /\ dev[id] \in DevType
      /\ cpu \in CPUType /\ cpu.recover_time = 0 /\ sw \in [Dev -> SwState]
  BY <1>1, <1>3 DEF IInv, TypeOK, SwState
<1> DEFINE r == Both(dev[id], cpu)
           s == IF (IF sw[id] = "init" THEN "READY" ELSE "IDLE") \in dev[id].pmem
                THEN "ready" ELSE sw[id]
<1>5. r.cpu = cpu /\ r.dev = dev[id]
  BY DEF Both
<1>6. \A t \in Nat : DevOK(dev[id], "POWER_ON", s, t)
  BY <1>1, <1>4, PollTrue
<1>7. Tick(r, id) /\ sw' = [sw EXCEPT ![id] = s] /\ s \in SwState
  BY <1>4 DEF Poll, SwState
<1> HIDE DEF r, s
<1>8. QED
  BY <1>1, <1>3, <1>4, <1>5, <1>6, <1>7, TickStep, ZenonT(30)

-----------------------------------------------------------------------------
\* A device whose event is due has power, and so has the CPU.
LEMMA DuePowered ==
    ASSUME IInv, ~Telling, cpu.tickEvent # 0, NEW id \in Dev,
           scheduled(dev[id].event_init) \/ scheduled(dev[id].event_interrupt)
    PROVE  heard[id + 1] = "POWER_ON" /\ cpu.tickEvent \in Nat \ {0}
<1>1. id + 1 \in 1 .. N /\ 1 \in 1 .. N /\ NoMsg # "POWER_OFF"
  BY NodeAssumption
<1>2. heard[id + 1] = rail /\ heard[1] = rail
  BY <1>1 DEF Telling, Told
<1>3. DevOK(dev[id], heard[id + 1], sw[id], cpu.tickEvent)
      /\ rail \in Power /\ cpu.tickEvent \in EventTime
  BY DEF IInv, TypeOK, CPUType, Power
<1>4. rail # NoMsg /\ rail # "POWER_OFF"
  BY <1>2, <1>3 DEF DevOK
<1>5. scheduled(cpu.tickEvent)
  BY <1>2, <1>4 DEF IInv, TickIffPowered
<1>6. QED
  BY <1>2, <1>3, <1>4, <1>5 DEF Power, EventTime, scheduled

\* An event of device id that leaves e and c.
LEMMA EventStep ==
    ASSUME IInv, ~Telling, cpu.tickEvent \in Nat, NEW id \in Dev,
           NEW e \in DevType, NEW c \in CPUType, c.recover_time = 0,
           c.tickEvent \in Nat, c.tickEvent >= cpu.tickEvent,
           DevOK(e, heard[id + 1], sw[id], c.tickEvent),
           dev' = [dev EXCEPT ![id] = e], cpu' = c, UNCHANGED <<sw, rail, heard>>
    PROVE  IInv'
<1>1. id + 1 \in 1 .. N /\ heard \in [1 .. N -> Power] /\ rail \in Power
      /\ sw \in [Dev -> SwState]
  BY NodeAssumption DEF IInv, TypeOK, Power, SwState
<1> DEFINE h == heard[id + 1]
           s == sw[id]
<1>2. /\ h \in Power /\ s \in SwState /\ heard' = [heard EXCEPT ![id + 1] = h]
      /\ sw' = [sw EXCEPT ![id] = s] /\ DevOK(e, h, s, cpu'.tickEvent)
      /\ rail' \in Power
  BY <1>1
<1>3. RailInv' /\ ~Telling'
  BY DEF IInv, RailInv, Told, Telling
<1> HIDE DEF h, s
<1>4. cpu' \in CPUType /\ cpu'.recover_time = 0
      /\ cpu'.tickEvent \in Nat /\ cpu'.tickEvent >= cpu.tickEvent
  OBVIOUS
<1>5. QED
  BY <1>2, <1>3, <1>4, OneDevice, ZenonT(30)

\* An initialisation ends; only a task left over makes the device work.
LEMMA InitEventStep ==
    ASSUME IInv, NEW id \in Dev, InitEvent(id)
    PROVE  IInv' /\ (Working(dev'[id]) => Working(dev[id]))
<1>1. ~Telling /\ cpu.tickEvent # 0 /\ dev[id].event_init = 0
  BY DEF InitEvent
<1>2. heard[id + 1] = "POWER_ON" /\ cpu.tickEvent \in Nat \ {0}
  BY <1>1, DuePowered DEF scheduled, NotScheduled
<1>3. /\ dev \in [Dev -> DevType] /\ cpu \in CPUType /\ sw[id] \in SwState
      /\ cpu.recover_time = 0 /\ DevOK(dev[id], "POWER_ON", sw[id], cpu.tickEvent)
  BY <1>2 DEF IInv, TypeOK, SwState
<1> DEFINE r == triggerInterrupt(id, [dev[id] EXCEPT !.event_init = NotScheduled], cpu)
<1>4. /\ r.cpu \in CPUType /\ r.cpu.recover_time = 0
      /\ r.cpu.tickEvent \in Nat /\ r.cpu.tickEvent >= cpu.tickEvent
      /\ r.dev \in DevType /\ DevOK(r.dev, "POWER_ON", sw[id], r.cpu.tickEvent)
      /\ r.dev.delay_remained = dev[id].delay_remained
      /\ scheduled(r.dev.event_interrupt) => dev[id].delay_remained > 0
  <2>1. dev[id] \in DevType
    BY <1>3
  <2>2. QED
    BY <1>1, <1>2, <1>3, <2>1, InitEnds
<1>5. dev' = [dev EXCEPT ![id] = r.dev] /\ cpu' = r.cpu /\ UNCHANGED <<sw, rail, heard>>
  BY DEF InitEvent
<1> HIDE DEF r
<1>6. IInv'
  BY <1>1, <1>2, <1>4, <1>5, EventStep, ZenonT(30)
<1>7. QED
  BY <1>3, <1>4, <1>5, <1>6 DEF Working

\* A task ends and nothing of it is left.
LEMMA InterruptEventStep ==
    ASSUME IInv, NEW id \in Dev, InterruptEvent(id)
    PROVE  IInv' /\ ~Working(dev'[id])
<1>1. ~Telling /\ cpu.tickEvent # 0 /\ dev[id].event_interrupt = 0
  BY DEF InterruptEvent
<1>2. heard[id + 1] = "POWER_ON" /\ cpu.tickEvent \in Nat \ {0}
  BY <1>1, DuePowered DEF scheduled, NotScheduled
<1>3. /\ dev \in [Dev -> DevType] /\ cpu \in CPUType /\ sw[id] \in SwState
      /\ cpu.recover_time = 0 /\ DevOK(dev[id], "POWER_ON", sw[id], cpu.tickEvent)
  BY <1>2 DEF IInv, TypeOK, SwState
<1> DEFINE r == triggerInterrupt(id, [dev[id] EXCEPT !.event_interrupt = NotScheduled], cpu)
<1>4. /\ r.cpu \in CPUType /\ r.cpu.recover_time = 0
      /\ r.cpu.tickEvent \in Nat /\ r.cpu.tickEvent >= cpu.tickEvent
      /\ r.dev \in DevType /\ DevOK(r.dev, "POWER_ON", sw[id], r.cpu.tickEvent)
      /\ r.dev.delay_remained = 0 /\ ~scheduled(r.dev.event_interrupt)
  <2>1. dev[id] \in DevType
    BY <1>3
  <2>2. QED
    BY <1>1, <1>2, <1>3, <2>1, TaskEnds
<1>5. dev' = [dev EXCEPT ![id] = r.dev] /\ cpu' = r.cpu /\ UNCHANGED <<sw, rail, heard>>
  BY DEF InterruptEvent
<1> HIDE DEF r
<1>6. IInv'
  BY <1>1, <1>2, <1>4, <1>5, EventStep, ZenonT(30)
<1>7. QED
  BY <1>3, <1>4, <1>5, <1>6 DEF Working

\* The power switches.
LEMMA PowerSwitchStep == ASSUME IInv, PowerSwitch PROVE IInv'
<1>1. /\ RailInv' /\ rail' \in {"POWER_OFF", "POWER_ON"} /\ heard' \in [1 .. N -> Power]
  BY RailStep DEF IInv, PowerSwitch
<1>2. cpu' = cpu /\ dev' = dev /\ sw' = sw /\ heard' = heard /\ cpu.tickEvent # 0
  BY DEF PowerSwitch, NothingDue, Switch
<1>3. TypeOK'
  BY <1>1, <1>2 DEF IInv, TypeOK, Power
<1>4. QED
  BY <1>1, <1>2, <1>3 DEF IInv, TickIffPowered

\* A tick of simulated time passes.
LEMMA ElapseStep ==
    ASSUME IInv, Elapse
    PROVE  IInv' /\ \A id \in Dev : Working(dev'[id]) => Working(dev[id])
<1> DEFINE Later(d) == [d EXCEPT !.event_init = Sooner(@), !.event_interrupt = Sooner(@)]
<1>1. /\ cpu.tickEvent # 0 /\ ~Telling /\ cpu' = [cpu EXCEPT !.tickEvent = Sooner(@)]
      /\ dev' = [id \in Dev |-> Later(dev[id])]
      /\ UNCHANGED <<sw, rail, heard>>
      /\ \A id \in Dev : dev[id].event_init # 0 /\ dev[id].event_interrupt # 0
  BY ZenonT(30) DEF Elapse, NothingDue, InterruptDue
<1>2. cpu \in CPUType /\ cpu.tickEvent \in EventTime
  BY DEF IInv, TypeOK, CPUType
<1>3. Sooner(cpu.tickEvent) \in EventTime
      /\ (scheduled(Sooner(cpu.tickEvent)) <=> scheduled(cpu.tickEvent))
  BY <1>1, <1>2, SoonerOK, ZenonT(30)
<1>4. cpu' \in CPUType /\ cpu'.tickEvent = Sooner(cpu.tickEvent) /\ cpu'.recover_time = 0
  BY <1>1, <1>2, <1>3, ZenonT(30) DEF CPUType, IInv
<1>5. ASSUME NEW id \in Dev
      PROVE  /\ dev'[id] \in DevType
             /\ DevOK(dev'[id], heard'[id + 1], sw'[id], cpu'.tickEvent)
             /\ Working(dev'[id]) => Working(dev[id])
  <2>1. dev[id] \in DevType /\ DevOK(dev[id], heard[id + 1], sw[id], cpu.tickEvent)
    BY DEF IInv, TypeOK
  <2>2. /\ Later(dev[id]) \in DevType
        /\ DevOK(Later(dev[id]), heard[id + 1], sw[id], Sooner(cpu.tickEvent))
        /\ Later(dev[id]).delay_remained = dev[id].delay_remained
        /\ scheduled(Later(dev[id]).event_interrupt) <=> scheduled(dev[id].event_interrupt)
    BY <1>1, <1>2, <2>1, TimePasses, ZenonT(30)
  <2>3. dev'[id] = Later(dev[id])
    BY <1>1, ZenonT(30)
  <2> HIDE DEF Later
  <2>4. QED
    BY <1>1, <1>4, <2>2, <2>3 DEF Working
<1>6. dev' \in [Dev -> DevType]
  BY <1>1, <1>5, ZenonT(30)
<1> HIDE DEF Later
<1>7. TypeOK' /\ RailInv' /\ ~Telling'
  BY <1>1, <1>4, <1>6 DEF IInv, TypeOK, RailInv, Told, Telling
<1>8. TickIffPowered'
  BY <1>1, <1>3, <1>4 DEF IInv, TickIffPowered
<1>9. QED
  BY <1>4, <1>5, <1>7, <1>8 DEF IInv


\* Without power a device minds no tick.
LEMMA OffAnyTick ==
    ASSUME NEW d, NEW s, NEW t, NEW u, DevOK(d, "POWER_OFF", s, t)
    PROVE  DevOK(d, "POWER_OFF", s, u)
BY DEF DevOK

\* The CPU hears of the power before any device.
LEMMA TellCPUStep == ASSUME IInv, Once, TellCPU PROVE IInv'
<1>1. 1 \in 1 .. N /\ NoMsg \notin {"POWER_OFF", "POWER_ON"}
      /\ \A j \in Dev : j + 1 \in 1 .. N /\ 1 < j + 1
  BY NodeAssumption
<1>2. /\ ~Told(1) /\ heard' = [heard EXCEPT ![1] = rail] /\ rail' = rail
      /\ cpu' = cpuHandleMsg(cpu, rail) /\ dev' = dev /\ sw' = sw
  BY DEF TellCPU, Tell
<1>3. /\ RailInv' /\ rail' \in {"POWER_OFF", "POWER_ON"} /\ heard' \in [1 .. N -> Power]
  BY <1>1, RailStep DEF IInv, TellCPU
<1>4. cpu \in CPUType /\ cpu.tickEvent \in EventTime /\ cpu.recover_time = 0
      /\ heard \in [1 .. N -> Power]
  BY DEF IInv, TypeOK, CPUType, Power
<1>5. heard'[1] = rail /\ \A j \in Dev : heard'[j + 1] = heard[j + 1]
  BY <1>1, <1>2, <1>4
<1>6. CASE rail = "POWER_OFF"
  <2>1. cpu.tickEvent \in Nat
    BY <1>2, <1>4, <1>6 DEF Told, IInv, TickIffPowered, scheduled, EventTime
  <2>2. cpu' = Backup(cpu)
    BY <1>2, <1>6 DEF cpuHandleMsg
  <2>3. cpu' \in CPUType /\ cpu'.recover_time = 0 /\ cpu'.tickEvent = NotScheduled
    BY <1>4, <2>1, <2>2, CPUHandles
  <2>4. ASSUME NEW j \in Dev
        PROVE  DevOK(dev[j], heard[j + 1], sw[j], NotScheduled)
    BY NoTick DEF IInv, TypeOK
  <2>5. TypeOK'
    BY <1>2, <1>3, <2>3 DEF IInv, TypeOK, Power
  <2>6. TickIffPowered'
    BY <1>5, <1>6, <2>3 DEF TickIffPowered, scheduled
  <2>7. cpu'.tickEvent # 0
    BY <2>3 DEF NotScheduled
  <2>8. QED
    BY <1>2, <1>3, <1>5, <2>3, <2>4, <2>5, <2>6, <2>7 DEF IInv
<1>7. CASE rail = "POWER_ON"
  <2>1. \A i \in 1 .. N : heard[i] # NoMsg /\ (heard[i] = rail => i = 1 \/ ~(1 < i))
    BY <1>1, <1>2, <1>7 DEF IInv, RailInv, Told
  <2>2. cpu' = Restore(cpu)
    BY <1>2, <1>7 DEF cpuHandleMsg
  <2>3. cpu' \in CPUType /\ cpu'.recover_time = 0 /\ cpu'.tickEvent \in Nat \ {0}
    BY <1>4, <2>2, CPUHandles
  <2>4. ASSUME NEW j \in Dev
        PROVE  DevOK(dev[j], heard[j + 1], sw[j], cpu'.tickEvent)
    <3>1. heard[j + 1] = "POWER_OFF"
      <4>1. heard[j + 1] \in Power
        BY <1>1, <1>4
      <4>2. heard[j + 1] # NoMsg /\ heard[j + 1] # rail
        BY <1>1, <1>2, <2>1 DEF Told, IInv, RailInv
      <4>3. QED
        BY <1>7, <4>1, <4>2 DEF Power
    <3>2. DevOK(dev[j], "POWER_OFF", sw[j], cpu.tickEvent)
      BY <3>1 DEF IInv
    <3>3. QED
      BY <3>1, <3>2, OffAnyTick
  <2>5. TypeOK'
    BY <1>2, <1>3, <2>3 DEF IInv, TypeOK, Power
  <2>6. TickIffPowered'
    BY <1>5, <1>7, <2>3 DEF TickIffPowered, scheduled, NotScheduled
  <2>7. QED
    BY <1>2, <1>3, <1>5, <2>3, <2>4, <2>5, <2>6 DEF IInv
<1>8. QED
  BY <1>2, <1>3, <1>6, <1>7

\* A device hears of the power; power on finds the CPU with a tick to come.
LEMMA TellDevStep ==
    ASSUME IInv, NEW id \in Dev, TellDev(id)
    PROVE  IInv' /\ (Working(dev'[id]) => Working(dev[id]))
<1>1. id \in Nat /\ id >= 1 /\ id + 1 \in 1 .. N /\ 1 \in 1 .. N
      /\ NoMsg \notin {"POWER_OFF", "POWER_ON"}
  BY NodeAssumption
<1> DEFINE r == vdevHandleMsg(id, dev[id], cpu, rail)
           s == sw[id]
<1>2. /\ ~Told(id + 1) /\ Told(1) /\ heard' = [heard EXCEPT ![id + 1] = rail]
      /\ rail' = rail /\ dev' = [dev EXCEPT ![id] = r.dev] /\ cpu' = r.cpu /\ sw' = sw
  BY <1>1 DEF TellDev, Tell
<1>3. /\ RailInv' /\ rail' \in {"POWER_OFF", "POWER_ON"} /\ rail' \in Power
  BY <1>1, RailStep DEF IInv, TellDev, Power
<1>4. /\ cpu \in CPUType /\ cpu.tickEvent \in EventTime /\ cpu.recover_time = 0
      /\ dev \in [Dev -> DevType] /\ dev[id] \in DevType
      /\ sw \in [Dev -> SwState] /\ s \in SwState /\ heard \in [1 .. N -> Power]
      /\ DevOK(dev[id], heard[id + 1], s, cpu.tickEvent)
  BY DEF IInv, TypeOK, CPUType, Power, SwState
<1>5. cpu.tickEvent # 0 /\ sw' = [sw EXCEPT ![id] = s]
  BY <1>1, <1>2, <1>4 DEF IInv, Telling
<1>6. /\ r.cpu \in CPUType /\ r.cpu.recover_time = 0 /\ r.cpu.tickEvent # 0
      /\ \/ r.cpu.tickEvent = cpu.tickEvent
         \/ /\ cpu.tickEvent \in Nat /\ r.cpu.tickEvent \in Nat
            /\ r.cpu.tickEvent >= cpu.tickEvent
      /\ r.dev \in DevType /\ DevOK(r.dev, rail, s, r.cpu.tickEvent)
      /\ Working(r.dev) => Working(dev[id])
  <2>1. CASE rail = "POWER_OFF"
    <3>1. r = DevPowerOff(id, dev[id], cpu)
      BY <2>1 DEF vdevHandleMsg
    <3> HIDE DEF r, s
    <3> DEFINE q == DevPowerOff(id, dev[id], cpu)
               t == cpu.tickEvent
    <3>0. /\ q.cpu = cpu /\ q.dev \in DevType
          /\ DevOK(q.dev, "POWER_OFF", s, t)
          /\ ~scheduled(q.dev.event_interrupt)
          /\ q.dev.delay_remained > 0 =>
                scheduled(dev[id].event_interrupt) \/ dev[id].delay_remained > 0
      <4> DEFINE d == dev[id]
                 h == heard[id + 1]
      <4>1. d \in DevType /\ DevOK(d, h, s, t)
        BY <1>4
      <4> HIDE DEF d, h, t
      <4>2. /\ DevPowerOff(id, d, cpu).cpu = cpu /\ DevPowerOff(id, d, cpu).dev \in DevType
            /\ DevOK(DevPowerOff(id, d, cpu).dev, "POWER_OFF", s, t)
            /\ ~scheduled(DevPowerOff(id, d, cpu).dev.event_interrupt)
            /\ DevPowerOff(id, d, cpu).dev.delay_remained > 0 =>
                   scheduled(d.event_interrupt) \/ d.delay_remained > 0
        BY <1>4, <4>1, DevFails, ZenonT(30)
      <4>3. QED
        BY <4>2 DEF d
    <3>2. /\ r.cpu = cpu /\ r.dev \in DevType
          /\ DevOK(r.dev, "POWER_OFF", s, cpu.tickEvent)
          /\ ~scheduled(r.dev.event_interrupt)
          /\ r.dev.delay_remained > 0 =>
                scheduled(dev[id].event_interrupt) \/ dev[id].delay_remained > 0
      BY <3>0, <3>1
    <3>3. QED
      BY <1>4, <1>5, <2>1, <3>2 DEF Working
  <2>2. CASE rail = "POWER_ON"
    <3>1. r = DevPowerOn(id, dev[id], cpu)
      BY <2>2 DEF vdevHandleMsg
    <3>2. heard[id + 1] = "POWER_OFF"
      <4>1. heard[id + 1] \in Power /\ heard[id + 1] # rail
        BY <1>1, <1>2, <1>4 DEF Told
      <4>2. heard[id + 1] # NoMsg
        BY <1>1, <2>2 DEF IInv, RailInv
      <4>3. QED
        BY <2>2, <4>1, <4>2 DEF Power
    <3>3. cpu.tickEvent \in Nat \ {0}
      BY <1>1, <1>2, <1>4, <1>5, <2>2, SMTT(30) DEF IInv, TickIffPowered, Told, scheduled, EventTime
    <3> HIDE DEF r, s
    <3>4. /\ r.cpu \in CPUType /\ r.cpu.recover_time = 0
          /\ r.cpu.tickEvent \in Nat /\ r.cpu.tickEvent >= cpu.tickEvent
          /\ r.dev \in DevType /\ DevOK(r.dev, "POWER_ON", s, r.cpu.tickEvent)
          /\ r.dev.delay_remained = dev[id].delay_remained
          /\ ~scheduled(r.dev.event_interrupt)
      BY <1>4, <3>1, <3>2, <3>3, DevRecovers, SMTT(30)
    <3>5. Working(r.dev) => Working(dev[id])
      BY <3>4 DEF Working
    <3>6. r.cpu.tickEvent # 0 /\ cpu.tickEvent \in Nat
      BY <3>3, <3>4
    <3>7. QED
      BY <2>2, <3>4, <3>5, <3>6
  <2>3. QED
    BY <1>2, <1>3, <2>1, <2>2, ZenonT(30)
<1> HIDE DEF r, s
<1> DEFINE e == r.dev
<1>7. /\ e \in DevType /\ dev' = [dev EXCEPT ![id] = e]
      /\ DevOK(e, rail, s, cpu'.tickEvent) /\ (Working(e) => Working(dev[id]))
      /\ rail \in Power
  BY <1>2, <1>3, <1>6
<1>8. /\ cpu' \in CPUType /\ cpu'.recover_time = 0 /\ cpu'.tickEvent # 0
      /\ \/ cpu'.tickEvent = cpu.tickEvent
         \/ /\ cpu.tickEvent \in Nat /\ cpu'.tickEvent \in Nat
            /\ cpu'.tickEvent >= cpu.tickEvent
  BY <1>2, <1>6
<1> HIDE DEF e
<1>9. IInv'
  BY <1>2, <1>3, <1>4, <1>5, <1>7, <1>8, OneDevice, ZenonT(30)
<1>10. dev'[id] = e
  BY <1>4, <1>7
<1>11. QED
  BY <1>7, <1>9, <1>10

-----------------------------------------------------------------------------
\* The initial states satisfy the invariant.
LEMMA InitInv == ASSUME Init PROVE IInv
<1>1. N \in Nat \ {0} /\ Dev = 1 .. N - 1 /\ NoMsg \notin {"POWER_OFF", "POWER_ON"}
  BY NodeAssumption
<1>2. /\ rail = NoMsg /\ heard = [i \in 1 .. N |-> NoMsg] /\ cpu = CPUInit
      /\ dev = [id \in Dev |-> DevInit] /\ sw = [id \in Dev |-> "fresh"]
  BY DEF Init, RailInit
<1>3. DevInit \in DevType /\ DevInit.pmem = {} /\ DevInit.delay_remained = 0
      /\ ~DevInit.need_recover /\ ~scheduled(DevInit.event_init)
      /\ ~scheduled(DevInit.event_interrupt)
      /\ DevInit.vdev_energy_state = "STATE_POWER_OFF"
  BY DEF DevInit, DevType, EventTime, NotScheduled, VdevEngyState, scheduled
<1>4. CPUInit \in CPUType /\ CPUInit.tickEvent = 0 /\ CPUInit.recover_time = 0
  BY DEF CPUInit, CPUType, EventTime
<1>5. TypeOK
  BY <1>1, <1>2, <1>3, <1>4 DEF TypeOK
<1>6. RailInv /\ ~Telling
  BY <1>1, <1>2 DEF RailInv, Told, Telling
<1>7. TickIffPowered
  BY <1>1, <1>2, <1>4 DEF TickIffPowered, scheduled, NotScheduled
<1>8. ASSUME NEW id \in Dev
      PROVE  DevOK(dev[id], heard[id + 1], sw[id], cpu.tickEvent)
  <2>1. id + 1 \in 1 .. N /\ dev[id] = DevInit /\ sw[id] = "fresh"
    BY <1>1, <1>2
  <2>2. heard[id + 1] = NoMsg
    BY <1>2, <2>1
  <2>3. DevOK(DevInit, NoMsg, "fresh", cpu.tickEvent)
    BY <1>1, <1>3 DEF DevOK
  <2>4. QED
    BY <2>1, <2>2, <2>3
<1>9. QED
  BY <1>2, <1>4, <1>5, <1>6, <1>7, <1>8, ZenonT(30) DEF IInv

\* Every step preserves the invariant.
LEMMA StepInv == ASSUME Once, IInv, [Next]_vars PROVE IInv'
<1>1. CASE Compute
  BY <1>1, ComputeStep
<1>2. CASE PowerSwitch
  BY <1>2, PowerSwitchStep
<1>3. CASE TellCPU
  BY <1>3, TellCPUStep
<1>4. CASE Elapse
  BY <1>4, ElapseStep
<1>5. ASSUME NEW id \in Dev, PeriInit(id) PROVE IInv'
  BY <1>5, PeriInitStep
<1>6. ASSUME NEW id \in Dev, Exec(id) PROVE IInv'
  BY <1>6, ExecStep
<1>7. ASSUME NEW id \in Dev, Poll(id) PROVE IInv'
  BY <1>7, PollStep
<1>8. ASSUME NEW id \in Dev, InitEvent(id) PROVE IInv'
  BY <1>8, InitEventStep
<1>9. ASSUME NEW id \in Dev, InterruptEvent(id) PROVE IInv'
  BY <1>9, InterruptEventStep
<1>10. ASSUME NEW id \in Dev, TellDev(id) PROVE IInv'
  BY <1>10, TellDevStep
<1>11. CASE UNCHANGED vars
  BY <1>11 DEF vars, IInv, TypeOK, RailInv, Told, TickIffPowered, Telling
<1>12. QED
  BY <1>1, <1>2, <1>3, <1>4, <1>5, <1>6, <1>7, <1>8, <1>9, <1>10, <1>11 DEF Next

-----------------------------------------------------------------------------
\* A device that its program is initialising has no task.
LEMMA InitHasNoTask ==
    ASSUME NEW d, NEW h, NEW t, DevOK(d, h, "init", t)
    PROVE  ~scheduled(d.event_interrupt) /\ d.delay_remained = 0
BY Zenon DEF DevOK

\* Work appears only when the program asks for it.
LEMMA NoNewWork ==
    ASSUME Once, IInv, NEW id \in Dev,
           PeriInit(id) \/ Poll(id) \/ InitEvent(id) \/ TellDev(id),
           NEW j \in Dev, Working(dev'[j])
    PROVE  Working(dev[j])
<1>1. dev \in [Dev -> DevType]
  BY DEF IInv, TypeOK
<1>2. \E e : dev' = [dev EXCEPT ![id] = e]
  BY DEF PeriInit, Poll, InitEvent, TellDev, Tick
<1>3. CASE j # id
  BY <1>1, <1>2, <1>3
<1>4. CASE j = id /\ PeriInit(id)
  <2>1. IInv' /\ sw' = [sw EXCEPT ![id] = "init"] /\ sw \in [Dev -> SwState]
    BY <1>4, PeriInitStep, ZenonT(30) DEF PeriInit, IInv, TypeOK, SwState
  <2>2. sw'[id] = "init" /\ DevOK(dev'[id], heard'[id + 1], sw'[id], cpu'.tickEvent)
    BY <2>1 DEF IInv
  <2>3. ~scheduled(dev'[id].event_interrupt) /\ dev'[id].delay_remained = 0
    BY <2>2, InitHasNoTask, Zenon
  <2>4. ~Working(dev'[id])
    BY <2>3 DEF Working
  <2>5. QED
    BY <1>4, <2>4
<1>5. CASE j = id /\ Poll(id)
  <2>1. dev' = [dev EXCEPT ![id] = dev[id]]
    BY <1>5 DEF Poll, Tick, Both
  <2>2. QED
    BY <1>1, <1>5, <2>1
<1>6. CASE j = id /\ InitEvent(id)
  BY <1>6, InitEventStep
<1>7. CASE j = id /\ TellDev(id)
  BY <1>7, TellDevStep
<1>8. QED
  BY <1>3, <1>4, <1>5, <1>6, <1>7

\* The tasks owed cover the tasks under way and those to be restarted.
LEMMA OwedStep ==
    ASSUME Once, IInv, OwedInv, owed \in [Dev -> BOOLEAN], [HistNext]_<<vars, owed>>
    PROVE  OwedInv' /\ owed' \in [Dev -> BOOLEAN]
<1>1. dev \in [Dev -> DevType] /\ \A j \in Dev : Working(dev[j]) => owed[j]
  BY DEF IInv, TypeOK, OwedInv
<1>2. ASSUME owed' = owed, \A j \in Dev : Working(dev'[j]) => Working(dev[j])
      PROVE  OwedInv' /\ owed' \in [Dev -> BOOLEAN]
  <2>1. \A j \in Dev : Working(dev'[j]) => owed'[j]
    BY <1>1, <1>2
  <2>2. QED
    BY <1>2, <2>1 DEF OwedInv, Working
<1>3. ASSUME NEW id \in Dev, Request(id)
      PROVE  OwedInv' /\ owed' \in [Dev -> BOOLEAN]
  <2>1. dev'[id] # dev[id] /\ \E e : dev' = [dev EXCEPT ![id] = e]
    BY <1>3, ExecStep, ZenonT(30) DEF Request, Exec, Tick
  <2>2. owed' = [owed EXCEPT ![id] = TRUE]
    BY <1>3, <2>1, ZenonT(30) DEF Request
  <2>3. \A j \in Dev : Working(dev'[j]) => owed'[j]
    BY <1>1, <2>1, <2>2
  <2>4. owed' \in [Dev -> BOOLEAN]
    BY <2>2
  <2>5. QED
    BY <2>3, <2>4 DEF OwedInv, Working
<1>4. ASSUME NEW id \in Dev, Finish(id)
      PROVE  OwedInv' /\ owed' \in [Dev -> BOOLEAN]
  <2>1. ~Working(dev'[id]) /\ \E e : dev' = [dev EXCEPT ![id] = e]
    BY <1>4, InterruptEventStep, ZenonT(30) DEF Finish, InterruptEvent
  <2>2. owed' = [owed EXCEPT ![id] = FALSE]
    BY <1>4 DEF Finish
  <2>3. \A j \in Dev : Working(dev'[j]) => owed'[j]
    BY <1>1, <2>1, <2>2
  <2>4. owed' \in [Dev -> BOOLEAN]
    BY <2>2
  <2>5. QED
    BY <2>3, <2>4 DEF OwedInv, Working
<1>5. CASE Compute /\ owed' = owed
  BY <1>2, <1>5 DEF Compute
<1>6. CASE PowerSwitch /\ owed' = owed
  BY <1>2, <1>6 DEF PowerSwitch
<1>7. CASE TellCPU /\ owed' = owed
  BY <1>2, <1>7 DEF TellCPU
<1>8. CASE Elapse /\ owed' = owed
  BY <1>2, <1>8, ElapseStep
<1>9. ASSUME NEW id \in Dev, PeriInit(id) \/ Poll(id) \/ InitEvent(id) \/ TellDev(id),
             owed' = owed
      PROVE  OwedInv' /\ owed' \in [Dev -> BOOLEAN]
  <2>1. \A j \in Dev : Working(dev'[j]) => Working(dev[j])
    BY <1>9, NoNewWork
  <2>2. QED
    BY <1>2, <1>9, <2>1
<1>10. CASE UNCHANGED <<vars, owed>>
  BY <1>2, <1>10 DEF vars
<1>11. QED
  BY <1>3, <1>4, <1>5, <1>6, <1>7, <1>8, <1>9, <1>10 DEF HistNext

-----------------------------------------------------------------------------
\* What the invariant says of a state.
LEMMA InvSafe ==
    ASSUME IInv
    PROVE  /\ TickIffPowered /\ EventsMatchFlags
           /\ EnergyStateTracksWork /\ ReadyWhenCPURuns
<1>1. \A id \in Dev : /\ DevOK(dev[id], heard[id + 1], sw[id], cpu.tickEvent)
                      /\ dev[id] \in DevType
  BY DEF IInv, TypeOK
<1>2. EventsMatchFlags
  BY <1>1 DEF EventsMatchFlags, DevOK
<1>3. EnergyStateTracksWork
  BY <1>1 DEF EnergyStateTracksWork, DevOK
<1>4. ASSUME cpu.tickEvent = 0, ~Telling, NEW id \in Dev
      PROVE  /\ sw[id] \in {"ready", "exec"} => "READY" \in dev[id].pmem
             /\ sw[id] = "ready" => "BUSY" \notin dev[id].pmem
             /\ sw[id] = "exec" => ~({"IDLE", "BUSY"} \subseteq dev[id].pmem)
  <2>1. SUFFICES ASSUME sw[id] \in {"ready", "exec"} PROVE
             /\ "READY" \in dev[id].pmem
             /\ sw[id] = "ready" => "BUSY" \notin dev[id].pmem
             /\ sw[id] = "exec" => ~({"IDLE", "BUSY"} \subseteq dev[id].pmem)
    OBVIOUS
  <2>2. id + 1 \in 1 .. N
    BY NodeAssumption
  <2>3. heard[id + 1] = "POWER_ON"
    BY <1>4, <2>1, <2>2, AllPowered, NotFresh DEF scheduled, NotScheduled
  <2>4. DevOK(dev[id], "POWER_ON", sw[id], 0)
    BY <1>1, <1>4, <2>3
  <2>5. \A x \in EventTime : scheduled(x) => ~(0 > x)
    BY DEF EventTime, scheduled, NotScheduled
  <2>6. dev[id].event_init \in EventTime /\ dev[id].event_interrupt \in EventTime
    BY <1>1 DEF DevType
  <2>7. ~scheduled(dev[id].event_init) /\ scheduled(0)
    BY <2>1, <2>4, <2>5, <2>6 DEF DevOK, scheduled, NotScheduled
  <2>8. QED
    BY <2>1, <2>4, <2>5, <2>6, <2>7, ZenonT(30) DEF DevOK
<1>5. QED
  BY <1>2, <1>3, <1>4 DEF IInv, ReadyWhenCPURuns

\* IInv is an invariant of the CPU and its devices.
THEOREM Invariant == ASSUME Once PROVE Spec => []IInv
<1>1. Init => IInv
  BY InitInv
<1>2. IInv /\ [Next]_vars => IInv'
  BY StepInv
<1>3. QED
  BY <1>1, <1>2, PTL DEF Spec

\* For any number of devices and any delays, the CPU has a tick scheduled
\* exactly while it has power (TickIffPowered): no schedule() or deschedule()
\* in handleMsg meets an event in the wrong state.
THEOREM TickIffPoweredCorrect == ASSUME Once PROVE Spec => []TickIffPowered
<1>1. IInv => TickIffPowered
  BY InvSafe
<1>2. QED
  BY <1>1, Invariant, PTL

\* A device's flags and its events agree through every power failure, so the
\* assertions of handleMsg and triggerInterrupt hold.
THEOREM EventsMatchFlagsCorrect == ASSUME Once PROVE Spec => []EventsMatchFlags
<1>1. IInv => EventsMatchFlags
  BY InvSafe
<1>2. QED
  BY <1>1, Invariant, PTL

\* A device is charged as active exactly while it works, as off without power.
THEOREM EnergyStateTracksWorkCorrect ==
    ASSUME Once PROVE Spec => []EnergyStateTracksWork
<1>1. IInv => EnergyStateTracksWork
  BY InvSafe
<1>2. QED
  BY <1>1, Invariant, PTL

\* The CPU never executes an instruction before the devices its program relies
\* on have recovered.
THEOREM ReadyWhenCPURunsCorrect == ASSUME Once PROVE Spec => []ReadyWhenCPURuns
<1>1. IInv => ReadyWhenCPURuns
  BY InvSafe
<1>2. QED
  BY <1>1, Invariant, PTL

\* A device works only on a task the program asked for and that it has not
\* completed, however often it is restarted.
THEOREM NoPhantomWorkCorrect == ASSUME Once PROVE HistSpec => []NoPhantomWork
<1> DEFINE HInv == IInv /\ OwedInv /\ owed \in [Dev -> BOOLEAN]
<1>1. HistInit => HInv
  <2>1. SUFFICES ASSUME HistInit PROVE HInv
    OBVIOUS
  <2>2. IInv
    BY <2>1, InitInv DEF HistInit
  <2>3. dev = [id \in Dev |-> DevInit] /\ owed = [id \in Dev |-> FALSE]
    BY <2>1 DEF HistInit, Init
  <2>4. ~scheduled(DevInit.event_interrupt) /\ DevInit.delay_remained = 0
    BY DEF DevInit, scheduled
  <2>5. \A id \in Dev : ~(scheduled(dev[id].event_interrupt) \/ dev[id].delay_remained > 0)
    BY <2>3, <2>4
  <2>6. QED
    BY <2>2, <2>3, <2>5 DEF OwedInv, Working
<1>2. HInv /\ [HistNext]_<<vars, owed>> => HInv'
  <2>1. SUFFICES ASSUME HInv, [HistNext]_<<vars, owed>> PROVE HInv'
    OBVIOUS
  <2>2. [Next]_vars
    BY <2>1 DEF HistNext, Next, Request, Finish
  <2>3. IInv'
    BY <2>1, <2>2, StepInv
  <2>4. OwedInv' /\ owed' \in [Dev -> BOOLEAN]
    BY <2>1, OwedStep
  <2>5. QED
    BY <2>3, <2>4
<1>3. HInv => NoPhantomWork
  BY DEF OwedInv, Working, NoPhantomWork
<1>4. QED
  BY <1>1, <1>2, <1>3, PTL DEF HistSpec
=============================================================================
