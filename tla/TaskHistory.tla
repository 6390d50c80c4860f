---------------------------- MODULE TaskHistory ----------------------------
(***************************************************************************)
(* PowerCycle with a memory of the tasks devices owe: owed[id] from the    *)
(* moment device id accepts an operation until it completes it.            *)
(***************************************************************************)
EXTENDS PowerCycle

VARIABLE owed

\* A command that finds the device busy is discarded and adds nothing.
Request(id) ==
    /\ Exec(id)
    /\ owed' = [owed EXCEPT ![id] = @ \/ dev'[id] # dev[id]]

Finish(id) ==
    /\ InterruptEvent(id)
    /\ owed' = [owed EXCEPT ![id] = FALSE]

HistNext ==
    \/ Compute /\ UNCHANGED owed
    \/ PowerSwitch /\ UNCHANGED owed
    \/ TellCPU /\ UNCHANGED owed
    \/ Elapse /\ UNCHANGED owed
    \/ \E id \in Dev : \/ Request(id) \/ Finish(id)
                       \/ PeriInit(id) /\ UNCHANGED owed
                       \/ Poll(id) /\ UNCHANGED owed
                       \/ InitEvent(id) /\ UNCHANGED owed
                       \/ TellDev(id) /\ UNCHANGED owed

HistInit == Init /\ owed = [id \in Dev |-> FALSE]

HistSpec ==
    /\ HistInit
    /\ [][HistNext]_<<vars, owed>>
    /\ Fairness

\* A device only works on a task it accepted and has not completed: neither the
\* restart after a power failure nor the next failure repeats a finished task.
NoPhantomWork ==
    \A id \in Dev : scheduled(dev[id].event_interrupt) => owed[id]

\* vdev.cc, handleMsg: an incomplete task is restarted.  A device that is ready
\* and has nothing to do owes nothing.
TasksSurvive ==
    \A id \in Dev :
        "READY" \in dev[id].pmem /\ "BUSY" \notin dev[id].pmem => ~owed[id]
=============================================================================
