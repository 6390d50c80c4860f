------------------------------ MODULE MemPath ------------------------------
(***************************************************************************)
(* Flow control on the timing path to memory: senders with a packet queue  *)
(* (mem/packet_queue.cc), a non-coherent crossbar (mem/xbar.cc,            *)
(* mem/noncoherent_xbar.cc), and behind it a memory "near"                 *)
(* (mem/simple_mem.cc) and a bridge (mem/bridge.cc) with a second memory   *)
(* "far".                                                                  *)
(*                                                                         *)
(*     senders -- crossbar --+-- near                                      *)
(*                           +-- bridge -- far                             *)
(*                                                                         *)
(* A component that cannot take a packet refuses it and owes the sender a  *)
(* retry.  A retry is a synchronous call, and it sends again at once: one  *)
(* event runs through several components.  The operators below therefore   *)
(* take the state s of the whole path and return the state after the call, *)
(* with ok for the result of a send.                                       *)
(*                                                                         *)
(* Times are left out: a scheduled event fires some time.  Packets are     *)
(* reused once they are through, so that the traffic never ends.           *)
(***************************************************************************)
EXTENDS Integers, FiniteSets, Sequences, Functions

CONSTANTS
    Sender, Pkt,
    from, to,         \* the sender of a packet, and the crossbar port it leaves by
    Posted,           \* packets that need no response
    reqQueueLimit, respQueueLimit,
    MaxInFlight,      \* the senders have at most this many packets on their way
    NULL

Port == {"near", "bridge"}     \* what the crossbar's master ports lead to
Memory == {"near", "far"}
Layers == Port \cup Sender     \* a request layer per port, a response layer per sender

ASSUME PathAssumption ==
    /\ from \in [Pkt -> Sender] /\ to \in [Pkt -> Port] /\ Posted \subseteq Pkt
    /\ reqQueueLimit \in Nat \ {0} /\ respQueueLimit \in Nat \ {0}
    /\ Sender \cap (Port \cup Memory) = {} /\ NULL \notin Port \cup Sender

VARIABLES
    sender,     \* per sender: queue, waitingOnRetry, is sendEvent scheduled?
    layer,      \* per layer: state, waitingForLayer, waitingForPeer
    routeTo,    \* the packets the crossbar knows a way back for
    bridge,     \* its two ports: queues, outstandingResponses, retryReq, events
    mem,        \* per memory: isBusy, retryReq, packetQueue, retryResp, dequeueEvent
    drain,      \* phase, and the DrainManager: its count and who will call it
    aborted     \* has an assert() of the code failed?

vars == <<sender, layer, routeTo, bridge, mem, drain, aborted>>

path == [sender |-> sender, layer |-> layer, routeTo |-> routeTo,
         bridge |-> bridge, mem |-> mem, drain |-> drain, aborted |-> aborted]

Becomes(s) ==
    /\ sender' = s.sender /\ layer' = s.layer /\ routeTo' = s.routeTo
    /\ bridge' = s.bridge /\ mem' = s.mem /\ drain' = s.drain /\ aborted' = s.aborted

Done(s) == [ok |-> TRUE, s |-> s]
Refused(s) == [ok |-> FALSE, s |-> s]

assert(s, condition) == [s EXCEPT !.aborted = @ \/ ~condition]

\* x is an element of q.  (SequencesExt has the operator too; what else it defines
\* makes every proof about this module several times slower.)
Contains(q, x) == \E i \in 1 .. Len(q) : q[i] = x

-----------------------------------------------------------------------------
\* The objects with something to drain.  What owns a sender waits for responses.
Drainable == {"layer"} \X Layers \cup {"mem"} \X Memory \cup {"queue", "owner"} \X Sender

\* An object that has become empty tells the drain manager, if it was asked to.
signalDrainDone(s, o) ==
    IF o \in s.drain.waiting
    THEN [assert(s, s.drain.count > 0) EXCEPT !.drain.waiting = @ \ {o}, !.drain.count = @ - 1]
    ELSE s

\* What m still waits for: sent and unanswered, or queued and to be answered.
Unanswered(s, m) ==
    {p \in Pkt \ Posted : from[p] = m /\ (p \in s.routeTo \/ Contains(s.sender[m].queue, p))}

\* SimpleMemory::recvTimingReq
memRecvTimingReq(s, k, p) ==
    IF s.mem[k].retryReq THEN Refused(s)
    ELSE IF s.mem[k].isBusy THEN Refused([s EXCEPT !.mem[k].retryReq = TRUE])
    ELSE IF p \in Posted THEN Done([s EXCEPT !.mem[k].isBusy = TRUE])
    ELSE Done([s EXCEPT !.mem[k].isBusy = TRUE,
                        !.mem[k].packetQueue = Append(@, p),
                        !.mem[k].dequeueEvent = @ \/ ~s.mem[k].retryResp])

\* Mutant of bridgeRecvTimingReq: looks at the responses that are there, not at
\* the ones that will come.
RoomNow(s, p) ==
    IF \/ Len(s.bridge.reqs) = reqQueueLimit
       \/ p \notin Posted /\ Len(s.bridge.resps) = respQueueLimit
    THEN Refused([s EXCEPT !.bridge.retryReq = TRUE])
    ELSE Done([s EXCEPT !.bridge.outstandingResponses = @ + (IF p \in Posted THEN 0 ELSE 1),
                        !.bridge.reqs = Append(@, p),
                        !.bridge.reqEvent = @ \/ s.bridge.reqs = <<>>])

\* Mutant of bridgeRecvTimingReq: reserves room for a response that never comes.
ReserveAlways(s, p) ==
    IF \/ Len(s.bridge.reqs) = reqQueueLimit
       \/ s.bridge.outstandingResponses = respQueueLimit
    THEN Refused([s EXCEPT !.bridge.retryReq = TRUE])
    ELSE Done([s EXCEPT !.bridge.outstandingResponses = @ + 1,
                        !.bridge.reqs = Append(@, p),
                        !.bridge.reqEvent = @ \/ s.bridge.reqs = <<>>])

\* BridgeSlavePort::recvTimingReq: the request needs room in the request queue,
\* and its response room in the response queue.
bridgeRecvTimingReq(s, p) ==
    LET t == assert(s, ~s.bridge.retryReq)
    IN  IF \/ Len(s.bridge.reqs) = reqQueueLimit
           \/ p \notin Posted /\ s.bridge.outstandingResponses = respQueueLimit
        THEN Refused([t EXCEPT !.bridge.retryReq = TRUE])
        ELSE Done([t EXCEPT !.bridge.outstandingResponses = @ + (IF p \in Posted THEN 0 ELSE 1),
                            !.bridge.reqs = Append(@, p),
                            !.bridge.reqEvent = @ \/ s.bridge.reqs = <<>>])

portRecvTimingReq(s, d, p) ==
    IF d = "bridge" THEN bridgeRecvTimingReq(s, p) ELSE memRecvTimingReq(s, d, p)

\* Layer::tryTiming: a layer that is busy, or owed a retry, makes the source wait.
Taken(s, l) == s.layer[l].state = "BUSY" \/ s.layer[l].waitingForPeer # NULL

\* Mutant of Enqueue: the last to come is the first to be served.
EnqueueFirst(s, l, x) == [s EXCEPT !.layer[l].waitingForLayer = <<x>> \o @]

Enqueue(s, l, x) ==
    [assert(s, ~Contains(s.layer[l].waitingForLayer, x)) EXCEPT
        !.layer[l].waitingForLayer = Append(@, x)]

Occupy(s, l) == [s EXCEPT !.layer[l].state = "BUSY"]

\* Layer::failedTiming
failedTiming(s, l, x) ==
    [assert(s, s.layer[l].waitingForPeer = NULL /\ s.layer[l].state = "BUSY") EXCEPT
        !.layer[l].waitingForPeer = x]

\* NoncoherentXBar::recvTimingReq
recvTimingReq(s, p) ==
    LET l == to[p]
        r == portRecvTimingReq(Occupy(s, l), l, p)
    IN  IF Taken(s, l) THEN Refused(Enqueue(s, l, from[p]))
        ELSE IF ~r.ok THEN Refused(failedTiming(r.s, l, from[p]))
        ELSE IF p \in Posted THEN r
        ELSE Done([assert(r.s, p \notin r.s.routeTo) EXCEPT !.routeTo = @ \cup {p}])

\* PacketQueue::sendDeferredPacket, by an event or by retry.
sendDeferredPacket(s, m) ==
    LET p == Head(s.sender[m].queue)
        r == recvTimingReq([assert(s, ~s.sender[m].waitingOnRetry) EXCEPT
                               !.sender[m].queue = Tail(@)], p)
        left == r.s.sender[m].queue
        sent == [r.s EXCEPT !.sender[m].sendEvent = left # <<>>]
    IN  IF ~r.ok
        THEN [r.s EXCEPT !.sender[m].waitingOnRetry = TRUE, !.sender[m].queue = <<p>> \o @]
        ELSE IF left = <<>> THEN signalDrainDone(sent, <<"queue", m>>)
        ELSE sent

\* PacketQueue::retry
retry(s, m) ==
    sendDeferredPacket([assert(s, s.sender[m].waitingOnRetry) EXCEPT
                           !.sender[m].waitingOnRetry = FALSE], m)

\* Layer::retryWaiting: the first source that waits for layer l is to send again.
\* One that does not leaves the layer in RETRY, and it is kept busy for a cycle.
Retrying(s, l) ==
    [assert(s, s.layer[l].state = "IDLE") EXCEPT !.layer[l].state = "RETRY",
                                                 !.layer[l].waitingForLayer = Tail(@)]

Retried(s, l) == IF s.layer[l].state = "RETRY" THEN Occupy(s, l) ELSE s

retryReqLayer(s, d) ==
    Retried(retry(Retrying(s, d), Head(s.layer[d].waitingForLayer)), d)

\* Mutant of recvReqRetry: retries without a look at the state of the layer.
RetryAtOnce(s, d) ==
    retryReqLayer([s EXCEPT !.layer[d].waitingForLayer = <<s.layer[d].waitingForPeer>> \o @,
                            !.layer[d].waitingForPeer = NULL], d)

\* Layer::recvRetry, of a request layer: responses are never refused.
recvReqRetry(s, d) ==
    LET r == [assert(s, s.layer[d].waitingForPeer # NULL) EXCEPT
                 !.layer[d].waitingForLayer = <<s.layer[d].waitingForPeer>> \o @,
                 !.layer[d].waitingForPeer = NULL]
    IN  IF s.layer[d].state = "IDLE" THEN retryReqLayer(r, d)
        ELSE assert(r, s.layer[d].state = "BUSY")

\* BridgeSlavePort::retryStalledReq
retryStalledReq(s) ==
    IF s.bridge.retryReq
    THEN recvReqRetry([s EXCEPT !.bridge.retryReq = FALSE], "bridge")
    ELSE s

\* BridgeMasterPort::trySendTiming, by an event or by the far memory's retry.
bridgeSendReq(s) ==
    LET r == memRecvTimingReq(s, "far", Head(s.bridge.reqs))
        left == Tail(s.bridge.reqs)
    IN  IF r.ok
        THEN retryStalledReq([r.s EXCEPT !.bridge.reqs = left,
                                         !.bridge.reqEvent = left # <<>>])
        ELSE r.s

\* Mutant of recvTimingResp: the way back is not forgotten.
RouteKept(s, d, p) ==
    IF Taken(s, from[p]) THEN Refused(Enqueue(s, from[p], d))
    ELSE Done(Occupy(s, from[p]))

\* NoncoherentXBar::recvTimingResp from port d.  A sender takes every response.
recvTimingResp(s, d, p) ==
    LET m == from[p]
        t == assert(s, p \in s.routeTo)
        r == [Occupy(t, m) EXCEPT !.routeTo = @ \ {p}]
    IN  IF Taken(s, m) THEN Refused(Enqueue(t, m, d))
        ELSE IF Unanswered(r, m) = {} THEN Done(signalDrainDone(r, <<"owner", m>>))
        ELSE Done(r)

\* BridgeSlavePort::trySendTiming, by an event or by the crossbar's retry.
bridgeSendResp(s) ==
    LET r == recvTimingResp(s, "bridge", Head(s.bridge.resps))
        left == Tail(s.bridge.resps)
        sent == [assert(r.s, s.bridge.outstandingResponses # 0) EXCEPT
                    !.bridge.resps = left, !.bridge.respEvent = left # <<>>,
                    !.bridge.outstandingResponses = @ - 1]
    IN  IF ~r.ok THEN r.s
        ELSE IF Len(s.bridge.reqs) # reqQueueLimit THEN retryStalledReq(sent)
        ELSE sent

\* BridgeMasterPort::recvTimingResp: room for the response was reserved.
bridgeRecvTimingResp(s, p) ==
    Done([s EXCEPT !.bridge.resps = Append(@, p),
                   !.bridge.respEvent = @ \/ s.bridge.resps = <<>>])

\* SimpleMemory::dequeue, by its event or by recvRespRetry.
dequeue(s, k) ==
    LET p == Head(s.mem[k].packetQueue)
        r == IF k = "far" THEN bridgeRecvTimingResp(s, p) ELSE recvTimingResp(s, k, p)
        left == Tail(s.mem[k].packetQueue)
        sent == [r.s EXCEPT !.mem[k].retryResp = FALSE, !.mem[k].packetQueue = left,
                            !.mem[k].dequeueEvent = left # <<>>]
    IN  IF ~r.ok THEN [r.s EXCEPT !.mem[k].retryResp = TRUE]
        ELSE IF left = <<>> THEN signalDrainDone(sent, <<"mem", k>>)
        ELSE sent

\* Layer::retryWaiting of response layer m; SimpleMemory::recvRespRetry.
retryRespLayer(s, m) ==
    LET d == Head(s.layer[m].waitingForLayer)
        t == Retrying(s, m)
    IN  Retried(IF d = "bridge" THEN bridgeSendResp(t)
                ELSE dequeue(assert(t, s.mem[d].retryResp), d), m)

-----------------------------------------------------------------------------
InFlight(p) ==
    Contains(sender[from[p]].queue, p) \/ p \in routeTo \/ Contains(bridge.reqs, p)

Init ==
    /\ sender = [m \in Sender |->
                   [queue |-> <<>>, waitingOnRetry |-> FALSE, sendEvent |-> FALSE]]
    /\ layer = [l \in Layers |->
                   [state |-> "IDLE", waitingForLayer |-> <<>>, waitingForPeer |-> NULL]]
    /\ routeTo = {}
    /\ bridge = [reqs |-> <<>>, resps |-> <<>>, outstandingResponses |-> 0,
                 retryReq |-> FALSE, reqEvent |-> FALSE, respEvent |-> FALSE]
    /\ mem = [k \in Memory |->
                [isBusy |-> FALSE, retryReq |-> FALSE, packetQueue |-> <<>>,
                 retryResp |-> FALSE, dequeueEvent |-> FALSE]]
    /\ drain = [phase |-> "running", count |-> 0, waiting |-> {}]
    /\ aborted = FALSE

\* Mutant of schedSendTiming: a drain does not stop the senders.
SendsWhileDraining(p) ==
    /\ drain.phase # "drained" /\ ~InFlight(p)
    /\ Cardinality({q \in Pkt : InFlight(q)}) < MaxInFlight
    /\ sender' = [sender EXCEPT ![from[p]].queue = Append(@, p),
                                ![from[p]].sendEvent =
                                    @ \/ (sender[from[p]].queue = <<>>
                                          /\ ~sender[from[p]].waitingOnRetry)]
    /\ UNCHANGED <<layer, routeTo, bridge, mem, drain, aborted>>

\* PacketQueue::schedSendTiming of a sender whose latency is constant: a new
\* packet is the latest and belongs at the end, never before one that awaits a
\* retry.  The panic at more than 100 packets is left out.
schedSendTiming(p) ==
    /\ drain.phase = "running" /\ ~InFlight(p)
    /\ Cardinality({q \in Pkt : InFlight(q)}) < MaxInFlight
    /\ sender' = [sender EXCEPT ![from[p]].queue = Append(@, p),
                                ![from[p]].sendEvent =
                                    @ \/ (sender[from[p]].queue = <<>>
                                          /\ ~sender[from[p]].waitingOnRetry)]
    /\ UNCHANGED <<layer, routeTo, bridge, mem, drain, aborted>>

processSendEvent(m) ==
    /\ sender[m].sendEvent
    /\ Becomes(sendDeferredPacket([path EXCEPT !.sender[m].sendEvent = FALSE], m))

\* Mutant of releaseLayer: nobody tells the drain manager.
ReleaseUnsignalled(l) ==
    /\ layer[l].state = "BUSY"
    /\ LET s == [path EXCEPT !.layer[l].state = "IDLE"]
       IN IF layer[l].waitingForPeer # NULL \/ layer[l].waitingForLayer = <<>> THEN Becomes(s)
          ELSE IF l \in Port THEN Becomes(retryReqLayer(s, l))
          ELSE Becomes(retryRespLayer(s, l))

\* Layer::releaseLayer, by its event.
releaseLayer(l) ==
    /\ layer[l].state = "BUSY"
    /\ LET s == [path EXCEPT !.layer[l].state = "IDLE"]
       IN IF layer[l].waitingForPeer # NULL THEN Becomes(s)
          ELSE IF layer[l].waitingForLayer = <<>> THEN Becomes(signalDrainDone(s, <<"layer", l>>))
          ELSE IF l \in Port THEN Becomes(retryReqLayer(s, l))
          ELSE Becomes(retryRespLayer(s, l))

bridgeReqEvent ==
    /\ bridge.reqEvent
    /\ Becomes(bridgeSendReq([path EXCEPT !.bridge.reqEvent = FALSE]))

bridgeRespEvent ==
    /\ bridge.respEvent
    /\ Becomes(bridgeSendResp([path EXCEPT !.bridge.respEvent = FALSE]))

\* Mutant of release: the owed retry is dropped.
ReleaseQuietly(k) ==
    /\ mem[k].isBusy
    /\ Becomes([path EXCEPT !.mem[k].isBusy = FALSE, !.mem[k].retryReq = FALSE])

\* SimpleMemory::release, by its event.
release(k) ==
    /\ mem[k].isBusy
    /\ LET s == [path EXCEPT !.mem[k].isBusy = FALSE, !.mem[k].retryReq = FALSE]
       IN IF ~mem[k].retryReq THEN Becomes(s)
          ELSE IF k = "far" THEN Becomes(bridgeSendReq(s))
          ELSE Becomes(recvReqRetry(s, k))

dequeueEvent(k) ==
    /\ mem[k].dequeueEvent
    /\ Becomes(dequeue([path EXCEPT !.mem[k].dequeueEvent = FALSE], k))

\* m5.drain: ask every object, until a pass in which none has to wait.
Undrained ==
    {"layer"} \X {l \in Layers : layer[l].state # "IDLE"}
    \cup {"mem"} \X {k \in Memory : mem[k].packetQueue # <<>>}
    \cup {"queue"} \X {m \in Sender : sender[m].queue # <<>>}
    \cup {"owner"} \X {m \in Sender : Unanswered(path, m) # {}}

drainPass ==
    /\ drain.phase # "drained" /\ drain.count = 0
    /\ drain' = [phase |-> IF Undrained = {} THEN "drained" ELSE "draining",
                 count |-> Cardinality(Undrained), waiting |-> Undrained]
    /\ UNCHANGED <<sender, layer, routeTo, bridge, mem, aborted>>

drainResume ==
    /\ drain.phase = "drained"
    /\ drain' = [drain EXCEPT !.phase = "running"]
    /\ UNCHANGED <<sender, layer, routeTo, bridge, mem, aborted>>

Event ==
    \/ \E m \in Sender : processSendEvent(m)
    \/ \E l \in Layers : releaseLayer(l)
    \/ bridgeReqEvent \/ bridgeRespEvent
    \/ \E k \in Memory : release(k) \/ dequeueEvent(k)

Next == (\E p \in Pkt : schedSendTiming(p)) \/ Event \/ drainPass \/ drainResume

\* Scheduled events fire; a script that drains goes on to the end.  Each conjunct
\* is WF_vars of its action with the action's guard for ENABLED: an event always
\* runs, and changes the state.
Fairness ==
    /\ \A m \in Sender : []<>~sender[m].sendEvent \/ []<><<processSendEvent(m)>>_vars
    /\ \A l \in Layers : []<>(layer[l].state # "BUSY") \/ []<><<releaseLayer(l)>>_vars
    /\ []<>~bridge.reqEvent \/ []<><<bridgeReqEvent>>_vars
    /\ []<>~bridge.respEvent \/ []<><<bridgeRespEvent>>_vars
    /\ \A k \in Memory : []<>~mem[k].isBusy \/ []<><<release(k)>>_vars
    /\ \A k \in Memory : []<>~mem[k].dequeueEvent \/ []<><<dequeueEvent(k)>>_vars
    /\ \/ []<>(drain.phase # "draining" \/ drain.count # 0)
       \/ []<><<drain.phase = "draining" /\ drainPass>>_vars

Spec == Init /\ [][Next]_vars /\ Fairness
-----------------------------------------------------------------------------
States == {"IDLE", "BUSY", "RETRY"}

\* Type invariant: no queue outgrows its limit, and nobody is queued twice.
TypeOK ==
    /\ sender \in [Sender -> [queue : Seq(Pkt), waitingOnRetry : BOOLEAN, sendEvent : BOOLEAN]]
    /\ \A m \in Sender : IsInjective(sender[m].queue)
    /\ \A l \in Layers :
         /\ layer[l].state \in States
         /\ layer[l].waitingForPeer \in Sender \cup {NULL}
         /\ IsInjective(layer[l].waitingForLayer)
         /\ Range(layer[l].waitingForLayer) \subseteq IF l \in Port THEN Sender ELSE Port
    /\ routeTo \subseteq Pkt \ Posted
    /\ Len(bridge.reqs) <= reqQueueLimit /\ Len(bridge.resps) <= respQueueLimit
    /\ bridge.outstandingResponses \in 0 .. respQueueLimit
    /\ drain.waiting \subseteq Drainable

\* No assert() on the path fails, however the retries of the components nest:
\* the ones in xbar.cc, noncoherent_xbar.cc, bridge.cc, simple_mem.cc,
\* packet_queue.cc and drain.hh that the operators above carry.
NoAssertFails == ~aborted

\* Is x, a sender or a port, in line at layer l?
InLine(x, l) == layer[l].waitingForPeer = x \/ Contains(layer[l].waitingForLayer, x)

\* No wake-up is lost or given twice.  Whoever holds a packet has either its own
\* event scheduled, or has been refused and then is in line at exactly the one
\* layer its first packet needs; and every line is owed a call: by the release
\* event of the layer, or by the peer that refused.
WakeUpOwed ==
    /\ \A m \in Sender :
         LET q == sender[m].queue
         IN /\ (q # <<>>) <=> (sender[m].sendEvent # sender[m].waitingOnRetry)
            /\ sender[m].waitingOnRetry => q # <<>>
            /\ {d \in Port : InLine(m, d)} =
                 IF sender[m].waitingOnRetry THEN {to[Head(q)]} ELSE {}
    /\ \A l \in Layers :
         layer[l].waitingForLayer # <<>> => layer[l].state = "BUSY" \/ layer[l].waitingForPeer # NULL
    /\ (layer["near"].waitingForPeer # NULL) <=> mem["near"].retryReq
    /\ (layer["bridge"].waitingForPeer # NULL) <=> bridge.retryReq
    /\ \A k \in Memory : mem[k].retryReq => mem[k].isBusy
    /\ bridge.retryReq => bridge.reqs # <<>> \/ bridge.outstandingResponses > 0
    /\ (bridge.reqs # <<>>) <=> (bridge.reqEvent # mem["far"].retryReq)
    /\ {m \in Sender : InLine("bridge", m)} =
         IF bridge.resps # <<>> /\ ~bridge.respEvent THEN {from[Head(bridge.resps)]} ELSE {}
    /\ \A k \in Memory :
         (mem[k].packetQueue # <<>>) <=> (mem[k].dequeueEvent # mem[k].retryResp)
    /\ {m \in Sender : InLine("near", m)} =
         IF mem["near"].retryResp THEN {from[Head(mem["near"].packetQueue)]} ELSE {}

\* The bridge's counter is exactly the responses still to come or to be sent on,
\* so a response never finds the queue full: nothing checks that when it arrives.
ResponsesReserved ==
    bridge.outstandingResponses =
        Cardinality({p \in Pkt \ Posted : Contains(bridge.reqs, p)})
        + Len(mem["far"].packetQueue) + Len(bridge.resps)

\* The crossbar knows the way back for exactly the packets that are beyond it and
\* will be answered, and each of those is in one place only.
OnePlace ==
    LET beyond == <<bridge.reqs, mem["far"].packetQueue, bridge.resps, mem["near"].packetQueue>>
        Places(p) == {i \in DOMAIN beyond : Contains(beyond[i], p)}
    IN  \A p \in Pkt :
           /\ Cardinality(Places(p)) = IF p \in Posted THEN (IF Contains(bridge.reqs, p) THEN 1 ELSE 0)
                                       ELSE IF p \in routeTo THEN 1 ELSE 0
           /\ Contains(sender[from[p]].queue, p) => Places(p) = {}

\* The drain manager waits for as many calls as there are objects that will make
\* one, and each of them still has something that must end with that call.
DrainCounted ==
    /\ drain.count = Cardinality(drain.waiting)
    /\ \A o \in drain.waiting :
         o \in Undrained \/ (o[1] = "layer" /\ layer[o[2]].waitingForPeer # NULL)

\* Every packet that is queued for sending completes, once: however full the
\* bridge is and however the senders compete, no retry starves one of them.
Promise == INSTANCE MemRequests WITH outstanding <- {p \in Pkt : InFlight(p)}
ImplementsRequests == Promise!Spec

\* A drain comes to its end.
DrainEnds == drain.phase = "draining" ~> drain.phase = "drained"

-----------------------------------------------------------------------------
\* drain.hh: an object that is Drained has its buffers drained.  So when all
\* objects are, no packet is in a queue or on its way.  The bridge inherits
\* SimObject::drain, which says so without a look at its queues.
DrainedIsQuiet == drain.phase = "drained" => \A p \in Pkt : ~InFlight(p)
=============================================================================
