--------------------------- MODULE MemPathProofs ---------------------------
(***************************************************************************)
(* The flow control of the memory path loses no wake-up, for any number of *)
(* senders and packets and any length of the bridge's queues.              *)
(***************************************************************************)
EXTENDS MemPath, TLAPS

\* The states of the path, as far as the flow control goes.
SenderRec == [queue : Seq(Pkt), waitingOnRetry : BOOLEAN, sendEvent : BOOLEAN]
LayerRec == [state : States, waitingForLayer : Seq(Port \cup Sender),
             waitingForPeer : Sender \cup {NULL}]
MemRec == [isBusy : BOOLEAN, retryReq : BOOLEAN, packetQueue : Seq(Pkt),
           retryResp : BOOLEAN, dequeueEvent : BOOLEAN]
BridgeRec == [reqs : Seq(Pkt), resps : Seq(Pkt), outstandingResponses : Int,
              retryReq : BOOLEAN, reqEvent : BOOLEAN, respEvent : BOOLEAN]

IsState(s) ==
    /\ DOMAIN s = {"sender", "layer", "routeTo", "bridge", "mem", "drain", "aborted"}
    /\ s.sender \in [Sender -> SenderRec] /\ s.layer \in [Layers -> LayerRec]
    /\ s.bridge \in BridgeRec /\ s.mem \in [Memory -> MemRec]

\* x is in line at layer l of L.
In(L, x, l) == L[l].waitingForPeer = x \/ Contains(L[l].waitingForLayer, x)

\* Nobody is in line twice.
LineOK(L, l) ==
    /\ IsInjective(L[l].waitingForLayer)
    /\ \A x : Contains(L[l].waitingForLayer, x) => x \in IF l \in Port THEN Sender ELSE Port
    /\ ~Contains(L[l].waitingForLayer, L[l].waitingForPeer)
    /\ l \in Sender => L[l].waitingForPeer = NULL

\* Those who are in line will be called.
Owed(L, l) ==
    /\ L[l].state # "RETRY"
    /\ L[l].waitingForLayer # <<>> => L[l].state = "BUSY" \/ L[l].waitingForPeer # NULL

\* A sender with packets has its event scheduled or is in line where its first
\* packet is to go.
SenderOK(A, L, m) ==
    LET q == A[m].queue
    IN  /\ \A p : Contains(q, p) => from[p] = m
        /\ (q # <<>>) <=> (A[m].sendEvent # A[m].waitingOnRetry)
        /\ A[m].waitingOnRetry => q # <<>>
        /\ \A d \in Port : In(L, m, d) <=> A[m].waitingOnRetry /\ to[Head(q)] = d

\* A port that refused a request has a note of it.
PeersOK(L, B, M) ==
    /\ (L["near"].waitingForPeer # NULL) <=> M["near"].retryReq
    /\ (L["bridge"].waitingForPeer # NULL) <=> B.retryReq

MemOK(M, k) ==
    /\ M[k].retryReq => M[k].isBusy
    /\ (M[k].packetQueue # <<>>) <=> (M[k].dequeueEvent # M[k].retryResp)
    /\ M[k].retryResp => M[k].packetQueue # <<>>

\* The bridge's requests wait for its event or for the far memory.
BridgeReqOK(B, M) ==
    /\ (B.reqs # <<>>) <=> (B.reqEvent # M["far"].retryReq)
    /\ B.reqEvent => B.reqs # <<>>

\* Responses of the bridge and of the near memory are in line where they are
\* to go, unless an event is scheduled to send them.
BridgeRespOK(L, B) ==
    /\ B.respEvent => B.resps # <<>>
    /\ \A m \in Sender :
         In(L, "bridge", m) <=> B.resps # <<>> /\ ~B.respEvent /\ from[Head(B.resps)] = m

NearRespOK(L, M) ==
    \A m \in Sender :
       In(L, "near", m) <=> M["near"].retryResp /\ from[Head(M["near"].packetQueue)] = m

StallOK(B) == B.retryReq => B.reqs # <<>> \/ B.outstandingResponses > 0

\* The inductive invariant.
Flow(s) ==
    /\ IsState(s)
    /\ \A l \in Layers : LineOK(s.layer, l) /\ Owed(s.layer, l)
    /\ \A m \in Sender : SenderOK(s.sender, s.layer, m)
    /\ PeersOK(s.layer, s.bridge, s.mem)
    /\ \A k \in Memory : MemOK(s.mem, k)
    /\ BridgeReqOK(s.bridge, s.mem) /\ StallOK(s.bridge)
    /\ BridgeRespOK(s.layer, s.bridge) /\ NearRespOK(s.layer, s.mem)

FlowInv == Flow(path)


-----------------------------------------------------------------------------
\* A sequence with one more element at its end.
LEMMA AppendLine ==
    ASSUME NEW T, NEW q \in Seq(T), NEW x \in T
    PROVE  /\ Append(q, x) \in Seq(T) /\ Append(q, x) # <<>>
           /\ \A y : Contains(Append(q, x), y) <=> Contains(q, y) \/ y = x
           /\ IsInjective(q) /\ ~Contains(q, x) => IsInjective(Append(q, x))
           /\ Head(Append(q, x)) = IF q = <<>> THEN x ELSE Head(q)
<1> DEFINE r == Append(q, x)
<1>1. /\ r \in Seq(T) /\ Len(r) = Len(q) + 1 /\ Len(q) \in Nat /\ r # <<>>
      /\ \A i \in 1 .. Len(q) : r[i] = q[i]
      /\ r[Len(q) + 1] = x
  OBVIOUS
<1>2. Head(r) = IF q = <<>> THEN x ELSE Head(q)
  <2>1. Head(r) = r[1]
    BY <1>1
  <2>2. CASE q = <<>>
    BY <1>1, <2>1, <2>2
  <2>3. CASE q # <<>>
    BY <1>1, <2>1, <2>3
  <2>4. QED
    BY <2>2, <2>3
<1>3. DOMAIN r = 1 .. Len(q) + 1 /\ DOMAIN q = 1 .. Len(q)
  BY <1>1
<1> HIDE DEF r
<1>4. \A y : Contains(r, y) <=> Contains(q, y) \/ y = x
  BY <1>1 DEF Contains
<1>5. IsInjective(q) /\ ~Contains(q, x) => IsInjective(r)
  BY <1>1, <1>3 DEF Contains, IsInjective
<1>6. QED
  BY <1>1, <1>2, <1>4, <1>5 DEF r

\* A sequence without its first element.
LEMMA TailLine ==
    ASSUME NEW T, NEW q \in Seq(T), q # <<>>
    PROVE  /\ Tail(q) \in Seq(T) /\ Head(q) \in T /\ Contains(q, Head(q))
           /\ \A y : Contains(Tail(q), y) => Contains(q, y)
           /\ IsInjective(q) =>
                /\ IsInjective(Tail(q))
                /\ \A y : Contains(Tail(q), y) <=> Contains(q, y) /\ y # Head(q)
           /\ <<Head(q)>> \o Tail(q) = q
<1> DEFINE r == Tail(q)
<1>1. /\ r \in Seq(T) /\ Len(q) \in Nat /\ Len(q) > 0 /\ Len(r) = Len(q) - 1
      /\ \A i \in 1 .. Len(r) : r[i] = q[i + 1]
      /\ Head(q) = q[1] /\ q[1] \in T
  OBVIOUS
<1>2. DOMAIN r = 1 .. Len(r) /\ DOMAIN q = 1 .. Len(q)
  BY <1>1
<1>3. <<Head(q)>> \o r = q
  OBVIOUS
<1> HIDE DEF r
<1>4. Contains(q, Head(q))
  BY <1>1 DEF Contains
<1>5. \A y : Contains(r, y) => Contains(q, y)
  BY <1>1 DEF Contains
<1>6. ASSUME IsInjective(q)
      PROVE  IsInjective(r) /\ \A y : Contains(r, y) <=> Contains(q, y) /\ y # Head(q)
  <2>1. IsInjective(r)
    BY <1>1, <1>2, <1>6, SMTT(30) DEF IsInjective
  <2>2. ASSUME NEW y, Contains(r, y) PROVE y # Head(q)
    BY <1>1, <1>2, <1>6, <2>2 DEF Contains, IsInjective
  <2>3. ASSUME NEW y, Contains(q, y), y # Head(q) PROVE Contains(r, y)
    <3>1. PICK i \in 1 .. Len(q) : q[i] = y
      BY <2>3 DEF Contains
    <3>2. i - 1 \in 1 .. Len(r) /\ r[i - 1] = y
      BY <1>1, <2>3, <3>1
    <3>3. QED
      BY <3>2 DEF Contains
  <2>4. QED
    BY <1>5, <2>1, <2>2, <2>3
<1>7. QED
  BY <1>1, <1>3, <1>4, <1>5, <1>6, ZenonT(30) DEF r

\* A sequence with one more element at its front.
LEMMA FrontLine ==
    ASSUME NEW T, NEW q \in Seq(T), NEW x \in T
    PROVE  /\ <<x>> \o q \in Seq(T) /\ <<x>> \o q # <<>>
           /\ Head(<<x>> \o q) = x /\ Tail(<<x>> \o q) = q
           /\ \A y : Contains(<<x>> \o q, y) <=> Contains(q, y) \/ y = x
           /\ IsInjective(q) /\ ~Contains(q, x) => IsInjective(<<x>> \o q)
<1> DEFINE r == <<x>> \o q
<1>1. /\ r \in Seq(T) /\ Len(r) = Len(q) + 1 /\ Len(q) \in Nat /\ r # <<>>
      /\ \A i \in 1 .. Len(q) : r[i + 1] = q[i]
      /\ r[1] = x /\ Head(r) = x
  OBVIOUS
<1>2. Tail(r) = q
  OBVIOUS
<1>3. DOMAIN r = 1 .. Len(q) + 1 /\ DOMAIN q = 1 .. Len(q)
  BY <1>1
<1> HIDE DEF r
<1>4. ASSUME NEW i \in 1 .. Len(r), i # 1 PROVE i - 1 \in 1 .. Len(q) /\ r[i] = q[i - 1]
  BY <1>1, <1>4
<1>5. ASSUME NEW y PROVE Contains(r, y) <=> Contains(q, y) \/ y = x
  <2>1. Contains(r, y) => Contains(q, y) \/ y = x
    BY <1>1, <1>4 DEF Contains
  <2>2. Contains(q, y) => Contains(r, y)
    <3>1. ASSUME NEW i \in 1 .. Len(q), q[i] = y PROVE i + 1 \in 1 .. Len(r) /\ r[i + 1] = y
      BY <1>1, <3>1
    <3>2. QED
      BY <3>1 DEF Contains
  <2>3. Contains(r, x)
    BY <1>1 DEF Contains
  <2>4. QED
    BY <2>1, <2>2, <2>3
<1>6. ASSUME IsInjective(q), ~Contains(q, x) PROVE IsInjective(r)
  <2>1. \A i \in DOMAIN r : i # 1 => r[i] # x
    BY <1>1, <1>3, <1>4, <1>6 DEF Contains
  <2>2. \A i, j \in DOMAIN r : i # 1 /\ j # 1 /\ r[i] = r[j] => i = j
    <3>1. SUFFICES ASSUME NEW i \in DOMAIN r, NEW j \in DOMAIN r, i # 1, j # 1, r[i] = r[j]
                   PROVE  i = j
      OBVIOUS
    <3>2. i - 1 \in DOMAIN q /\ j - 1 \in DOMAIN q /\ q[i - 1] = q[j - 1]
      BY <1>1, <1>3, <1>4, <3>1, ZenonT(30)
    <3>3. i - 1 = j - 1
      BY <1>6, <3>2 DEF IsInjective
    <3>4. QED
      BY <1>1, <1>3, <3>3
  <2>3. QED
    BY <1>1, <2>1, <2>2 DEF IsInjective
<1>7. QED
  BY <1>1, <1>2, <1>5, <1>6, ZenonT(30) DEF r


-----------------------------------------------------------------------------
\* t differs from s at most in what is kept about routes, drains and asserts.
SameFlow(s, t) ==
    /\ IsState(t)
    /\ t.sender = s.sender /\ t.layer = s.layer /\ t.bridge = s.bridge /\ t.mem = s.mem

\* An assert leaves the flow alone.
LEMMA AssertFlow ==
    ASSUME NEW s, IsState(s), NEW c
    PROVE  SameFlow(s, assert(s, c))
BY DEF IsState, SameFlow, assert

\* So does telling the drain manager.
LEMMA SignalFlow ==
    ASSUME NEW s, IsState(s), NEW o
    PROVE  SameFlow(s, signalDrainDone(s, o))
<1>1. SameFlow(s, assert(s, s.drain.count > 0))
  BY AssertFlow
<1>2. QED
  BY <1>1, ZenonT(30) DEF IsState, SameFlow, signalDrainDone

\* What a memory that takes request p becomes.
MemTakes(M, k, p) ==
    IF p \in Posted THEN [M EXCEPT ![k].isBusy = TRUE]
    ELSE [M EXCEPT ![k].isBusy = TRUE, ![k].packetQueue = Append(@, p),
                   ![k].dequeueEvent = @ \/ ~M[k].retryResp]

MemRefuses(M, k) == [M EXCEPT ![k].retryReq = TRUE]

\* SimpleMemory::recvTimingReq takes a request unless it is busy.
LEMMA MemRecv ==
    ASSUME NEW s, IsState(s), NEW k \in Memory, NEW p \in Pkt, ~s.mem[k].retryReq
    PROVE  LET r == memRecvTimingReq(s, k, p)
           IN  /\ (r.ok <=> ~s.mem[k].isBusy) /\ IsState(r.s)
               /\ r.s.sender = s.sender /\ r.s.layer = s.layer /\ r.s.bridge = s.bridge
               /\ r.s.mem = IF r.ok THEN MemTakes(s.mem, k, p) ELSE MemRefuses(s.mem, k)
<1>1. s.mem[k] \in MemRec
  BY DEF IsState
<1>2. CASE s.mem[k].isBusy
  <2> DEFINE t == [s EXCEPT !.mem[k].retryReq = TRUE]
  <2>1. memRecvTimingReq(s, k, p) = Refused(t)
    BY <1>2 DEF memRecvTimingReq
  <2>2. /\ t.sender = s.sender /\ t.layer = s.layer /\ t.bridge = s.bridge
        /\ t.mem = MemRefuses(s.mem, k) /\ t.mem \in [Memory -> MemRec]
    BY <1>1, ZenonT(30) DEF IsState, MemRefuses, MemRec
  <2>3. IsState(t)
    BY <2>2 DEF IsState
  <2> HIDE DEF t
  <2>4. QED
    BY <1>1, <1>2, <2>1, <2>2, <2>3 DEF Refused, MemRec
<1>3. CASE ~s.mem[k].isBusy /\ p \in Posted
  <2> DEFINE t == [s EXCEPT !.mem[k].isBusy = TRUE]
  <2>1. memRecvTimingReq(s, k, p) = Done(t)
    BY <1>3 DEF memRecvTimingReq
  <2>2. /\ t.sender = s.sender /\ t.layer = s.layer /\ t.bridge = s.bridge
        /\ t.mem = MemTakes(s.mem, k, p) /\ t.mem \in [Memory -> MemRec]
    BY <1>1, <1>3, ZenonT(30) DEF IsState, MemTakes, MemRec
  <2>3. IsState(t)
    BY <2>2 DEF IsState
  <2> HIDE DEF t
  <2>4. QED
    BY <1>1, <1>3, <2>1, <2>2, <2>3 DEF Done, MemRec
<1>4. CASE ~s.mem[k].isBusy /\ p \notin Posted
  <2> DEFINE t == [s EXCEPT !.mem[k].isBusy = TRUE,
                            !.mem[k].packetQueue = Append(@, p),
                            !.mem[k].dequeueEvent = @ \/ ~s.mem[k].retryResp]
  <2>1. memRecvTimingReq(s, k, p) = Done(t)
    BY <1>4 DEF memRecvTimingReq
  <2>2. /\ t.sender = s.sender /\ t.layer = s.layer /\ t.bridge = s.bridge
        /\ t.mem = MemTakes(s.mem, k, p)
    BY <1>1, <1>4, ZenonT(30) DEF IsState, MemTakes, MemRec
  <2>3. t.mem \in [Memory -> MemRec]
    <3>1. Append(s.mem[k].packetQueue, p) \in Seq(Pkt)
      BY <1>1, AppendLine, ZenonT(30) DEF MemRec
    <3>2. QED
      BY <1>1, <1>4, <2>2, <3>1, ZenonT(30) DEF IsState, MemRec, MemTakes
  <2>4. IsState(t)
    BY <2>2, <2>3, ZenonT(30) DEF IsState
  <2> HIDE DEF t
  <2>5. QED
    BY <1>1, <1>4, <2>1, <2>2, <2>4 DEF Done, MemRec
<1>5. QED
  BY <1>1, <1>2, <1>3, <1>4, ZenonT(30) DEF MemRec

\* What the bridge becomes when it takes request p, and when it has no room.
BridgeTakes(B, p) ==
    [B EXCEPT !.outstandingResponses = @ + (IF p \in Posted THEN 0 ELSE 1),
              !.reqs = Append(@, p), !.reqEvent = @ \/ B.reqs = <<>>]

BridgeRefuses(B) == [B EXCEPT !.retryReq = TRUE]

BridgeFull(B, p) ==
    \/ Len(B.reqs) = reqQueueLimit
    \/ p \notin Posted /\ B.outstandingResponses = respQueueLimit

\* BridgeSlavePort::recvTimingReq takes a request if there is room for it.
LEMMA BridgeRecv ==
    ASSUME NEW s, IsState(s), NEW p \in Pkt
    PROVE  LET r == bridgeRecvTimingReq(s, p)
           IN  /\ (r.ok <=> ~BridgeFull(s.bridge, p)) /\ IsState(r.s)
               /\ r.s.sender = s.sender /\ r.s.layer = s.layer /\ r.s.mem = s.mem
               /\ r.s.bridge = IF r.ok THEN BridgeTakes(s.bridge, p) ELSE BridgeRefuses(s.bridge)
<1> DEFINE u == assert(s, ~s.bridge.retryReq)
<1>1. SameFlow(s, u)
  BY AssertFlow
<1>2. s.bridge \in BridgeRec
  BY DEF IsState
<1> HIDE DEF u
<1>3. CASE BridgeFull(s.bridge, p)
  <2> DEFINE t == [u EXCEPT !.bridge.retryReq = TRUE]
  <2>1. bridgeRecvTimingReq(s, p) = Refused(t)
    BY <1>3, ZenonT(30) DEF bridgeRecvTimingReq, BridgeFull, u
  <2>2. /\ t.sender = s.sender /\ t.layer = s.layer /\ t.mem = s.mem
        /\ t.bridge = BridgeRefuses(s.bridge) /\ t.bridge \in BridgeRec
    BY <1>1, <1>2, ZenonT(30) DEF SameFlow, IsState, BridgeRefuses, BridgeRec
  <2>3. IsState(t)
    BY <1>1, <2>2 DEF IsState, SameFlow
  <2> HIDE DEF t
  <2>4. QED
    BY <1>3, <2>1, <2>2, <2>3 DEF Refused, BridgeFull
<1>4. CASE ~BridgeFull(s.bridge, p)
  <2> DEFINE t == [u EXCEPT !.bridge.outstandingResponses = @ + (IF p \in Posted THEN 0 ELSE 1),
                            !.bridge.reqs = Append(@, p),
                            !.bridge.reqEvent = @ \/ s.bridge.reqs = <<>>]
  <2>1. bridgeRecvTimingReq(s, p) = Done(t)
    BY <1>4, ZenonT(30) DEF bridgeRecvTimingReq, BridgeFull, u
  <2>2. /\ t.sender = s.sender /\ t.layer = s.layer /\ t.mem = s.mem
        /\ t.bridge = BridgeTakes(s.bridge, p)
    BY <1>1, <1>2 DEF SameFlow, IsState, BridgeTakes, BridgeRec
  <2>3. t.bridge \in BridgeRec
    <3> DEFINE n == s.bridge.outstandingResponses + (IF p \in Posted THEN 0 ELSE 1)
               q == Append(s.bridge.reqs, p)
               e == s.bridge.reqEvent \/ s.bridge.reqs = <<>>
    <3>1. q \in Seq(Pkt)
      BY <1>2, AppendLine DEF BridgeRec
    <3>2. n \in Int /\ e \in BOOLEAN
      BY <1>2 DEF BridgeRec
    <3>3. t.bridge = [s.bridge EXCEPT !.outstandingResponses = n, !.reqs = q, !.reqEvent = e]
      BY <2>2 DEF BridgeTakes
    <3> HIDE DEF n, q, e, t
    <3>4. QED
      BY <1>2, <3>1, <3>2, <3>3, ZenonT(30) DEF BridgeRec
  <2>4. IsState(t)
    BY <1>1, <2>2, <2>3, ZenonT(30) DEF IsState, SameFlow
  <2> HIDE DEF t
  <2>5. QED
    BY <1>4, <2>1, <2>2, <2>4 DEF Done, BridgeFull
<1>5. QED
  BY <1>3, <1>4, ZenonT(30)


-----------------------------------------------------------------------------
\* What becomes of the layers when x waits for layer l, passes it, or passes it
\* and is refused by the port behind it.
LayerWaits(L, l, x) == [L EXCEPT ![l].waitingForLayer = Append(@, x)]
LayerPassed(L, l) == [L EXCEPT ![l].state = "BUSY"]
LayerStalls(L, l, x) == [L EXCEPT ![l].state = "BUSY", ![l].waitingForPeer = x]

PortTakes(s, t, l, p) ==
    IF l = "bridge"
    THEN ~BridgeFull(s.bridge, p) /\ t.bridge = BridgeTakes(s.bridge, p) /\ t.mem = s.mem
    ELSE ~s.mem[l].isBusy /\ t.mem = MemTakes(s.mem, l, p) /\ t.bridge = s.bridge

PortRefuses(s, t, l, p) ==
    IF l = "bridge"
    THEN BridgeFull(s.bridge, p) /\ t.bridge = BridgeRefuses(s.bridge) /\ t.mem = s.mem
    ELSE s.mem[l].isBusy /\ t.mem = MemRefuses(s.mem, l) /\ t.bridge = s.bridge

\* The three outcomes of sending request p from state s.
ReqWaits(s, t, p) ==
    /\ Taken(s, to[p])
    /\ t.layer = LayerWaits(s.layer, to[p], from[p]) /\ t.bridge = s.bridge /\ t.mem = s.mem

ReqStalls(s, t, p) ==
    /\ ~Taken(s, to[p])
    /\ t.layer = LayerStalls(s.layer, to[p], from[p]) /\ PortRefuses(s, t, to[p], p)

ReqPasses(s, t, p) ==
    /\ ~Taken(s, to[p])
    /\ t.layer = LayerPassed(s.layer, to[p]) /\ PortTakes(s, t, to[p], p)

\* The near memory has refused nobody while its layer is free.
NearFree(s) == ~Taken(s, "near") => ~s.mem["near"].retryReq

\* The port behind layer l takes request p or refuses it.
LEMMA PortRecv ==
    ASSUME NEW s, IsState(s), NEW l \in Port, NEW p \in Pkt,
           l = "near" => ~s.mem["near"].retryReq
    PROVE  LET r == portRecvTimingReq(s, l, p)
           IN  /\ IsState(r.s) /\ r.s.sender = s.sender /\ r.s.layer = s.layer
               /\ r.ok => PortTakes(s, r.s, l, p)
               /\ ~r.ok => PortRefuses(s, r.s, l, p)
<1>1. CASE l = "bridge"
  BY <1>1, BridgeRecv, ZenonT(30) DEF portRecvTimingReq, PortTakes, PortRefuses
<1>2. CASE l = "near"
  <2>1. "near" \in Memory
    BY DEF Memory
  <2>2. portRecvTimingReq(s, l, p) = memRecvTimingReq(s, "near", p)
    BY <1>2 DEF portRecvTimingReq
  <2>3. QED
    BY <1>2, <2>1, <2>2, MemRecv DEF PortTakes, PortRefuses
<1>3. QED
  BY <1>1, <1>2, ZenonT(30) DEF Port

\* The updates of a layer give layers again.
LEMMA LayerUpdates ==
    ASSUME NEW L \in [Layers -> LayerRec], NEW l \in Layers, NEW x \in Port \cup Sender
    PROVE  /\ LayerWaits(L, l, x) \in [Layers -> LayerRec]
           /\ LayerPassed(L, l) \in [Layers -> LayerRec]
           /\ x \in Sender => LayerStalls(L, l, x) \in [Layers -> LayerRec]
<1>1. L[l] \in LayerRec
  OBVIOUS
<1>2. Append(L[l].waitingForLayer, x) \in Seq(Port \cup Sender)
  BY <1>1, AppendLine DEF LayerRec
<1> DEFINE q == Append(L[l].waitingForLayer, x)
<1>3. LayerWaits(L, l, x) = [L EXCEPT ![l].waitingForLayer = q]
  BY DEF LayerWaits
<1> HIDE DEF q
<1>4. LayerWaits(L, l, x) \in [Layers -> LayerRec]
  BY <1>1, <1>2, <1>3, ZenonT(30) DEF LayerRec, q
<1>5. LayerPassed(L, l) \in [Layers -> LayerRec]
  BY <1>1, ZenonT(30) DEF LayerRec, LayerPassed, States
<1>6. ASSUME x \in Sender PROVE LayerStalls(L, l, x) \in [Layers -> LayerRec]
  BY <1>1, <1>6, ZenonT(30) DEF LayerRec, LayerStalls, States
<1>7. QED
  BY <1>4, <1>5, <1>6

\* NoncoherentXBar::recvTimingReq has one of the three outcomes.
LEMMA XbarRecv ==
    ASSUME NEW s, IsState(s), NEW p \in Pkt, NearFree(s)
    PROVE  LET r == recvTimingReq(s, p)
           IN  /\ IsState(r.s) /\ r.s.sender = s.sender
               /\ r.ok => ReqPasses(s, r.s, p)
               /\ ~r.ok => ReqWaits(s, r.s, p) \/ ReqStalls(s, r.s, p)
<1> DEFINE l == to[p]
           m == from[p]
           o == Occupy(s, l)
           r == portRecvTimingReq(o, l, p)
<1>1. l \in Port /\ l \in Layers /\ m \in Sender
  BY PathAssumption DEF Layers
<1>2. s.layer \in [Layers -> LayerRec]
  BY DEF IsState
<1>3. CASE Taken(s, l)
  <2> DEFINE u == assert(s, ~Contains(s.layer[l].waitingForLayer, m))
             t == [u EXCEPT !.layer[l].waitingForLayer = Append(@, m)]
  <2>1. recvTimingReq(s, p) = Refused(t)
    BY <1>3, ZenonT(30) DEF recvTimingReq, Enqueue
  <2>2. SameFlow(s, u)
    BY AssertFlow
  <2> HIDE DEF u
  <2>3. t.layer = LayerWaits(s.layer, l, m) /\ t.sender = s.sender
        /\ t.bridge = s.bridge /\ t.mem = s.mem /\ DOMAIN t = DOMAIN u
    BY <2>2 DEF SameFlow, IsState, LayerWaits
  <2> HIDE DEF t
  <2>4. IsState(t)
    BY <1>1, <1>2, <2>2, <2>3, LayerUpdates DEF SameFlow, IsState
  <2>5. ReqWaits(s, t, p)
    BY <1>3, <2>3 DEF ReqWaits
  <2>6. QED
    BY <2>1, <2>3, <2>4, <2>5 DEF Refused
<1>4. CASE ~Taken(s, l)
  <2>1. o.layer = LayerPassed(s.layer, l) /\ o.sender = s.sender
        /\ o.bridge = s.bridge /\ o.mem = s.mem /\ DOMAIN o = DOMAIN s
    BY <1>2 DEF IsState, LayerPassed, Occupy
  <2>2. IsState(o)
    BY <1>1, <1>2, <2>1, LayerUpdates, ZenonT(30) DEF IsState
  <2>3. l = "near" => ~o.mem["near"].retryReq
    BY <1>4, <2>1, ZenonT(30) DEF NearFree
  <2> HIDE DEF o
  <2>4. /\ IsState(r.s) /\ r.s.sender = o.sender /\ r.s.layer = o.layer
        /\ r.ok => PortTakes(o, r.s, l, p)
        /\ ~r.ok => PortRefuses(o, r.s, l, p)
    BY <1>1, <2>2, <2>3, PortRecv, ZenonT(30)
  <2>5. /\ r.ok => PortTakes(s, r.s, l, p)
        /\ ~r.ok => PortRefuses(s, r.s, l, p)
    BY <2>1, <2>4, ZenonT(30) DEF PortTakes, PortRefuses
  <2>6. recvTimingReq(s, p) =
          IF ~r.ok THEN Refused(failedTiming(r.s, l, m))
          ELSE IF p \in Posted THEN r
          ELSE Done([assert(r.s, p \notin r.s.routeTo) EXCEPT !.routeTo = @ \cup {p}])
    BY <1>4, ZenonT(30) DEF recvTimingReq, o
  <2> HIDE DEF r
  <2>7. CASE ~r.ok
    <3> DEFINE u == assert(r.s, r.s.layer[l].waitingForPeer = NULL /\ r.s.layer[l].state = "BUSY")
               t == [u EXCEPT !.layer[l].waitingForPeer = m]
    <3>1. recvTimingReq(s, p) = Refused(t)
      BY <2>6, <2>7, ZenonT(30) DEF failedTiming
    <3>2. SameFlow(r.s, u)
      BY <2>4, AssertFlow, ZenonT(30)
    <3> HIDE DEF u
    <3>3. t.layer = [r.s.layer EXCEPT ![l].waitingForPeer = m] /\ t.sender = s.sender
          /\ t.bridge = r.s.bridge /\ t.mem = r.s.mem /\ DOMAIN t = DOMAIN u
      BY <2>1, <2>4, <3>2, ZenonT(30) DEF SameFlow, IsState
    <3> HIDE DEF t
    <3>4. t.layer = LayerStalls(s.layer, l, m)
      BY <1>1, <1>2, <2>1, <2>4, <3>3, ZenonT(30) DEF LayerStalls, LayerPassed, LayerRec
    <3>5. IsState(t)
      <4>1. t.layer \in [Layers -> LayerRec]
        BY <1>1, <1>2, <3>4, LayerUpdates
      <4>2. QED
        BY <2>4, <3>2, <3>3, <4>1, ZenonT(30) DEF SameFlow, IsState
    <3>6. ReqStalls(s, t, p)
      BY <1>4, <2>5, <2>7, <3>3, <3>4, ZenonT(30) DEF ReqStalls, PortRefuses
    <3>7. QED
      BY <3>1, <3>3, <3>5, <3>6 DEF Refused
  <2>8. CASE r.ok /\ p \in Posted
    <3>1. recvTimingReq(s, p) = r
      BY <2>6, <2>8
    <3>2. ReqPasses(s, r.s, p)
      BY <1>4, <2>1, <2>4, <2>5, <2>8, ZenonT(30) DEF ReqPasses
    <3>3. QED
      BY <2>1, <2>4, <2>8, <3>1, <3>2, ZenonT(30)
  <2>9. CASE r.ok /\ p \notin Posted
    <3> DEFINE u == assert(r.s, p \notin r.s.routeTo)
               t == [u EXCEPT !.routeTo = @ \cup {p}]
    <3>1. recvTimingReq(s, p) = Done(t)
      BY <2>6, <2>9, ZenonT(30)
    <3>2. SameFlow(r.s, u)
      BY <2>4, AssertFlow, ZenonT(30)
    <3> HIDE DEF u
    <3>3. SameFlow(r.s, t)
      BY <3>2, ZenonT(30) DEF SameFlow, IsState
    <3> HIDE DEF t
    <3>4. ReqPasses(s, t, p)
      BY <1>4, <2>1, <2>4, <2>5, <2>9, <3>3, ZenonT(30) DEF ReqPasses, PortTakes, SameFlow
    <3>5. QED
      BY <2>1, <2>4, <3>1, <3>3, <3>4 DEF Done, SameFlow
  <2>10. QED
    BY <2>7, <2>8, <2>9, ZenonT(30)
<1>5. QED
  BY <1>3, <1>4, ZenonT(30)


-----------------------------------------------------------------------------
\* What becomes of the senders when m's first packet is sent or refused.
SenderSends(A, m) == [A EXCEPT ![m].queue = Tail(@), ![m].sendEvent = Tail(A[m].queue) # <<>>]
SenderWaits(A, m) == [A EXCEPT ![m].waitingOnRetry = TRUE]

\* s and t agree behind the senders.
SamePath(s, t) == t.layer = s.layer /\ t.bridge = s.bridge /\ t.mem = s.mem

\* The outcomes depend on the path behind the senders only.
LEMMA ReqSame ==
    ASSUME NEW s, NEW s1, NEW t, NEW t1, NEW p, SamePath(s, s1), SamePath(t, t1)
    PROVE  /\ ReqWaits(s1, t1, p) => ReqWaits(s, t, p)
           /\ ReqStalls(s1, t1, p) => ReqStalls(s, t, p)
           /\ ReqPasses(s1, t1, p) => ReqPasses(s, t, p)
BY DEF SamePath, ReqWaits, ReqStalls, ReqPasses, Taken, PortTakes, PortRefuses

\* PacketQueue::sendDeferredPacket: the first packet leaves or stays.
LEMMA SendDeferred ==
    ASSUME NEW s, IsState(s), NEW m \in Sender, NearFree(s),
           s.sender[m].queue # <<>>, ~s.sender[m].waitingOnRetry
    PROVE  LET t == sendDeferredPacket(s, m)
               p == Head(s.sender[m].queue)
           IN  /\ IsState(t)
               /\ \/ t.sender = SenderSends(s.sender, m) /\ ReqPasses(s, t, p)
                  \/ /\ t.sender = SenderWaits(s.sender, m)
                     /\ ReqWaits(s, t, p) \/ ReqStalls(s, t, p)
<1> DEFINE q == s.sender[m].queue
           p == Head(q)
           u == assert(s, ~s.sender[m].waitingOnRetry)
           s1 == [u EXCEPT !.sender[m].queue = Tail(@)]
           r == recvTimingReq(s1, p)
           left == r.s.sender[m].queue
           sent == [r.s EXCEPT !.sender[m].sendEvent = left # <<>>]
           kept == [r.s EXCEPT !.sender[m].waitingOnRetry = TRUE, !.sender[m].queue = <<p>> \o @]
<1>1. s.sender \in [Sender -> SenderRec] /\ s.sender[m] \in SenderRec /\ q \in Seq(Pkt)
  BY DEF IsState, SenderRec
<1>2. p \in Pkt /\ Tail(q) \in Seq(Pkt) /\ <<p>> \o Tail(q) = q
  BY <1>1, TailLine, ZenonT(30)
<1>3. SameFlow(s, u)
  BY AssertFlow
<1> HIDE DEF u
<1>4. /\ s1.sender = [s.sender EXCEPT ![m].queue = Tail(q)]
      /\ SamePath(s, s1) /\ DOMAIN s1 = DOMAIN u
  BY <1>3 DEF SameFlow, IsState, SamePath
<1> HIDE DEF s1, q
<1>5. s1.sender \in [Sender -> SenderRec]
  BY <1>1, <1>2, <1>4, ZenonT(30) DEF SenderRec
<1>6. IsState(s1)
  BY <1>3, <1>4, <1>5, ZenonT(30) DEF SameFlow, IsState, SamePath
<1>7. NearFree(s1)
  BY <1>4, ZenonT(30) DEF NearFree, Taken, SamePath
<1>8. /\ IsState(r.s) /\ r.s.sender = s1.sender
      /\ r.ok => ReqPasses(s1, r.s, p)
      /\ ~r.ok => ReqWaits(s1, r.s, p) \/ ReqStalls(s1, r.s, p)
  BY <1>2, <1>6, <1>7, XbarRecv, ZenonT(30)
<1>9. sendDeferredPacket(s, m) =
        IF ~r.ok THEN kept
        ELSE IF left = <<>> THEN signalDrainDone(sent, <<"queue", m>>)
        ELSE sent
  BY ZenonT(30) DEF sendDeferredPacket, u, s1, q
<1>10. left = Tail(q)
  BY <1>1, <1>4, <1>8 DEF SenderRec
<1> HIDE DEF r, p
<1>11. CASE ~r.ok
  <2>1. SamePath(r.s, kept) /\ DOMAIN kept = DOMAIN r.s
        /\ kept.sender = [r.s.sender EXCEPT ![m].waitingOnRetry = TRUE, ![m].queue = <<p>> \o @]
    BY <1>8, ZenonT(30) DEF IsState, SamePath
  <2>2. kept.sender = SenderWaits(s.sender, m)
    <3> DEFINE A == s.sender
               A1 == s1.sender
    <3>1. <<p>> \o A1[m].queue = q
      BY <1>1, <1>2, <1>4, ZenonT(30) DEF SenderRec
    <3>2. kept.sender = [A1 EXCEPT ![m].waitingOnRetry = TRUE, ![m].queue = q]
      BY <1>5, <1>8, <2>1, <3>1, ZenonT(30) DEF SenderRec
    <3>3. A1 = [A EXCEPT ![m].queue = Tail(q)] /\ A[m].queue = q /\ A \in [Sender -> SenderRec]
      BY <1>1, <1>4, ZenonT(30) DEF q
    <3> HIDE DEF A, A1, kept
    <3>4. kept.sender = [A EXCEPT ![m].waitingOnRetry = TRUE]
      BY <3>2, <3>3, ZenonT(30) DEF SenderRec
    <3>5. QED
      BY <3>4 DEF A, SenderWaits
  <2> HIDE DEF kept
  <2>3. kept.sender \in [Sender -> SenderRec]
    BY <1>1, <2>2, ZenonT(30) DEF SenderWaits, SenderRec
  <2>4. IsState(kept)
    BY <1>8, <2>1, <2>3, ZenonT(30) DEF IsState, SamePath
  <2>5. ReqWaits(s, kept, p) \/ ReqStalls(s, kept, p)
    <3>1. SamePath(kept, r.s)
      BY <2>1, ZenonT(30) DEF SamePath
    <3>2. QED
      BY <1>4, <1>8, <1>11, <3>1, ReqSame, ZenonT(30)
  <2>6. QED
    BY <1>9, <1>11, <2>2, <2>4, <2>5, ZenonT(30) DEF p, q
<1>12. CASE r.ok
  <2> DEFINE t == sendDeferredPacket(s, m)
  <2>1. SamePath(r.s, sent) /\ DOMAIN sent = DOMAIN r.s
        /\ sent.sender = [r.s.sender EXCEPT ![m].sendEvent = Tail(q) # <<>>]
    BY <1>8, <1>10, ZenonT(30) DEF IsState, SamePath
  <2>2. sent.sender = SenderSends(s.sender, m)
    BY <1>1, <1>4, <1>8, <2>1, ZenonT(30) DEF SenderSends, SenderRec, q
  <2> HIDE DEF sent, left
  <2>3. sent.sender \in [Sender -> SenderRec]
    <3> DEFINE b == Tail(s.sender[m].queue) # <<>>
               e == Tail(s.sender[m].queue)
    <3>1. b \in BOOLEAN /\ e \in Seq(Pkt) /\ sent.sender = [s.sender EXCEPT ![m].queue = e, ![m].sendEvent = b]
      BY <1>2, <2>2, ZenonT(30) DEF SenderSends, q
    <3> HIDE DEF b, e
    <3>2. QED
      BY <1>1, <3>1, ZenonT(30) DEF SenderRec
  <2>4. IsState(sent)
    BY <1>8, <2>1, <2>3, ZenonT(30) DEF IsState, SamePath
  <2>5. SameFlow(sent, t)
    <3>1. SameFlow(sent, sent)
      BY <2>4 DEF SameFlow
    <3>2. QED
      BY <1>9, <1>12, <2>4, <3>1, SignalFlow, ZenonT(30)
  <2> HIDE DEF t
  <2>6. ReqPasses(s, t, p)
    <3>1. SamePath(t, r.s)
      BY <2>1, <2>5, ZenonT(30) DEF SamePath, SameFlow
    <3>2. QED
      BY <1>4, <1>8, <1>12, <3>1, ReqSame, ZenonT(30)
  <2>7. QED
    BY <2>2, <2>5, <2>6, ZenonT(30) DEF SameFlow, p, q, t
<1>13. QED
  BY <1>11, <1>12, ZenonT(30)


-----------------------------------------------------------------------------
\* From L to L2, x has joined the line at layer l and nothing else changed.
Joins(L, L2, x, l) ==
    \A y \in Port \cup Sender, k \in Layers : In(L2, y, k) <=> In(L, y, k) \/ (y = x /\ k = l)

SameLines(L, L2) == \A y \in Port \cup Sender, k \in Layers : In(L2, y, k) <=> In(L, y, k)

\* Who may be in line at layer l.
Callers(l) == IF l \in Port THEN Sender ELSE Port

\* A layer makes x wait at the end of its line.
LEMMA WaitsLine ==
    ASSUME NEW L \in [Layers -> LayerRec], \A k \in Layers : LineOK(L, k),
           NEW l \in Layers, NEW x \in Callers(l), ~In(L, x, l)
    PROVE  LET L2 == LayerWaits(L, l, x)
           IN  /\ \A k \in Layers : LineOK(L2, k)
               /\ Joins(L, L2, x, l)
               /\ \A k \in Layers : /\ L2[k].state = L[k].state
                                    /\ L2[k].waitingForPeer = L[k].waitingForPeer
               /\ \A k \in Layers \ {l} : L2[k] = L[k]
<1> DEFINE L2 == LayerWaits(L, l, x)
           q == L[l].waitingForLayer
           q2 == Append(q, x)
<1>1. L[l] \in LayerRec /\ q \in Seq(Port \cup Sender) /\ x \in Port \cup Sender
  BY DEF LayerRec, Callers
<1>2. /\ \A y : Contains(q2, y) <=> Contains(q, y) \/ y = x
      /\ IsInjective(q) /\ ~Contains(q, x) => IsInjective(q2)
  BY <1>1, AppendLine
<1>3. /\ L2[l].waitingForLayer = q2
      /\ \A k \in Layers : L2[k].state = L[k].state /\ L2[k].waitingForPeer = L[k].waitingForPeer
      /\ \A k \in Layers \ {l} : L2[k] = L[k]
  BY <1>1, ZenonT(30) DEF LayerWaits, LayerRec
<1> HIDE DEF L2, q2
<1>4. LineOK(L2, l)
  BY <1>2, <1>3 DEF LineOK, In, Callers
<1>5. \A k \in Layers : LineOK(L2, k)
  BY <1>3, <1>4 DEF LineOK
<1>6. Joins(L, L2, x, l)
  BY <1>2, <1>3, ZenonT(30) DEF Joins, In
<1>7. QED
  BY <1>3, <1>5, <1>6, ZenonT(30) DEF L2

\* A layer lets something pass.
LEMMA PassedLine ==
    ASSUME NEW L \in [Layers -> LayerRec], \A k \in Layers : LineOK(L, k), NEW l \in Layers
    PROVE  LET L2 == LayerPassed(L, l)
           IN  /\ \A k \in Layers : LineOK(L2, k)
               /\ SameLines(L, L2)
               /\ \A k \in Layers : /\ L2[k].waitingForLayer = L[k].waitingForLayer
                                    /\ L2[k].waitingForPeer = L[k].waitingForPeer
               /\ \A k \in Layers \ {l} : L2[k] = L[k]
               /\ L2[l].state = "BUSY"
<1> DEFINE L2 == LayerPassed(L, l)
<1>1. L[l] \in LayerRec
  OBVIOUS
<1>2. /\ \A k \in Layers : /\ L2[k].waitingForLayer = L[k].waitingForLayer
                           /\ L2[k].waitingForPeer = L[k].waitingForPeer
      /\ \A k \in Layers \ {l} : L2[k] = L[k]
      /\ L2[l].state = "BUSY"
  BY <1>1 DEF LayerPassed, LayerRec
<1> HIDE DEF L2
<1>3. \A k \in Layers : LineOK(L2, k)
  BY <1>2, ZenonT(30) DEF LineOK
<1>4. SameLines(L, L2)
  BY <1>2 DEF SameLines, In
<1>5. QED
  BY <1>2, <1>3, <1>4, ZenonT(30) DEF L2

\* A layer lets x pass, which the port behind it refuses.
LEMMA StallsLine ==
    ASSUME NEW L \in [Layers -> LayerRec], \A k \in Layers : LineOK(L, k),
           NEW l \in Port, NEW x \in Sender, ~In(L, x, l), L[l].waitingForPeer = NULL
    PROVE  LET L2 == LayerStalls(L, l, x)
           IN  /\ \A k \in Layers : LineOK(L2, k)
               /\ Joins(L, L2, x, l)
               /\ \A k \in Layers \ {l} : L2[k] = L[k]
               /\ L2[l].state = "BUSY" /\ L2[l].waitingForPeer = x
<1> DEFINE L2 == LayerStalls(L, l, x)
<1>1. l \in Layers /\ L[l] \in LayerRec /\ l \notin Sender /\ NULL \notin Port \cup Sender
  BY PathAssumption DEF Layers
<1>2. /\ L2[l].waitingForLayer = L[l].waitingForLayer
      /\ L2[l].state = "BUSY" /\ L2[l].waitingForPeer = x
      /\ \A k \in Layers \ {l} : L2[k] = L[k]
  BY <1>1 DEF LayerStalls, LayerRec
<1> HIDE DEF L2
<1>3. LineOK(L2, l)
  BY <1>1, <1>2, ZenonT(30) DEF LineOK, In
<1>4. \A k \in Layers : LineOK(L2, k)
  BY <1>2, <1>3, ZenonT(30) DEF LineOK
<1>5. Joins(L, L2, x, l)
  BY <1>1, <1>2, ZenonT(30) DEF Joins, In
<1>6. QED
  BY <1>2, <1>4, <1>5, ZenonT(30) DEF L2


-----------------------------------------------------------------------------
\* A memory that takes or refuses a request stays consistent, owes what it owed
\* or one retry more, and sends the same response first.
LEMMA MemAfter ==
    ASSUME NEW M \in [Memory -> MemRec], \A k \in Memory : MemOK(M, k),
           NEW j \in Memory, NEW p \in Pkt
    PROVE  /\ LET M2 == MemTakes(M, j, p)
              IN  /\ \A k \in Memory : MemOK(M2, k)
                  /\ \A k \in Memory : /\ M2[k].retryReq = M[k].retryReq
                                       /\ M2[k].retryResp = M[k].retryResp
                                       /\ M[k].retryResp => Head(M2[k].packetQueue) = Head(M[k].packetQueue)
           /\ M[j].isBusy =>
              LET M2 == MemRefuses(M, j)
              IN  /\ \A k \in Memory : MemOK(M2, k)
                  /\ M2[j].retryReq
                  /\ \A k \in Memory : /\ k # j => M2[k].retryReq = M[k].retryReq
                                       /\ M2[k].retryResp = M[k].retryResp
                                       /\ M2[k].packetQueue = M[k].packetQueue
<1>1. M[j] \in MemRec /\ M[j].packetQueue \in Seq(Pkt)
  BY DEF MemRec
<1> DEFINE q == M[j].packetQueue
           q2 == Append(q, p)
<1>2. q2 # <<>> /\ Head(q2) = IF q = <<>> THEN p ELSE Head(q)
  BY <1>1, AppendLine
<1> DEFINE M2 == MemTakes(M, j, p)
<1>3. /\ M2[j].isBusy /\ M2[j].retryReq = M[j].retryReq /\ M2[j].retryResp = M[j].retryResp
      /\ \A k \in Memory \ {j} : M2[k] = M[k]
      /\ \/ M2[j].packetQueue = q /\ M2[j].dequeueEvent = M[j].dequeueEvent
         \/ M2[j].packetQueue = q2 /\ (M2[j].dequeueEvent <=> M[j].dequeueEvent \/ ~M[j].retryResp)
  BY <1>1, ZenonT(30) DEF MemTakes, MemRec
<1> HIDE DEF M2, q2
<1>4. MemOK(M2, j)
  BY <1>1, <1>2, <1>3, ZenonT(30) DEF MemOK, MemRec
<1>5. \A k \in Memory : MemOK(M2, k)
  BY <1>3, <1>4 DEF MemOK
<1>6. M[j].retryResp => Head(M2[j].packetQueue) = Head(q)
  BY <1>2, <1>3, ZenonT(30) DEF MemOK
<1>7. \A k \in Memory : /\ M2[k].retryReq = M[k].retryReq
                        /\ M2[k].retryResp = M[k].retryResp
                        /\ M[k].retryResp => Head(M2[k].packetQueue) = Head(M[k].packetQueue)
  BY <1>3, <1>6, ZenonT(30)
<1>8. ASSUME M[j].isBusy
      PROVE  LET M3 == MemRefuses(M, j)
             IN  /\ \A k \in Memory : MemOK(M3, k)
                 /\ M3[j].retryReq
                 /\ \A k \in Memory : /\ k # j => M3[k].retryReq = M[k].retryReq
                                      /\ M3[k].retryResp = M[k].retryResp
                                      /\ M3[k].packetQueue = M[k].packetQueue
  BY <1>1, <1>8, ZenonT(30) DEF MemRefuses, MemRec, MemOK
<1>9. QED
  BY <1>5, <1>7, <1>8, ZenonT(30) DEF M2

\* The same for the bridge.
LEMMA BridgeAfter ==
    ASSUME NEW B \in BridgeRec, NEW M \in [Memory -> MemRec], BridgeReqOK(B, M), StallOK(B),
           NEW p \in Pkt
    PROVE  /\ LET B2 == BridgeTakes(B, p)
              IN  /\ BridgeReqOK(B2, M) /\ StallOK(B2) /\ B2.retryReq = B.retryReq
                  /\ B2.resps = B.resps /\ B2.respEvent = B.respEvent
           /\ BridgeFull(B, p) =>
              LET B2 == BridgeRefuses(B)
              IN  /\ BridgeReqOK(B2, M) /\ StallOK(B2) /\ B2.retryReq
                  /\ B2.resps = B.resps /\ B2.respEvent = B.respEvent
<1> DEFINE B2 == BridgeTakes(B, p)
           q == Append(B.reqs, p)
<1>1. B.reqs \in Seq(Pkt) /\ q # <<>> /\ "far" \in Memory
  BY AppendLine DEF BridgeRec, Memory
<1>2. /\ B2.reqs = q /\ (B2.reqEvent <=> B.reqEvent \/ B.reqs = <<>>)
      /\ B2.retryReq = B.retryReq /\ B2.resps = B.resps /\ B2.respEvent = B.respEvent
  BY ZenonT(30) DEF BridgeTakes, BridgeRec
<1> HIDE DEF B2, q
<1>3. BridgeReqOK(B2, M)
  BY <1>1, <1>2, ZenonT(30) DEF BridgeReqOK, BridgeRec, MemRec
<1>4. StallOK(B2)
  BY <1>1, <1>2 DEF StallOK
<1>5. ASSUME BridgeFull(B, p)
      PROVE  LET B3 == BridgeRefuses(B)
             IN  /\ BridgeReqOK(B3, M) /\ StallOK(B3) /\ B3.retryReq
                 /\ B3.resps = B.resps /\ B3.respEvent = B.respEvent
  <2>1. reqQueueLimit > 0 /\ respQueueLimit > 0
    BY PathAssumption
  <2>2. B.reqs # <<>> \/ B.outstandingResponses > 0
    BY <1>1, <1>5, <2>1 DEF BridgeFull
  <2>3. QED
    BY <2>2 DEF BridgeRefuses, BridgeRec, BridgeReqOK, StallOK
<1>6. QED
  BY <1>2, <1>3, <1>4, <1>5, ZenonT(30) DEF B2

-----------------------------------------------------------------------------
\* m is about to send its first packet: it has no event and is in no line.
InHand(A, L, m) ==
    /\ A[m].queue # <<>> /\ ~A[m].sendEvent /\ ~A[m].waitingOnRetry
    /\ \A p : Contains(A[m].queue, p) => from[p] = m
    /\ \A d \in Port : ~In(L, m, d)

\* Layer l has been freed for the first in its line.
Ready(L, l) == L[l].state = "RETRY" /\ L[l].waitingForPeer = NULL

Rest(s) ==
    /\ PeersOK(s.layer, s.bridge, s.mem)
    /\ \A k \in Memory : MemOK(s.mem, k)
    /\ BridgeReqOK(s.bridge, s.mem) /\ StallOK(s.bridge)
    /\ BridgeRespOK(s.layer, s.bridge) /\ NearRespOK(s.layer, s.mem)

Sending(s, m) ==
    /\ IsState(s)
    /\ \A l \in Layers : LineOK(s.layer, l)
    /\ \A l \in Layers : Owed(s.layer, l)
                         \/ (l = to[Head(s.sender[m].queue)] /\ Ready(s.layer, l))
    /\ InHand(s.sender, s.layer, m)
    /\ \A n \in Sender \ {m} : SenderOK(s.sender, s.layer, n)
    /\ Rest(s)

\* Responses are where they were when sender m joins the line of a port.
LEMMA RespsWaitOn ==
    ASSUME NEW L, NEW L2, NEW m \in Sender, NEW l \in Port, NEW B, NEW B2, NEW M, NEW M2,
           Joins(L, L2, m, l) \/ SameLines(L, L2),
           B2.resps = B.resps, B2.respEvent = B.respEvent,
           M2["near"].retryResp = M["near"].retryResp,
           M["near"].retryResp => Head(M2["near"].packetQueue) = Head(M["near"].packetQueue),
           BridgeRespOK(L, B), NearRespOK(L, M)
    PROVE  BridgeRespOK(L2, B2) /\ NearRespOK(L2, M2)
<1>1. \A n \in Sender, d \in Port : In(L2, d, n) <=> In(L, d, n)
  BY PathAssumption, ZenonT(30) DEF Joins, SameLines, Layers
<1>2. "near" \in Port /\ "bridge" \in Port
  BY DEF Port
<1>3. QED
  BY <1>1, <1>2, ZenonT(30) DEF BridgeRespOK, NearRespOK


\* The lines that make up the requests' side stay in order when m is refused.
LEMMA SenderRefused ==
    ASSUME NEW A \in [Sender -> SenderRec], NEW L, NEW L2, NEW m \in Sender,
           InHand(A, L, m), Joins(L, L2, m, to[Head(A[m].queue)]),
           \A n \in Sender \ {m} : SenderOK(A, L, n)
    PROVE  \A n \in Sender : SenderOK(SenderWaits(A, m), L2, n)
<1> DEFINE A2 == SenderWaits(A, m)
           l == to[Head(A[m].queue)]
<1>1. A[m] \in SenderRec
  BY SMTT(30)
<1>2. Head(A[m].queue) \in Pkt /\ l \in Port
  BY <1>1, TailLine, PathAssumption DEF InHand, SenderRec
<1>3. /\ A2[m].queue = A[m].queue /\ A2[m].sendEvent = A[m].sendEvent /\ A2[m].waitingOnRetry
      /\ \A n \in Sender \ {m} : A2[n] = A[n]
  BY <1>1, SMTT(30) DEF SenderWaits, SenderRec
<1> HIDE DEF A2
<1>4. \A n \in Sender \ {m} : SenderOK(A2, L2, n)
  <2>1. \A n \in Sender \ {m}, d \in Port : In(L2, n, d) <=> In(L, n, d)
    BY DEF Joins, Layers
  <2>2. QED
    BY <1>3, <2>1 DEF SenderOK
<1>5. \A d \in Port : In(L2, m, d) <=> d = l
  BY ZenonT(30) DEF Joins, InHand, Layers
<1>6. SenderOK(A2, L2, m)
  BY <1>3, <1>5, ZenonT(30) DEF SenderOK, InHand
<1>7. QED
  BY <1>4, <1>6, ZenonT(30) DEF A2

\* And when its packet passes.
LEMMA SenderPassed ==
    ASSUME NEW A \in [Sender -> SenderRec], NEW L, NEW L2, NEW m \in Sender,
           InHand(A, L, m), SameLines(L, L2),
           \A n \in Sender \ {m} : SenderOK(A, L, n)
    PROVE  \A n \in Sender : SenderOK(SenderSends(A, m), L2, n)
<1> DEFINE A2 == SenderSends(A, m)
           q == Tail(A[m].queue)
           e == Tail(A[m].queue) # <<>>
<1>1. A[m] \in SenderRec
  OBVIOUS
<1>2. \A p : Contains(q, p) => Contains(A[m].queue, p)
  <2>1. A[m].queue \in Seq(Pkt) /\ A[m].queue # <<>>
    BY <1>1 DEF InHand, SenderRec
  <2>2. QED
    BY <2>1, TailLine, ZenonT(30)
<1>3. A2 = [A EXCEPT ![m].queue = q, ![m].sendEvent = e]
  BY DEF SenderSends
<1>4. e \in BOOLEAN /\ (e <=> q # <<>>)
  OBVIOUS
<1> HIDE DEF A2, q, e
<1>5. /\ A2[m].queue = q /\ A2[m].sendEvent = e
      /\ A2[m].waitingOnRetry = A[m].waitingOnRetry
      /\ \A n \in Sender \ {m} : A2[n] = A[n]
  BY <1>1, <1>3, ZenonT(30) DEF SenderRec
<1>6. \A n \in Sender \ {m} : SenderOK(A2, L2, n)
  <2>1. \A n \in Sender \ {m}, d \in Port : In(L2, n, d) <=> In(L, n, d)
    BY DEF SameLines, Layers
  <2>2. QED
    BY <1>5, <2>1 DEF SenderOK
<1>7. \A d \in Port : ~In(L2, m, d)
  BY DEF SameLines, InHand, Layers
<1>8. SenderOK(A2, L2, m)
  <2>1. /\ ~A2[m].waitingOnRetry /\ A2[m].waitingOnRetry \in BOOLEAN
        /\ \A p : Contains(A2[m].queue, p) => from[p] = m
    BY <1>1, <1>2, <1>5, ZenonT(30) DEF InHand, SenderRec
  <2>2. (A2[m].queue # <<>>) <=> (A2[m].sendEvent # A2[m].waitingOnRetry)
    BY <1>5, <1>4, <2>1, ZenonT(30)
  <2>3. QED
    BY <1>7, <2>1, <2>2, ZenonT(30) DEF SenderOK
<1>9. QED
  BY <1>6, <1>8, ZenonT(30) DEF A2

\* Sending the first packet of m restores the invariant.
LEMMA SendKeeps ==
    ASSUME NEW s, NEW m \in Sender, Sending(s, m)
    PROVE  Flow(sendDeferredPacket(s, m))
<1> DEFINE t == sendDeferredPacket(s, m)
           p == Head(s.sender[m].queue)
           l == to[p]
           L == s.layer
           L2 == t.layer
<1>1. /\ IsState(s) /\ s.sender \in [Sender -> SenderRec] /\ L \in [Layers -> LayerRec]
      /\ s.bridge \in BridgeRec /\ s.mem \in [Memory -> MemRec]
      /\ s.sender[m] \in SenderRec
  BY ZenonT(30) DEF Sending, IsState
<1>2. /\ p \in Pkt /\ from[p] = m /\ l \in Port /\ l \in Layers
      /\ s.sender[m].queue # <<>> /\ ~s.sender[m].waitingOnRetry
  <2>1. s.sender[m].queue \in Seq(Pkt) /\ s.sender[m].queue # <<>>
    BY <1>1, ZenonT(30) DEF Sending, InHand, SenderRec
  <2>2. p \in Pkt /\ Contains(s.sender[m].queue, p)
    BY <2>1, TailLine, ZenonT(30)
  <2>3. QED
    BY <2>1, <2>2, PathAssumption, ZenonT(30) DEF Sending, InHand, Layers
<1>3. NearFree(s)
  BY ZenonT(30) DEF Sending, Rest, PeersOK, NearFree, Taken
<1>4. /\ IsState(t)
      /\ \/ t.sender = SenderSends(s.sender, m) /\ ReqPasses(s, t, p)
         \/ /\ t.sender = SenderWaits(s.sender, m)
            /\ ReqWaits(s, t, p) \/ ReqStalls(s, t, p)
  BY <1>1, <1>2, <1>3, SendDeferred, ZenonT(30)
<1>5. ~In(L, m, l) /\ m \in Callers(l)
  BY <1>2, ZenonT(30) DEF Sending, InHand, Callers
<1> HIDE DEF t, p
<1>6. CASE t.sender = SenderWaits(s.sender, m) /\ ReqWaits(s, t, p)
  <2>1. /\ \A k \in Layers : LineOK(L2, k)
        /\ Joins(L, L2, m, l)
        /\ \A k \in Layers : /\ L2[k].state = L[k].state
                             /\ L2[k].waitingForPeer = L[k].waitingForPeer
        /\ \A k \in Layers \ {l} : L2[k] = L[k]
    <3>1. L2 = LayerWaits(L, l, m)
      BY <1>2, <1>6, ZenonT(30) DEF ReqWaits
    <3>2. \A k \in Layers : LineOK(L, k)
      BY ZenonT(30) DEF Sending
    <3>3. QED
      BY <1>1, <1>2, <1>5, <3>1, <3>2, WaitsLine
  <2>2. Taken(s, l) /\ t.bridge = s.bridge /\ t.mem = s.mem
    BY <1>6, SMTT(30) DEF ReqWaits
  <2>3. \A k \in Layers : Owed(L2, k)
    <3>1. \A k \in Layers : Owed(L, k)
      BY <1>2, <2>2, ZenonT(30) DEF Sending, Ready, Taken, p
    <3>2. QED
      BY <2>1, <2>2, <3>1 DEF Owed, Taken
  <2>4. \A n \in Sender : SenderOK(t.sender, L2, n)
    BY <1>1, <1>6, <2>1, SenderRefused, ZenonT(30) DEF Sending, p
  <2>5. PeersOK(L2, t.bridge, t.mem)
    <3>1. "near" \in Layers /\ "bridge" \in Layers
      BY DEF Layers, Port
    <3>2. QED
      BY <2>1, <2>2, <3>1, ZenonT(30) DEF Sending, Rest, PeersOK
  <2>6. BridgeRespOK(L2, t.bridge) /\ NearRespOK(L2, t.mem)
    BY <1>2, <2>1, <2>2, RespsWaitOn, ZenonT(30) DEF Sending, Rest
  <2>7. QED
    BY <1>4, <2>1, <2>2, <2>3, <2>4, <2>5, <2>6, ZenonT(30) DEF Flow, Sending, Rest, t
<1>7. CASE t.sender = SenderWaits(s.sender, m) /\ ReqStalls(s, t, p)
  <2>1. ~Taken(s, l) /\ PortRefuses(s, t, l, p) /\ L2 = LayerStalls(L, l, m)
    BY <1>2, <1>7, ZenonT(30) DEF ReqStalls
  <2>2. /\ \A k \in Layers : LineOK(L2, k)
        /\ Joins(L, L2, m, l)
        /\ \A k \in Layers \ {l} : L2[k] = L[k]
        /\ L2[l].state = "BUSY" /\ L2[l].waitingForPeer = m
    <3>1. \A k \in Layers : LineOK(L, k)
      BY ZenonT(30) DEF Sending
    <3>2. QED
      BY <1>1, <1>2, <1>5, <2>1, <3>1, StallsLine, SMTT(30) DEF Taken
  <2>3. \A k \in Layers : Owed(L2, k)
    BY <1>2, <2>2, ZenonT(30) DEF Sending, Owed, p
  <2>4. \A n \in Sender : SenderOK(t.sender, L2, n)
    BY <1>1, <1>7, <2>2, SenderRefused, ZenonT(30) DEF Sending, p
  <2>5. m # NULL /\ "near" \in Layers /\ "bridge" \in Layers /\ "near" \in Memory /\ "near" # "bridge"
    BY PathAssumption DEF Layers, Port, Memory
  <2>6. CASE l = "bridge"
    <3>1. BridgeFull(s.bridge, p) /\ t.bridge = BridgeRefuses(s.bridge) /\ t.mem = s.mem
      BY <2>1, <2>6, ZenonT(30) DEF PortRefuses
    <3>2. /\ BridgeReqOK(t.bridge, t.mem) /\ StallOK(t.bridge) /\ t.bridge.retryReq
          /\ t.bridge.resps = s.bridge.resps /\ t.bridge.respEvent = s.bridge.respEvent
      BY <1>1, <1>2, <3>1, BridgeAfter DEF Sending, Rest
    <3>3. PeersOK(L2, t.bridge, t.mem)
      BY <2>2, <2>5, <2>6, <3>1, <3>2, ZenonT(30) DEF Sending, Rest, PeersOK
    <3>4. BridgeRespOK(L2, t.bridge) /\ NearRespOK(L2, t.mem)
      BY <1>2, <2>2, <3>1, <3>2, RespsWaitOn, ZenonT(30) DEF Sending, Rest
    <3>5. QED
      BY <1>4, <2>2, <2>3, <2>4, <3>1, <3>2, <3>3, <3>4, ZenonT(30) DEF Flow, Sending, Rest, t
  <2>7. CASE l = "near"
    <3>1. s.mem["near"].isBusy /\ t.mem = MemRefuses(s.mem, "near") /\ t.bridge = s.bridge
      BY <2>1, <2>7, ZenonT(30) DEF PortRefuses
    <3>2. /\ \A k \in Memory : MemOK(t.mem, k)
          /\ t.mem["near"].retryReq
          /\ \A k \in Memory : /\ k # "near" => t.mem[k].retryReq = s.mem[k].retryReq
                               /\ t.mem[k].retryResp = s.mem[k].retryResp
                               /\ t.mem[k].packetQueue = s.mem[k].packetQueue
      BY <1>1, <1>2, <2>5, <3>1, MemAfter DEF Sending, Rest
    <3>3. PeersOK(L2, t.bridge, t.mem)
      BY <2>2, <2>5, <2>7, <3>1, <3>2, ZenonT(30) DEF Sending, Rest, PeersOK
    <3>4. BridgeRespOK(L2, t.bridge) /\ NearRespOK(L2, t.mem)
      BY <1>2, <2>2, <2>5, <3>1, <3>2, RespsWaitOn, ZenonT(30) DEF Sending, Rest
    <3>5. BridgeReqOK(t.bridge, t.mem)
      BY <3>1, <3>2, ZenonT(30) DEF Sending, Rest, BridgeReqOK, Memory
    <3>6. QED
      BY <1>4, <2>2, <2>3, <2>4, <3>1, <3>2, <3>3, <3>4, <3>5, ZenonT(30) DEF Flow, Sending, Rest, t
  <2>8. QED
    BY <1>2, <2>6, <2>7, ZenonT(30) DEF Port
<1>8. CASE t.sender = SenderSends(s.sender, m) /\ ReqPasses(s, t, p)
  <2>1. PortTakes(s, t, l, p) /\ L2 = LayerPassed(L, l)
    BY <1>2, <1>8, ZenonT(30) DEF ReqPasses
  <2>2. /\ \A k \in Layers : LineOK(L2, k)
        /\ SameLines(L, L2)
        /\ \A k \in Layers : /\ L2[k].waitingForLayer = L[k].waitingForLayer
                             /\ L2[k].waitingForPeer = L[k].waitingForPeer
        /\ \A k \in Layers \ {l} : L2[k] = L[k]
        /\ L2[l].state = "BUSY"
    <3>1. \A k \in Layers : LineOK(L, k)
      BY ZenonT(30) DEF Sending
    <3>2. QED
      BY <1>1, <1>2, <2>1, <3>1, PassedLine, SMTT(30)
  <2>3. \A k \in Layers : Owed(L2, k)
    BY <1>2, <2>2, ZenonT(30) DEF Sending, Owed, p
  <2>4. \A n \in Sender : SenderOK(t.sender, L2, n)
    BY <1>1, <1>8, <2>2, SenderPassed, ZenonT(30) DEF Sending
  <2>5. "near" \in Layers /\ "bridge" \in Layers /\ "near" \in Memory /\ "far" \in Memory
    BY DEF Layers, Port, Memory
  <2>6. CASE l = "bridge"
    <3>1. t.bridge = BridgeTakes(s.bridge, p) /\ t.mem = s.mem
      BY <2>1, <2>6, ZenonT(30) DEF PortTakes
    <3>2. /\ BridgeReqOK(t.bridge, t.mem) /\ StallOK(t.bridge) /\ t.bridge.retryReq = s.bridge.retryReq
          /\ t.bridge.resps = s.bridge.resps /\ t.bridge.respEvent = s.bridge.respEvent
      BY <1>1, <1>2, <3>1, BridgeAfter DEF Sending, Rest
    <3>3. PeersOK(L2, t.bridge, t.mem)
      BY <2>2, <2>5, <3>1, <3>2, ZenonT(30) DEF Sending, Rest, PeersOK
    <3>4. BridgeRespOK(L2, t.bridge) /\ NearRespOK(L2, t.mem)
      BY <1>2, <2>2, <3>1, <3>2, RespsWaitOn, ZenonT(30) DEF Sending, Rest
    <3>5. QED
      BY <1>4, <2>2, <2>3, <2>4, <3>1, <3>2, <3>3, <3>4, ZenonT(30) DEF Flow, Sending, Rest, t
  <2>7. CASE l = "near"
    <3>1. t.mem = MemTakes(s.mem, "near", p) /\ t.bridge = s.bridge
      BY <2>1, <2>7, ZenonT(30) DEF PortTakes
    <3>2. /\ \A k \in Memory : MemOK(t.mem, k)
          /\ \A k \in Memory : /\ t.mem[k].retryReq = s.mem[k].retryReq
                               /\ t.mem[k].retryResp = s.mem[k].retryResp
                               /\ s.mem[k].retryResp =>
                                    Head(t.mem[k].packetQueue) = Head(s.mem[k].packetQueue)
      BY <1>1, <1>2, <2>5, <3>1, MemAfter DEF Sending, Rest
    <3>3. PeersOK(L2, t.bridge, t.mem)
      BY <2>2, <2>5, <3>1, <3>2, ZenonT(30) DEF Sending, Rest, PeersOK
    <3>4. BridgeRespOK(L2, t.bridge) /\ NearRespOK(L2, t.mem)
      BY <1>2, <2>2, <2>5, <3>1, <3>2, RespsWaitOn, ZenonT(30) DEF Sending, Rest
    <3>5. BridgeReqOK(t.bridge, t.mem)
      BY <2>5, <3>1, <3>2, ZenonT(30) DEF Sending, Rest, BridgeReqOK
    <3>6. QED
      BY <1>4, <2>2, <2>3, <2>4, <3>1, <3>2, <3>3, <3>4, <3>5, ZenonT(30) DEF Flow, Sending, Rest, t
  <2>8. QED
    BY <1>2, <2>6, <2>7, ZenonT(30) DEF Port
<1>9. QED
  BY <1>4, <1>6, <1>7, <1>8, ZenonT(30) DEF t


-----------------------------------------------------------------------------
\* From L to L2, x has left the line at layer l and nothing else changed.
Leaves(L, L2, x, l) ==
    \A y \in Port \cup Sender, k \in Layers : In(L2, y, k) <=> In(L, y, k) /\ ~(y = x /\ k = l)

LayerCalls(L, l) == [L EXCEPT ![l].state = "RETRY", ![l].waitingForLayer = Tail(@)]

\* Layer::retryWaiting takes the first out of the line.
LEMMA CallsLine ==
    ASSUME NEW L \in [Layers -> LayerRec], \A k \in Layers : LineOK(L, k), NEW l \in Layers,
           L[l].waitingForLayer # <<>>, L[l].waitingForPeer = NULL
    PROVE  LET L2 == LayerCalls(L, l)
               x == Head(L[l].waitingForLayer)
           IN  /\ L2 \in [Layers -> LayerRec]
               /\ \A k \in Layers : LineOK(L2, k)
               /\ x \in Callers(l) /\ In(L, x, l) /\ Leaves(L, L2, x, l)
               /\ \A k \in Layers \ {l} : L2[k] = L[k]
               /\ Ready(L2, l)
<1> DEFINE L2 == LayerCalls(L, l)
           q == L[l].waitingForLayer
           x == Head(q)
           q2 == Tail(q)
<1>1. L[l] \in LayerRec /\ q \in Seq(Port \cup Sender) /\ q # <<>> /\ NULL \notin Port \cup Sender
  BY PathAssumption, ZenonT(30) DEF LayerRec
<1>2. /\ q2 \in Seq(Port \cup Sender) /\ x \in Port \cup Sender /\ Contains(q, x)
      /\ IsInjective(q) => /\ IsInjective(q2)
                           /\ \A y : Contains(q2, y) <=> Contains(q, y) /\ y # x
  BY <1>1, TailLine, ZenonT(30)
<1>3. L2 = [L EXCEPT ![l].state = "RETRY", ![l].waitingForLayer = q2]
  BY DEF LayerCalls
<1> HIDE DEF L2, q2, x
<1>4. /\ L2[l].waitingForLayer = q2 /\ L2[l].state = "RETRY" /\ L2[l].waitingForPeer = NULL
      /\ \A k \in Layers \ {l} : L2[k] = L[k]
      /\ L2 \in [Layers -> LayerRec]
  BY <1>1, <1>2, <1>3, ZenonT(30) DEF LayerRec, States
<1>5. IsInjective(q) /\ IsInjective(q2) /\ \A y : Contains(q2, y) <=> Contains(q, y) /\ y # x
  BY <1>2, ZenonT(30) DEF LineOK
<1>6. LineOK(L2, l)
  BY <1>4, <1>5, ZenonT(30) DEF LineOK
<1>7. \A k \in Layers : LineOK(L2, k)
  BY <1>4, <1>6, ZenonT(30) DEF LineOK
<1>8. Leaves(L, L2, x, l)
  BY <1>1, <1>4, <1>5, ZenonT(30) DEF Leaves, In
<1>9. x \in Callers(l) /\ In(L, x, l)
  BY <1>2, ZenonT(30) DEF Callers, LineOK, In
<1>10. QED
  BY <1>4, <1>7, <1>8, <1>9, ZenonT(30) DEF L2, x, Ready

\* Retrying is this step, with an assert.
LEMMA RetryingFlow ==
    ASSUME NEW s, IsState(s), NEW l \in Layers, s.layer[l].waitingForLayer # <<>>
    PROVE  LET t == Retrying(s, l)
           IN  /\ IsState(t) /\ t.layer = LayerCalls(s.layer, l)
               /\ t.sender = s.sender /\ t.bridge = s.bridge /\ t.mem = s.mem
<1> DEFINE u == assert(s, s.layer[l].state = "IDLE")
           t == [u EXCEPT !.layer[l].state = "RETRY", !.layer[l].waitingForLayer = Tail(@)]
<1>1. SameFlow(s, u) /\ Retrying(s, l) = t
  BY AssertFlow DEF Retrying
<1> HIDE DEF u
<1>2. /\ t.layer = LayerCalls(s.layer, l) /\ DOMAIN t = DOMAIN u
      /\ t.sender = s.sender /\ t.bridge = s.bridge /\ t.mem = s.mem
  BY <1>1, ZenonT(30) DEF SameFlow, IsState, LayerCalls
<1> HIDE DEF t
<1>3. t.layer \in [Layers -> LayerRec]
  <2> DEFINE q == Tail(s.layer[l].waitingForLayer)
             L == s.layer
  <2>1. L \in [Layers -> LayerRec] /\ L[l] \in LayerRec
    BY DEF IsState
  <2>2. q \in Seq(Port \cup Sender)
    BY <2>1, TailLine, ZenonT(30) DEF LayerRec
  <2>3. t.layer = [L EXCEPT ![l].state = "RETRY", ![l].waitingForLayer = q]
    BY <1>2, ZenonT(30) DEF LayerCalls
  <2> HIDE DEF q, L
  <2>4. QED
    BY <2>1, <2>2, <2>3, ZenonT(30) DEF LayerRec, States
<1>4. IsState(t)
  BY <1>1, <1>2, <1>3, ZenonT(30) DEF SameFlow, IsState
<1>5. QED
  BY <1>1, <1>2, <1>4, ZenonT(30)

\* Request layer d is free and has a line: the call that is due.
CallDue(s, d) ==
    /\ IsState(s)
    /\ \A l \in Layers : LineOK(s.layer, l)
    /\ \A l \in Layers \ {d} : Owed(s.layer, l)
    /\ s.layer[d].waitingForLayer # <<>> /\ s.layer[d].waitingForPeer = NULL
    /\ \A n \in Sender : SenderOK(s.sender, s.layer, n)
    /\ Rest(s)

\* The first in line at request layer d sends its packet.
LEMMA RetryReqKeeps ==
    ASSUME NEW s, NEW d \in Port, CallDue(s, d)
    PROVE  Flow(retryReqLayer(s, d))
<1> DEFINE L == s.layer
           x == Head(L[d].waitingForLayer)
           t == Retrying(s, d)
           u == assert(t, t.sender[x].waitingOnRetry)
           v == [u EXCEPT !.sender[x].waitingOnRetry = FALSE]
           L2 == t.layer
<1>1. d \in Layers /\ IsState(s) /\ L \in [Layers -> LayerRec] /\ s.sender \in [Sender -> SenderRec]
  BY ZenonT(30) DEF Layers, CallDue, IsState
<1>2. /\ IsState(t) /\ L2 = LayerCalls(L, d)
      /\ t.sender = s.sender /\ t.bridge = s.bridge /\ t.mem = s.mem
  BY <1>1, RetryingFlow, ZenonT(30) DEF CallDue
<1>3. /\ \A k \in Layers : LineOK(L2, k)
      /\ x \in Callers(d) /\ In(L, x, d) /\ Leaves(L, L2, x, d)
      /\ \A k \in Layers \ {d} : L2[k] = L[k]
      /\ Ready(L2, d)
  BY <1>1, <1>2, CallsLine DEF CallDue
<1>4. x \in Sender /\ s.sender[x] \in SenderRec
  BY <1>1, <1>3, ZenonT(30) DEF Callers
<1>5. SameFlow(t, u)
  BY <1>2, AssertFlow, ZenonT(30)
<1> HIDE DEF u, t, x
<1>6. /\ v.sender = [s.sender EXCEPT ![x].waitingOnRetry = FALSE] /\ DOMAIN v = DOMAIN u
      /\ v.layer = L2 /\ v.bridge = s.bridge /\ v.mem = s.mem
  BY <1>2, <1>5, ZenonT(30) DEF SameFlow, IsState
<1> HIDE DEF v
<1>7. /\ v.sender \in [Sender -> SenderRec]
      /\ v.sender[x].queue = s.sender[x].queue /\ v.sender[x].sendEvent = s.sender[x].sendEvent
      /\ ~v.sender[x].waitingOnRetry
      /\ \A n \in Sender \ {x} : v.sender[n] = s.sender[n]
  BY <1>1, <1>4, <1>6, ZenonT(30) DEF SenderRec
<1>8. IsState(v)
  BY <1>2, <1>5, <1>6, <1>7, ZenonT(30) DEF SameFlow, IsState
<1>9. SenderOK(s.sender, L, x)
  BY <1>4, ZenonT(30) DEF CallDue
<1>10. s.sender[x].waitingOnRetry /\ to[Head(s.sender[x].queue)] = d /\ ~s.sender[x].sendEvent
  BY <1>3, <1>4, <1>9, ZenonT(30) DEF SenderOK, SenderRec
<1>11. InHand(v.sender, v.layer, x)
  <2>1. \A k \in Port : ~In(L2, x, k)
    BY <1>3, <1>4, <1>9, <1>10, ZenonT(30) DEF SenderOK, Leaves, Layers
  <2>2. QED
    BY <1>6, <1>7, <1>9, <1>10, <2>1, ZenonT(30) DEF InHand, SenderOK
<1>12. \A n \in Sender \ {x} : SenderOK(v.sender, v.layer, n)
  <2>1. \A n \in Sender \ {x}, k \in Port : In(L2, n, k) <=> In(L, n, k)
    BY <1>3, ZenonT(30) DEF Leaves, Layers
  <2>2. QED
    BY <1>6, <1>7, <2>1 DEF CallDue, SenderOK
<1>13. Rest(v)
  <2>1. \A n \in Sender, k \in Port : In(L2, k, n) <=> In(L, k, n)
    BY <1>3, <1>4, PathAssumption, ZenonT(30) DEF Leaves, Layers
  <2>2. "near" \in Port /\ "bridge" \in Port /\ "near" \in Layers /\ "bridge" \in Layers
    BY SMTT(30) DEF Port, Layers
  <2>3. BridgeRespOK(v.layer, v.bridge) /\ NearRespOK(v.layer, v.mem)
    BY <1>6, <2>1, <2>2, SMTT(30) DEF CallDue, Rest, BridgeRespOK, NearRespOK
  <2>4. PeersOK(v.layer, v.bridge, v.mem)
    BY <1>3, <1>6, <2>2 DEF CallDue, Rest, PeersOK, Ready
  <2>5. QED
    BY <1>6, <2>3, <2>4, ZenonT(30) DEF CallDue, Rest
<1>14. Sending(v, x)
  <2>1. \A l \in Layers : Owed(v.layer, l) \/ (l = to[Head(v.sender[x].queue)] /\ Ready(v.layer, l))
    BY <1>3, <1>6, <1>7, <1>10 DEF CallDue, Owed
  <2>2. QED
    BY <1>3, <1>6, <1>8, <1>11, <1>12, <1>13, <2>1, ZenonT(30) DEF Sending
<1>15. Flow(sendDeferredPacket(v, x))
  BY <1>4, <1>14, SendKeeps, ZenonT(30)
<1>16. retryReqLayer(s, d) = Retried(sendDeferredPacket(v, x), d)
  BY DEF retryReqLayer, retry, t, u, v, x
<1>17. QED
  BY <1>1, <1>15, <1>16, ZenonT(30) DEF Retried, Flow, Owed


-----------------------------------------------------------------------------
\* Has the port behind request layer d a note of a refusal?
Noted(s, d) == IF d = "bridge" THEN s.bridge.retryReq ELSE s.mem[d].retryReq

\* The port behind request layer d has cleared its note and calls the layer.
RetryDue(s, d) ==
    /\ IsState(s)
    /\ \A l \in Layers : LineOK(s.layer, l) /\ Owed(s.layer, l)
    /\ \A n \in Sender : SenderOK(s.sender, s.layer, n)
    /\ s.layer[d].waitingForPeer # NULL /\ ~Noted(s, d)
    /\ \A k \in Port \ {d} : (s.layer[k].waitingForPeer # NULL) <=> Noted(s, k)
    /\ \A k \in Memory : MemOK(s.mem, k)
    /\ BridgeReqOK(s.bridge, s.mem) /\ StallOK(s.bridge)
    /\ BridgeRespOK(s.layer, s.bridge) /\ NearRespOK(s.layer, s.mem)

LayerRecalls(L, d) ==
    [L EXCEPT ![d].waitingForLayer = <<L[d].waitingForPeer>> \o @, ![d].waitingForPeer = NULL]

\* The one the peer refused goes to the front of the line.
LEMMA RecallsLine ==
    ASSUME NEW L \in [Layers -> LayerRec], \A k \in Layers : LineOK(L, k), NEW d \in Port,
           L[d].waitingForPeer # NULL
    PROVE  LET L2 == LayerRecalls(L, d)
           IN  /\ L2 \in [Layers -> LayerRec]
               /\ \A k \in Layers : LineOK(L2, k)
               /\ SameLines(L, L2)
               /\ \A k \in Layers \ {d} : L2[k] = L[k]
               /\ L2[d].state = L[d].state /\ L2[d].waitingForPeer = NULL
               /\ L2[d].waitingForLayer # <<>>
<1> DEFINE L2 == LayerRecalls(L, d)
           q == L[d].waitingForLayer
           x == L[d].waitingForPeer
           q2 == <<x>> \o q
<1>1. /\ d \in Layers /\ L[d] \in LayerRec /\ q \in Seq(Port \cup Sender) /\ x \in Sender
      /\ NULL \notin Port \cup Sender /\ x \in Port \cup Sender /\ d \notin Sender
  BY PathAssumption, ZenonT(30) DEF LayerRec, Layers
<1>2. /\ q2 \in Seq(Port \cup Sender) /\ q2 # <<>>
      /\ \A y : Contains(q2, y) <=> Contains(q, y) \/ y = x
      /\ IsInjective(q) /\ ~Contains(q, x) => IsInjective(q2)
  BY <1>1, FrontLine
<1>3. L2 = [L EXCEPT ![d].waitingForLayer = q2, ![d].waitingForPeer = NULL]
  BY DEF LayerRecalls
<1> HIDE DEF L2, q2
<1>4. /\ L2[d].waitingForLayer = q2 /\ L2[d].state = L[d].state /\ L2[d].waitingForPeer = NULL
      /\ \A k \in Layers \ {d} : L2[k] = L[k]
      /\ L2 \in [Layers -> LayerRec]
  BY <1>1, <1>2, <1>3, ZenonT(30) DEF LayerRec
<1>5. LineOK(L2, d)
  BY <1>1, <1>2, <1>4 DEF LineOK
<1>6. \A k \in Layers : LineOK(L2, k)
  BY <1>4, <1>5, ZenonT(30) DEF LineOK
<1>7. SameLines(L, L2)
  BY <1>1, <1>2, <1>4, ZenonT(30) DEF SameLines, In
<1>8. QED
  BY <1>2, <1>4, <1>6, <1>7, ZenonT(30) DEF L2

\* Layer::recvRetry restores the invariant, at once or by the layer's event.
LEMMA RecvReqRetryKeeps ==
    ASSUME NEW s, NEW d \in Port, RetryDue(s, d)
    PROVE  Flow(recvReqRetry(s, d))
<1> DEFINE L == s.layer
           u == assert(s, s.layer[d].waitingForPeer # NULL)
           r == [u EXCEPT !.layer[d].waitingForLayer = <<s.layer[d].waitingForPeer>> \o @,
                          !.layer[d].waitingForPeer = NULL]
           L2 == r.layer
<1>1. d \in Layers /\ IsState(s) /\ L \in [Layers -> LayerRec]
  BY ZenonT(30) DEF Layers, RetryDue, IsState
<1>2. SameFlow(s, u)
  BY <1>1, AssertFlow, ZenonT(30)
<1> HIDE DEF u
<1>3. /\ L2 = LayerRecalls(L, d) /\ DOMAIN r = DOMAIN u
      /\ r.sender = s.sender /\ r.bridge = s.bridge /\ r.mem = s.mem
  BY <1>1, <1>2, ZenonT(30) DEF SameFlow, IsState, LayerRecalls
<1> HIDE DEF r
<1>4. /\ L2 \in [Layers -> LayerRec]
      /\ \A k \in Layers : LineOK(L2, k)
      /\ SameLines(L, L2)
      /\ \A k \in Layers \ {d} : L2[k] = L[k]
      /\ L2[d].state = L[d].state /\ L2[d].waitingForPeer = NULL
      /\ L2[d].waitingForLayer # <<>>
  BY <1>1, <1>3, RecallsLine DEF RetryDue
<1>5. IsState(r)
  BY <1>1, <1>2, <1>3, <1>4, ZenonT(30) DEF SameFlow, IsState
<1>6. \A n \in Sender : SenderOK(r.sender, L2, n)
  <2>1. \A n \in Sender, k \in Port : In(L2, n, k) <=> In(L, n, k)
    BY <1>4, ZenonT(30) DEF SameLines, Layers
  <2>2. QED
    BY <1>3, <2>1 DEF RetryDue, SenderOK
<1>7. Rest(r)
  <2>1. \A n \in Sender, k \in Port : In(L2, k, n) <=> In(L, k, n)
    BY <1>4, ZenonT(30) DEF SameLines, Layers
  <2>2. "near" \in Port /\ "bridge" \in Port /\ Port \subseteq Layers /\ "near" # "bridge"
    BY SMTT(30) DEF Port, Layers
  <2>3. BridgeRespOK(L2, r.bridge) /\ NearRespOK(L2, r.mem)
    BY <1>3, <2>1, <2>2 DEF RetryDue, BridgeRespOK, NearRespOK
  <2>4. \A k \in Port : (L2[k].waitingForPeer # NULL) <=> Noted(s, k)
    BY <1>4, <2>2, ZenonT(30) DEF RetryDue
  <2>5. PeersOK(L2, r.bridge, r.mem)
    BY <1>3, <2>2, <2>4, ZenonT(30) DEF PeersOK, Noted
  <2>6. QED
    BY <1>3, <2>3, <2>5, ZenonT(30) DEF RetryDue, Rest
<1>8. recvReqRetry(s, d) = IF L[d].state = "IDLE" THEN retryReqLayer(r, d)
                           ELSE assert(r, L[d].state = "BUSY")
  BY DEF recvReqRetry, r, u
<1>9. CASE L[d].state = "IDLE"
  <2>1. CallDue(r, d)
    BY <1>4, <1>5, <1>6, <1>7, ZenonT(30) DEF CallDue, RetryDue, Owed
  <2>2. QED
    BY <1>8, <1>9, <2>1, RetryReqKeeps, ZenonT(30)
<1>10. CASE L[d].state # "IDLE"
  <2>1. L[d].state = "BUSY"
    BY <1>1, <1>10, ZenonT(30) DEF RetryDue, Owed, LayerRec, States
  <2>2. Flow(r)
    BY <1>4, <1>5, <1>6, <1>7, <2>1, ZenonT(30) DEF Flow, Rest, RetryDue, Owed
  <2>3. SameFlow(r, assert(r, L[d].state = "BUSY"))
    BY <1>5, AssertFlow, ZenonT(30)
  <2>4. QED
    BY <1>8, <1>10, <2>2, <2>3, ZenonT(30) DEF Flow, SameFlow
<1>11. QED
  BY <1>9, <1>10, ZenonT(30)

\* BridgeSlavePort::retryStalledReq, where the bridge may have run empty.
Unstalling(s) ==
    /\ IsState(s)
    /\ \A l \in Layers : LineOK(s.layer, l) /\ Owed(s.layer, l)
    /\ \A n \in Sender : SenderOK(s.sender, s.layer, n)
    /\ PeersOK(s.layer, s.bridge, s.mem)
    /\ \A k \in Memory : MemOK(s.mem, k)
    /\ BridgeReqOK(s.bridge, s.mem)
    /\ BridgeRespOK(s.layer, s.bridge) /\ NearRespOK(s.layer, s.mem)

LEMMA RetryStalledKeeps ==
    ASSUME NEW s, Unstalling(s)
    PROVE  Flow(retryStalledReq(s))
<1>1. s.bridge \in BridgeRec /\ IsState(s)
  BY DEF Unstalling, IsState
<1>2. CASE ~s.bridge.retryReq
  BY <1>2, ZenonT(30) DEF Unstalling, Flow, retryStalledReq, StallOK
<1>3. CASE s.bridge.retryReq
  <2> DEFINE t == [s EXCEPT !.bridge.retryReq = FALSE]
  <2>1. /\ t.sender = s.sender /\ t.layer = s.layer /\ t.mem = s.mem /\ DOMAIN t = DOMAIN s
        /\ t.bridge = [s.bridge EXCEPT !.retryReq = FALSE]
    BY <1>1 DEF IsState
  <2> HIDE DEF t
  <2>2. /\ t.bridge \in BridgeRec /\ ~t.bridge.retryReq
        /\ t.bridge.reqs = s.bridge.reqs /\ t.bridge.reqEvent = s.bridge.reqEvent
        /\ t.bridge.resps = s.bridge.resps /\ t.bridge.respEvent = s.bridge.respEvent
    BY <1>1, <2>1, ZenonT(30) DEF BridgeRec
  <2>3. IsState(t)
    BY <1>1, <2>1, <2>2, ZenonT(30) DEF IsState
  <2>4. RetryDue(t, "bridge")
    <3>1. s.layer["bridge"].waitingForPeer # NULL /\ ~Noted(t, "bridge")
      BY <1>3, <2>2, ZenonT(30) DEF Unstalling, PeersOK, Noted
    <3>2. \A k \in Port \ {"bridge"} : (s.layer[k].waitingForPeer # NULL) <=> Noted(t, k)
      BY <2>1, ZenonT(30) DEF Unstalling, PeersOK, Noted, Port
    <3>3. /\ BridgeReqOK(t.bridge, t.mem) /\ StallOK(t.bridge) /\ BridgeRespOK(t.layer, t.bridge)
      BY <2>1, <2>2, ZenonT(30) DEF Unstalling, BridgeReqOK, StallOK, BridgeRespOK
    <3>4. QED
      BY <2>1, <2>3, <3>1, <3>2, <3>3, ZenonT(30) DEF RetryDue, Unstalling
  <2>5. "bridge" \in Port /\ retryStalledReq(s) = recvReqRetry(t, "bridge")
    BY <1>3 DEF Port, retryStalledReq, t
  <2>6. QED
    BY <2>4, <2>5, RecvReqRetryKeeps, ZenonT(30)
<1>4. QED
  BY <1>2, <1>3, SMTT(30)


-----------------------------------------------------------------------------
\* The bridge is about to send its first request on: no event, no retry owed.
BridgeSending(s) ==
    /\ IsState(s)
    /\ \A l \in Layers : LineOK(s.layer, l) /\ Owed(s.layer, l)
    /\ \A n \in Sender : SenderOK(s.sender, s.layer, n)
    /\ PeersOK(s.layer, s.bridge, s.mem)
    /\ \A k \in Memory : MemOK(s.mem, k)
    /\ s.bridge.reqs # <<>> /\ ~s.bridge.reqEvent /\ ~s.mem["far"].retryReq
    /\ BridgeRespOK(s.layer, s.bridge) /\ NearRespOK(s.layer, s.mem)

\* A memory does not touch the other one.
LEMMA OtherMem ==
    ASSUME NEW M \in [Memory -> MemRec], NEW p \in Pkt
    PROVE  MemTakes(M, "far", p)["near"] = M["near"] /\ MemRefuses(M, "far")["near"] = M["near"]
<1>1. "far" \in Memory /\ "near" \in Memory /\ "near" # "far"
  BY DEF Memory
<1>2. MemTakes(M, "far", p)["near"] = M["near"]
  BY <1>1 DEF MemTakes
<1>3. MemRefuses(M, "far")["near"] = M["near"]
  BY <1>1 DEF MemRefuses
<1>4. QED
  BY <1>2, <1>3, ZenonT(30)

\* BridgeMasterPort::trySendTiming restores the invariant.
LEMMA BridgeSendReqKeeps ==
    ASSUME NEW s, BridgeSending(s)
    PROVE  Flow(bridgeSendReq(s))
<1> DEFINE p == Head(s.bridge.reqs)
           left == Tail(s.bridge.reqs)
           r == memRecvTimingReq(s, "far", p)
           t == [r.s EXCEPT !.bridge.reqs = left, !.bridge.reqEvent = left # <<>>]
<1>1. /\ IsState(s) /\ s.bridge \in BridgeRec /\ s.mem \in [Memory -> MemRec]
      /\ "far" \in Memory /\ "near" \in Memory /\ "near" # "far"
  BY ZenonT(30) DEF BridgeSending, IsState, Memory
<1>2. p \in Pkt /\ left \in Seq(Pkt)
  BY <1>1, TailLine, ZenonT(30) DEF BridgeSending, BridgeRec
<1>3. /\ (r.ok <=> ~s.mem["far"].isBusy) /\ IsState(r.s)
      /\ r.s.sender = s.sender /\ r.s.layer = s.layer /\ r.s.bridge = s.bridge
      /\ r.s.mem = IF r.ok THEN MemTakes(s.mem, "far", p) ELSE MemRefuses(s.mem, "far")
  BY <1>1, <1>2, MemRecv, ZenonT(30) DEF BridgeSending
<1>4. bridgeSendReq(s) = IF r.ok THEN retryStalledReq(t) ELSE r.s
  BY SMTT(30) DEF bridgeSendReq
<1>5. r.s.mem["near"] = s.mem["near"]
  BY <1>1, <1>2, <1>3, OtherMem
<1> HIDE DEF r, p
<1>6. NearRespOK(r.s.layer, r.s.mem)
  BY <1>3, <1>5, ZenonT(30) DEF BridgeSending, NearRespOK
<1>7. PeersOK(r.s.layer, r.s.bridge, r.s.mem)
  BY <1>3, <1>5, ZenonT(30) DEF BridgeSending, PeersOK
<1>8. CASE r.ok
  <2> DEFINE e == left # <<>>
  <2>1. /\ t.sender = s.sender /\ t.layer = s.layer /\ t.mem = r.s.mem /\ DOMAIN t = DOMAIN r.s
        /\ t.bridge = [s.bridge EXCEPT !.reqs = left, !.reqEvent = e]
    BY <1>3, ZenonT(30) DEF IsState
  <2>2. e \in BOOLEAN /\ (e <=> left # <<>>)
    OBVIOUS
  <2> HIDE DEF t, left, e
  <2>3. /\ t.bridge \in BridgeRec /\ t.bridge.reqs = left /\ t.bridge.reqEvent = e
        /\ t.bridge.resps = s.bridge.resps /\ t.bridge.respEvent = s.bridge.respEvent
        /\ t.bridge.retryReq = s.bridge.retryReq
    BY <1>1, <1>2, <2>1, <2>2, ZenonT(30) DEF BridgeRec
  <2>4. IsState(t)
    BY <1>3, <2>1, <2>3, ZenonT(30) DEF IsState
  <2>5. /\ \A k \in Memory : MemOK(t.mem, k)
        /\ ~t.mem["far"].retryReq /\ t.mem["far"].retryReq \in BOOLEAN
    <3>1. \A k \in Memory : MemOK(s.mem, k)
      BY DEF BridgeSending
    <3>2. \A k \in Memory : MemOK(t.mem, k) /\ t.mem[k].retryReq = s.mem[k].retryReq
      BY <1>1, <1>2, <1>3, <1>8, <2>1, <3>1, MemAfter, SMTT(30)
    <3>3. QED
      BY <1>1, <3>2, ZenonT(30) DEF BridgeSending, MemRec
  <2>6. BridgeReqOK(t.bridge, t.mem)
    BY <2>2, <2>3, <2>5, ZenonT(30) DEF BridgeReqOK
  <2>7. BridgeRespOK(t.layer, t.bridge) /\ PeersOK(t.layer, t.bridge, t.mem) /\ NearRespOK(t.layer, t.mem)
    BY <1>3, <1>6, <1>7, <2>1, <2>3 DEF BridgeSending, BridgeRespOK, PeersOK
  <2>8. Unstalling(t)
    BY <2>1, <2>4, <2>5, <2>6, <2>7, ZenonT(30) DEF Unstalling, BridgeSending
  <2>9. QED
    BY <1>4, <1>8, <2>8, RetryStalledKeeps, ZenonT(30) DEF t
<1>9. CASE ~r.ok
  <2>1. /\ \A k \in Memory : MemOK(r.s.mem, k)
        /\ r.s.mem["far"].retryReq
    <3>1. \A k \in Memory : MemOK(s.mem, k)
      BY DEF BridgeSending
    <3>2. s.mem["far"].isBusy /\ r.s.mem = MemRefuses(s.mem, "far")
      BY <1>1, <1>3, <1>9, ZenonT(30) DEF MemRec
    <3>3. QED
      BY <1>1, <1>2, <3>1, <3>2, MemAfter
  <2>2. r.s.mem["far"].retryReq \in BOOLEAN
    BY <1>1, <1>3, ZenonT(30) DEF IsState, MemRec
  <2>3. BridgeReqOK(r.s.bridge, r.s.mem) /\ StallOK(r.s.bridge)
    BY <1>1, <1>3, <2>1, <2>2, ZenonT(30) DEF BridgeReqOK, StallOK, BridgeSending, BridgeRec
  <2>4. QED
    BY <1>3, <1>4, <1>6, <1>7, <1>9, <2>1, <2>3, ZenonT(30) DEF Flow, BridgeSending
<1>10. QED
  BY <1>8, <1>9, ZenonT(30)

-----------------------------------------------------------------------------
\* The outcomes of sending response p by port d: NoncoherentXBar::recvTimingResp.
LEMMA XbarResp ==
    ASSUME NEW s, IsState(s), NEW d \in Port, NEW p \in Pkt
    PROVE  LET r == recvTimingResp(s, d, p)
           IN  /\ (r.ok <=> ~Taken(s, from[p])) /\ IsState(r.s)
               /\ r.s.sender = s.sender /\ r.s.bridge = s.bridge /\ r.s.mem = s.mem
               /\ r.s.layer = IF r.ok THEN LayerPassed(s.layer, from[p])
                              ELSE LayerWaits(s.layer, from[p], d)
<1> DEFINE m == from[p]
           u == assert(s, p \in s.routeTo)
           w == assert(u, ~Contains(u.layer[m].waitingForLayer, d))
           q == [w EXCEPT !.layer[m].waitingForLayer = Append(@, d)]
           o == Occupy(u, m)
           r == [o EXCEPT !.routeTo = @ \ {p}]
<1>1. m \in Sender /\ m \in Layers /\ s.layer \in [Layers -> LayerRec] /\ d \in Port \cup Sender
  BY PathAssumption, ZenonT(30) DEF Layers, IsState
<1>2. SameFlow(s, u)
  BY AssertFlow
<1>3. recvTimingResp(s, d, p) =
        IF Taken(s, m) THEN Refused(q)
        ELSE IF Unanswered(r, m) = {} THEN Done(signalDrainDone(r, <<"owner", m>>))
        ELSE Done(r)
  BY SMTT(30) DEF recvTimingResp, Enqueue
<1>4. SameFlow(u, w)
  BY <1>2, AssertFlow DEF SameFlow
<1> HIDE DEF u, w, m
<1>5. CASE Taken(s, m)
  <2>1. /\ q.layer = LayerWaits(s.layer, m, d) /\ DOMAIN q = DOMAIN w
        /\ q.sender = s.sender /\ q.bridge = s.bridge /\ q.mem = s.mem
    BY <1>2, <1>4, ZenonT(30) DEF SameFlow, IsState, LayerWaits
  <2> HIDE DEF q
  <2>2. q.layer \in [Layers -> LayerRec]
    BY <1>1, <2>1, LayerUpdates
  <2>3. IsState(q)
    BY <1>4, <2>1, <2>2, ZenonT(30) DEF SameFlow, IsState
  <2>4. QED
    BY <1>3, <1>5, <2>1, <2>3 DEF Refused, m
<1>6. CASE ~Taken(s, m)
  <2>1. /\ r.layer = LayerPassed(s.layer, m) /\ DOMAIN r = DOMAIN u
        /\ r.sender = s.sender /\ r.bridge = s.bridge /\ r.mem = s.mem
    BY <1>2, ZenonT(30) DEF SameFlow, IsState, LayerPassed, Occupy
  <2> HIDE DEF r
  <2>2. r.layer \in [Layers -> LayerRec]
    BY <1>1, <2>1, LayerUpdates, ZenonT(30)
  <2>3. IsState(r)
    BY <1>2, <2>1, <2>2, ZenonT(30) DEF SameFlow, IsState
  <2> DEFINE t == IF Unanswered(r, m) = {} THEN signalDrainDone(r, <<"owner", m>>) ELSE r
  <2>4. SameFlow(r, t)
    <3>1. SameFlow(r, r)
      BY <2>3 DEF SameFlow
    <3>2. SameFlow(r, signalDrainDone(r, <<"owner", m>>))
      BY <2>3, SignalFlow, ZenonT(30)
    <3>3. QED
      BY <3>1, <3>2, ZenonT(30)
  <2>5. recvTimingResp(s, d, p) = Done(t)
    BY <1>3, <1>6, ZenonT(30)
  <2> HIDE DEF t
  <2>6. QED
    BY <1>6, <2>1, <2>4, <2>5, SMTT(30) DEF Done, SameFlow, m
<1>7. QED
  BY <1>5, <1>6, ZenonT(30)


\* A response is to be sent to m, whose layer may just have been freed for it.
RespReady(s, m) ==
    /\ IsState(s)
    /\ \A l \in Layers : LineOK(s.layer, l)
    /\ \A l \in Layers : Owed(s.layer, l) \/ (l = m /\ Ready(s.layer, l))
    /\ \A n \in Sender : SenderOK(s.sender, s.layer, n)
    /\ PeersOK(s.layer, s.bridge, s.mem)
    /\ BridgeReqOK(s.bridge, s.mem) /\ StallOK(s.bridge)

\* The layers afterwards: port d is in line at m's layer if it was refused.
RespSent(s, t, d, m, ok) ==
    /\ IsState(t)
    /\ t.sender = s.sender /\ t.bridge = s.bridge /\ t.mem = s.mem
    /\ \A l \in Layers : LineOK(t.layer, l) /\ Owed(t.layer, l)
    /\ \A n \in Sender : SenderOK(t.sender, t.layer, n)
    /\ PeersOK(t.layer, t.bridge, t.mem)
    /\ \A n \in Sender, e \in Port \ {d} : In(t.layer, e, n) <=> In(s.layer, e, n)
    /\ \A n \in Sender : In(t.layer, d, n) <=> ~ok /\ n = m

LEMMA RespKeeps ==
    ASSUME NEW s, NEW d \in Port, NEW p \in Pkt, RespReady(s, from[p]),
           \A n \in Sender : ~In(s.layer, d, n)
    PROVE  RespSent(s, recvTimingResp(s, d, p).s, d, from[p], recvTimingResp(s, d, p).ok)
<1> DEFINE m == from[p]
           r == recvTimingResp(s, d, p)
           L == s.layer
           L2 == r.s.layer
<1>1. /\ IsState(s) /\ L \in [Layers -> LayerRec] /\ m \in Sender /\ m \in Layers
      /\ d \in Callers(m) /\ Port \subseteq Layers /\ "near" \in Layers /\ "bridge" \in Layers
  BY PathAssumption, ZenonT(30) DEF RespReady, IsState, Layers, Callers, Port
<1>2. /\ (r.ok <=> ~Taken(s, m)) /\ IsState(r.s)
      /\ r.s.sender = s.sender /\ r.s.bridge = s.bridge /\ r.s.mem = s.mem
      /\ L2 = IF r.ok THEN LayerPassed(L, m) ELSE LayerWaits(L, m, d)
  BY <1>1, XbarResp, ZenonT(30)
<1>3. \A l \in Layers : LineOK(L, l)
  BY DEF RespReady
<1> HIDE DEF r
<1>4. CASE r.ok
  <2>1. /\ \A k \in Layers : LineOK(L2, k)
        /\ SameLines(L, L2)
        /\ \A k \in Layers : /\ L2[k].waitingForLayer = L[k].waitingForLayer
                             /\ L2[k].waitingForPeer = L[k].waitingForPeer
        /\ \A k \in Layers \ {m} : L2[k] = L[k]
        /\ L2[m].state = "BUSY"
    BY <1>1, <1>2, <1>3, <1>4, PassedLine, SMTT(30)
  <2>2. \A k \in Layers : Owed(L2, k)
    BY <2>1, ZenonT(30) DEF RespReady, Owed
  <2>3. \A n \in Sender : SenderOK(r.s.sender, L2, n)
    <3>1. \A n \in Sender, k \in Port : In(L2, n, k) <=> In(L, n, k)
      BY <2>1, ZenonT(30) DEF SameLines, Layers
    <3>2. QED
      BY <1>2, <3>1, SMTT(30) DEF RespReady, SenderOK
  <2>4. PeersOK(L2, r.s.bridge, r.s.mem)
    BY <1>1, <1>2, <2>1, ZenonT(30) DEF RespReady, PeersOK
  <2>5. \A n \in Sender, e \in Port : In(L2, e, n) <=> In(L, e, n)
    BY <2>1, ZenonT(30) DEF SameLines, Layers
  <2>6. QED
    BY <1>2, <1>4, <2>1, <2>2, <2>3, <2>4, <2>5, ZenonT(30) DEF RespSent, r
<1>5. CASE ~r.ok
  <2>1. /\ \A k \in Layers : LineOK(L2, k)
        /\ Joins(L, L2, d, m)
        /\ \A k \in Layers : /\ L2[k].state = L[k].state
                             /\ L2[k].waitingForPeer = L[k].waitingForPeer
        /\ \A k \in Layers \ {m} : L2[k] = L[k]
    BY <1>1, <1>2, <1>3, <1>5, WaitsLine, SMTT(30)
  <2>2. \A k \in Layers : Owed(L2, k)
    BY <1>2, <1>5, <2>1, SMTT(30) DEF RespReady, Owed, Taken, Ready
  <2>3. \A n \in Sender : SenderOK(r.s.sender, L2, n)
    <3>1. \A n \in Sender, k \in Port : In(L2, n, k) <=> In(L, n, k)
      BY <1>1, <2>1, PathAssumption DEF Joins, Layers
    <3>2. QED
      BY <1>2, <3>1 DEF RespReady, SenderOK
  <2>4. PeersOK(L2, r.s.bridge, r.s.mem)
    BY <1>1, <1>2, <2>1, ZenonT(30) DEF RespReady, PeersOK
  <2>5. /\ \A n \in Sender, e \in Port \ {d} : In(L2, e, n) <=> In(L, e, n)
        /\ \A n \in Sender : In(L2, d, n) <=> n = m
    BY <2>1, ZenonT(30) DEF Joins, Layers
  <2>6. QED
    BY <1>2, <1>5, <2>1, <2>2, <2>3, <2>4, <2>5, ZenonT(30) DEF RespSent, r
<1>6. QED
  BY <1>4, <1>5, ZenonT(30)

\* The bridge is about to send its first response.
BridgeResponding(s) ==
    /\ RespReady(s, from[Head(s.bridge.resps)])
    /\ s.bridge.resps # <<>> /\ ~s.bridge.respEvent
    /\ \A n \in Sender : ~In(s.layer, "bridge", n)
    /\ \A k \in Memory : MemOK(s.mem, k)
    /\ NearRespOK(s.layer, s.mem)

\* BridgeSlavePort::trySendTiming restores the invariant.
LEMMA BridgeSendRespKeeps ==
    ASSUME NEW s, BridgeResponding(s)
    PROVE  Flow(bridgeSendResp(s))
<1> DEFINE p == Head(s.bridge.resps)
           m == from[p]
           left == Tail(s.bridge.resps)
           r == recvTimingResp(s, "bridge", p)
           u == assert(r.s, s.bridge.outstandingResponses # 0)
           t == [u EXCEPT !.bridge.resps = left, !.bridge.respEvent = left # <<>>,
                          !.bridge.outstandingResponses = @ - 1]
<1>1. /\ IsState(s) /\ s.bridge \in BridgeRec /\ "bridge" \in Port /\ "near" \in Port
      /\ "near" # "bridge"
  BY ZenonT(30) DEF BridgeResponding, RespReady, IsState, Port
<1>2. p \in Pkt /\ left \in Seq(Pkt)
  BY <1>1, TailLine, ZenonT(30) DEF BridgeResponding, BridgeRec
<1>3. RespSent(s, r.s, "bridge", m, r.ok)
  BY <1>1, <1>2, RespKeeps, ZenonT(30) DEF BridgeResponding
<1>4. bridgeSendResp(s) =
        IF ~r.ok THEN r.s
        ELSE IF Len(s.bridge.reqs) # reqQueueLimit THEN retryStalledReq(t)
        ELSE t
  BY DEF bridgeSendResp
<1>5. NearRespOK(r.s.layer, r.s.mem)
  BY <1>1, <1>3, ZenonT(30) DEF BridgeResponding, NearRespOK, RespSent
<1> HIDE DEF r, p
<1>6. CASE ~r.ok
  <2>1. BridgeRespOK(r.s.layer, r.s.bridge)
    BY <1>3, <1>6, ZenonT(30) DEF RespSent, BridgeRespOK, BridgeResponding, p
  <2>2. QED
    BY <1>3, <1>4, <1>5, <1>6, <2>1, ZenonT(30) DEF Flow, RespSent, BridgeResponding, RespReady
<1>7. CASE r.ok
  <2> DEFINE e == left # <<>>
             n == s.bridge.outstandingResponses - 1
  <2>1. SameFlow(r.s, u)
    BY <1>3, AssertFlow, ZenonT(30) DEF RespSent
  <2> HIDE DEF u
  <2>2. /\ t.sender = s.sender /\ t.layer = r.s.layer /\ t.mem = s.mem /\ DOMAIN t = DOMAIN u
        /\ t.bridge = [s.bridge EXCEPT !.resps = left, !.respEvent = e, !.outstandingResponses = n]
    BY <1>3, <2>1, ZenonT(30) DEF SameFlow, IsState, RespSent
  <2>3. e \in BOOLEAN /\ (e <=> left # <<>>) /\ n \in Int
    BY <1>1 DEF BridgeRec
  <2> HIDE DEF t, left, e, n
  <2>4. /\ t.bridge \in BridgeRec /\ t.bridge.resps = left /\ t.bridge.respEvent = e
        /\ t.bridge.reqs = s.bridge.reqs /\ t.bridge.reqEvent = s.bridge.reqEvent
        /\ t.bridge.retryReq = s.bridge.retryReq
    BY <1>1, <1>2, <2>2, <2>3, ZenonT(30) DEF BridgeRec
  <2>5. IsState(t)
    BY <1>3, <2>1, <2>2, <2>4, ZenonT(30) DEF IsState, SameFlow, RespSent
  <2>6. BridgeRespOK(t.layer, t.bridge)
    BY <1>3, <1>7, <2>2, <2>3, <2>4, ZenonT(30) DEF BridgeRespOK, RespSent
  <2>7. Unstalling(t)
    <3>1. PeersOK(t.layer, t.bridge, t.mem) /\ BridgeReqOK(t.bridge, t.mem) /\ NearRespOK(t.layer, t.mem)
      BY <1>3, <1>5, <2>2, <2>4, ZenonT(30) DEF RespSent, PeersOK, BridgeResponding, RespReady, BridgeReqOK
    <3>2. QED
      BY <1>3, <2>2, <2>5, <2>6, <3>1, ZenonT(30) DEF Unstalling, RespSent, BridgeResponding
  <2>8. CASE Len(s.bridge.reqs) # reqQueueLimit
    BY <1>4, <1>7, <2>7, <2>8, RetryStalledKeeps, ZenonT(30) DEF t
  <2>9. CASE Len(s.bridge.reqs) = reqQueueLimit
    <3>1. s.bridge.reqs # <<>>
      BY <1>1, <2>9, PathAssumption, ZenonT(30) DEF BridgeRec
    <3>2. StallOK(t.bridge)
      BY <2>4, <3>1, ZenonT(30) DEF StallOK
    <3>3. QED
      BY <1>4, <1>7, <2>7, <2>9, <3>2, ZenonT(30) DEF Flow, Unstalling, t
  <2>10. QED
    BY <2>8, <2>9, ZenonT(30)
<1>8. QED
  BY <1>6, <1>7, ZenonT(30)


-----------------------------------------------------------------------------
MemDequeues(M, k) ==
    [M EXCEPT ![k].retryResp = FALSE, ![k].packetQueue = Tail(@),
              ![k].dequeueEvent = Tail(M[k].packetQueue) # <<>>]

MemHolds(M, k) == [M EXCEPT ![k].retryResp = TRUE]

\* Memory k is about to send its first response.
Loaded(M, k) ==
    /\ M[k].packetQueue # <<>> /\ ~M[k].dequeueEvent
    /\ M[k].retryReq => M[k].isBusy

\* The memory afterwards, whether the response was sent or not.
LEMMA MemSends ==
    ASSUME NEW M \in [Memory -> MemRec], NEW k \in Memory, Loaded(M, k),
           \A j \in Memory \ {k} : MemOK(M, j)
    PROVE  /\ LET M2 == MemDequeues(M, k)
              IN  /\ M2 \in [Memory -> MemRec] /\ \A j \in Memory : MemOK(M2, j)
                  /\ ~M2[k].retryResp /\ \A j \in Memory \ {k} : M2[j] = M[j]
                  /\ M2[k].retryReq = M[k].retryReq
           /\ LET M2 == MemHolds(M, k)
              IN  /\ M2 \in [Memory -> MemRec] /\ \A j \in Memory : MemOK(M2, j)
                  /\ M2[k].retryResp /\ \A j \in Memory \ {k} : M2[j] = M[j]
                  /\ M2[k].retryReq = M[k].retryReq /\ M2[k].packetQueue = M[k].packetQueue
<1>1. M[k] \in MemRec /\ M[k].packetQueue \in Seq(Pkt) /\ M[k].packetQueue # <<>>
  BY DEF MemRec, Loaded
<1> DEFINE q == Tail(M[k].packetQueue)
           e == Tail(M[k].packetQueue) # <<>>
           M2 == MemDequeues(M, k)
           M3 == MemHolds(M, k)
<1>2. q \in Seq(Pkt)
  BY <1>1, TailLine, ZenonT(30)
<1>3. e \in BOOLEAN /\ (e <=> q # <<>>)
  OBVIOUS
<1>4. M2 = [M EXCEPT ![k].retryResp = FALSE, ![k].packetQueue = q, ![k].dequeueEvent = e]
  BY DEF MemDequeues
<1> HIDE DEF q, e, M2
<1>5. /\ M2 \in [Memory -> MemRec] /\ M2[k].retryResp = FALSE /\ M2[k].packetQueue = q
      /\ M2[k].dequeueEvent = e /\ M2[k].retryReq = M[k].retryReq /\ M2[k].isBusy = M[k].isBusy
      /\ \A j \in Memory \ {k} : M2[j] = M[j]
  BY <1>1, <1>2, <1>3, <1>4, ZenonT(30) DEF MemRec
<1>6. MemOK(M2, k)
  BY <1>3, <1>5, ZenonT(30) DEF MemOK, Loaded
<1>7. \A j \in Memory : MemOK(M2, j)
  BY <1>5, <1>6, ZenonT(30) DEF MemOK
<1>8. /\ M3 \in [Memory -> MemRec] /\ M3[k].retryResp = TRUE /\ M3[k].packetQueue = M[k].packetQueue
      /\ M3[k].dequeueEvent = M[k].dequeueEvent /\ M3[k].retryReq = M[k].retryReq
      /\ M3[k].isBusy = M[k].isBusy
      /\ \A j \in Memory \ {k} : M3[j] = M[j]
  BY <1>1, ZenonT(30) DEF MemRec, MemHolds
<1> HIDE DEF M3
<1>9. MemOK(M3, k)
  BY <1>1, <1>8, ZenonT(30) DEF MemOK, Loaded, MemRec
<1>10. \A j \in Memory : MemOK(M3, j)
  BY <1>8, <1>9 DEF MemOK
<1>11. QED
  BY <1>5, <1>7, <1>8, <1>10, ZenonT(30) DEF M2, M3

NearResponding(s) ==
    /\ RespReady(s, from[Head(s.mem["near"].packetQueue)])
    /\ Loaded(s.mem, "near") /\ MemOK(s.mem, "far")
    /\ \A n \in Sender : ~In(s.layer, "near", n)
    /\ BridgeRespOK(s.layer, s.bridge)

\* SimpleMemory::dequeue of the near memory restores the invariant.
LEMMA DequeueNearKeeps ==
    ASSUME NEW s, NearResponding(s)
    PROVE  Flow(dequeue(s, "near"))
<1> DEFINE M == s.mem
           p == Head(M["near"].packetQueue)
           m == from[p]
           left == Tail(M["near"].packetQueue)
           r == recvTimingResp(s, "near", p)
           sent == [r.s EXCEPT !.mem["near"].retryResp = FALSE, !.mem["near"].packetQueue = left,
                               !.mem["near"].dequeueEvent = left # <<>>]
           held == [r.s EXCEPT !.mem["near"].retryResp = TRUE]
<1>1. /\ IsState(s) /\ M \in [Memory -> MemRec] /\ "bridge" \in Port /\ "near" \in Port
      /\ "near" # "bridge" /\ "near" \in Memory /\ M["near"] \in MemRec /\ Memory \ {"near"} = {"far"}
  BY ZenonT(30) DEF NearResponding, RespReady, IsState, Port, Memory
<1>2. p \in Pkt
  BY <1>1, TailLine, ZenonT(30) DEF NearResponding, Loaded, MemRec
<1>3. RespSent(s, r.s, "near", m, r.ok)
  BY <1>1, <1>2, RespKeeps, ZenonT(30) DEF NearResponding
<1>4. dequeue(s, "near") =
        IF ~r.ok THEN held
        ELSE IF left = <<>> THEN signalDrainDone(sent, <<"mem", "near">>)
        ELSE sent
  BY DEF dequeue
<1>5. BridgeRespOK(r.s.layer, r.s.bridge)
  BY <1>1, <1>3, ZenonT(30) DEF NearResponding, BridgeRespOK, RespSent
<1>6. Loaded(M, "near") /\ \A j \in Memory \ {"near"} : MemOK(M, j)
  BY <1>1, ZenonT(30) DEF NearResponding
<1> HIDE DEF r, p
<1>7. ASSUME NEW t, IsState(t), t.sender = s.sender, t.layer = r.s.layer, t.bridge = s.bridge,
             t.mem["near"].retryReq = M["near"].retryReq, t.mem["far"] = M["far"],
             \A k \in Memory : MemOK(t.mem, k), NearRespOK(t.layer, t.mem)
      PROVE  Flow(t)
  <2>1. PeersOK(t.layer, t.bridge, t.mem)
    BY <1>3, <1>7, ZenonT(30) DEF RespSent, PeersOK
  <2>2. BridgeReqOK(t.bridge, t.mem) /\ StallOK(t.bridge)
    BY <1>7, ZenonT(30) DEF NearResponding, RespReady, BridgeReqOK
  <2>3. BridgeRespOK(t.layer, t.bridge)
    BY <1>3, <1>5, <1>7, ZenonT(30) DEF RespSent
  <2>4. QED
    BY <1>3, <1>7, <2>1, <2>2, <2>3, ZenonT(30) DEF Flow, RespSent
<1>8. CASE ~r.ok
  <2>1. /\ held.sender = s.sender /\ held.layer = r.s.layer /\ held.bridge = s.bridge
        /\ held.mem = MemHolds(M, "near") /\ DOMAIN held = DOMAIN r.s
    BY <1>3, ZenonT(30) DEF RespSent, IsState, MemHolds
  <2> HIDE DEF held
  <2>2. /\ held.mem \in [Memory -> MemRec] /\ \A j \in Memory : MemOK(held.mem, j)
        /\ held.mem["near"].retryResp /\ held.mem["far"] = M["far"]
        /\ held.mem["near"].retryReq = M["near"].retryReq
        /\ held.mem["near"].packetQueue = M["near"].packetQueue
    BY <1>1, <1>6, <2>1, MemSends
  <2>3. IsState(held)
    BY <1>3, <2>1, <2>2, ZenonT(30) DEF RespSent, IsState
  <2>4. NearRespOK(held.layer, held.mem)
    BY <1>3, <1>8, <2>1, <2>2, ZenonT(30) DEF NearRespOK, RespSent, p
  <2>5. QED
    BY <1>4, <1>7, <1>8, <2>1, <2>2, <2>3, <2>4, ZenonT(30)
<1>9. CASE r.ok
  <2> DEFINE t == dequeue(s, "near")
  <2>1. /\ sent.sender = s.sender /\ sent.layer = r.s.layer /\ sent.bridge = s.bridge
        /\ sent.mem = MemDequeues(M, "near") /\ DOMAIN sent = DOMAIN r.s
    BY <1>3, ZenonT(30) DEF RespSent, IsState, MemDequeues
  <2> HIDE DEF sent, left
  <2>2. /\ sent.mem \in [Memory -> MemRec] /\ \A j \in Memory : MemOK(sent.mem, j)
        /\ ~sent.mem["near"].retryResp /\ sent.mem["far"] = M["far"]
        /\ sent.mem["near"].retryReq = M["near"].retryReq
    BY <1>1, <1>6, <2>1, MemSends
  <2>3. IsState(sent)
    BY <1>3, <2>1, <2>2, ZenonT(30) DEF RespSent, IsState
  <2>4. SameFlow(sent, t)
    <3>1. SameFlow(sent, sent)
      BY <2>3 DEF SameFlow
    <3>2. SameFlow(sent, signalDrainDone(sent, <<"mem", "near">>))
      BY <2>3, SignalFlow, ZenonT(30)
    <3>3. QED
      BY <1>4, <1>9, <3>1, <3>2, ZenonT(30)
  <2> HIDE DEF t
  <2>5. NearRespOK(t.layer, t.mem)
    BY <1>3, <1>9, <2>1, <2>2, <2>4, ZenonT(30) DEF NearRespOK, RespSent, SameFlow
  <2>6. Flow(t)
    BY <1>7, <2>1, <2>2, <2>4, <2>5, ZenonT(30) DEF SameFlow
  <2>7. QED
    BY <2>6 DEF t
<1>10. QED
  BY <1>8, <1>9, ZenonT(30)

\* What the bridge becomes when response p arrives: BridgeMasterPort::recvTimingResp.
BridgeStores(B, p) ==
    [B EXCEPT !.resps = Append(@, p), !.respEvent = @ \/ B.resps = <<>>]

\* A response that arrives behind others waits with them; a first one is given an event.
LEMMA StoresResp ==
    ASSUME NEW L, NEW B \in BridgeRec, NEW p \in Pkt, BridgeRespOK(L, B)
    PROVE  LET B2 == BridgeStores(B, p)
           IN  /\ B2 \in BridgeRec /\ BridgeRespOK(L, B2)
               /\ B2.reqs = B.reqs /\ B2.reqEvent = B.reqEvent /\ B2.retryReq = B.retryReq
               /\ B2.outstandingResponses = B.outstandingResponses
               /\ B2.resps = Append(B.resps, p)
<1> DEFINE B2 == BridgeStores(B, p)
           q == Append(B.resps, p)
           e == B.respEvent \/ B.resps = <<>>
<1>1. B.resps \in Seq(Pkt) /\ B.respEvent \in BOOLEAN
  BY SMTT(30) DEF BridgeRec
<1>2. q \in Seq(Pkt) /\ q # <<>> /\ Head(q) = IF B.resps = <<>> THEN p ELSE Head(B.resps)
  BY <1>1, AppendLine, SMTT(30)
<1>3. e \in BOOLEAN /\ (e <=> B.respEvent \/ B.resps = <<>>)
  OBVIOUS
<1>4. B2 = [B EXCEPT !.resps = q, !.respEvent = e]
  BY DEF BridgeStores
<1> HIDE DEF q, e, B2
<1>5. /\ B2 \in BridgeRec /\ B2.resps = q /\ B2.respEvent = e
      /\ B2.reqs = B.reqs /\ B2.reqEvent = B.reqEvent /\ B2.retryReq = B.retryReq
      /\ B2.outstandingResponses = B.outstandingResponses
  BY <1>2, <1>3, <1>4, ZenonT(30) DEF BridgeRec
<1>6. BridgeRespOK(L, B2)
  BY <1>2, <1>3, <1>5, ZenonT(30) DEF BridgeRespOK
<1>7. QED
  BY <1>5, <1>6, ZenonT(30) DEF B2, q

\* The far memory is about to send its first response.
FarResponding(s) ==
    /\ IsState(s)
    /\ \A l \in Layers : LineOK(s.layer, l) /\ Owed(s.layer, l)
    /\ \A n \in Sender : SenderOK(s.sender, s.layer, n)
    /\ PeersOK(s.layer, s.bridge, s.mem)
    /\ Loaded(s.mem, "far") /\ MemOK(s.mem, "near")
    /\ BridgeReqOK(s.bridge, s.mem) /\ StallOK(s.bridge)
    /\ BridgeRespOK(s.layer, s.bridge) /\ NearRespOK(s.layer, s.mem)

\* SimpleMemory::dequeue of the far memory restores the invariant.
LEMMA DequeueFarKeeps ==
    ASSUME NEW s, FarResponding(s)
    PROVE  Flow(dequeue(s, "far"))
<1> DEFINE M == s.mem
           B == s.bridge
           p == Head(M["far"].packetQueue)
           left == Tail(M["far"].packetQueue)
           r == bridgeRecvTimingResp(s, p)
           v == [r.s EXCEPT !.mem["far"].retryResp = FALSE, !.mem["far"].packetQueue = left,
                            !.mem["far"].dequeueEvent = left # <<>>]
           t == dequeue(s, "far")
<1>1. /\ IsState(s) /\ M \in [Memory -> MemRec] /\ B \in BridgeRec /\ "far" \in Memory
      /\ "near" \in Memory /\ "near" # "far" /\ M["far"] \in MemRec /\ Memory \ {"far"} = {"near"}
  BY ZenonT(30) DEF FarResponding, IsState, Memory
<1>2. p \in Pkt
  BY <1>1, TailLine, ZenonT(30) DEF FarResponding, Loaded, MemRec
<1>3. t = IF ~r.ok THEN [r.s EXCEPT !.mem["far"].retryResp = TRUE]
           ELSE IF left = <<>> THEN signalDrainDone(v, <<"mem", "far">>)
           ELSE v
  BY DEF dequeue
<1>4. /\ r.ok /\ r.s.sender = s.sender /\ r.s.layer = s.layer /\ r.s.mem = M
      /\ DOMAIN r.s = DOMAIN s /\ r.s.bridge = BridgeStores(B, p)
  BY <1>1, ZenonT(30) DEF IsState, BridgeStores, bridgeRecvTimingResp, Done
<1> HIDE DEF r
<1>5. t = IF left = <<>> THEN signalDrainDone(v, <<"mem", "far">>) ELSE v
  BY <1>3, <1>4, ZenonT(30)
<1>6. /\ v.sender = s.sender /\ v.layer = s.layer /\ v.bridge = r.s.bridge /\ DOMAIN v = DOMAIN s
      /\ v.mem = MemDequeues(M, "far")
  BY <1>1, <1>4, ZenonT(30) DEF IsState, MemDequeues
<1> HIDE DEF v, left, p
<1>7. /\ v.bridge \in BridgeRec /\ BridgeRespOK(v.layer, v.bridge)
      /\ v.bridge.reqs = B.reqs /\ v.bridge.reqEvent = B.reqEvent
      /\ v.bridge.retryReq = B.retryReq
      /\ v.bridge.outstandingResponses = B.outstandingResponses
  BY <1>1, <1>2, <1>4, <1>6, StoresResp, SMTT(30) DEF FarResponding
<1>8. /\ v.mem \in [Memory -> MemRec] /\ \A j \in Memory : MemOK(v.mem, j)
      /\ v.mem["near"] = M["near"] /\ v.mem["far"].retryReq = M["far"].retryReq
  BY <1>1, <1>6, MemSends DEF FarResponding
<1>9. IsState(v)
  BY <1>1, <1>6, <1>7, <1>8, ZenonT(30) DEF IsState
<1>10. PeersOK(v.layer, v.bridge, v.mem) /\ NearRespOK(v.layer, v.mem)
  BY <1>6, <1>7, <1>8, ZenonT(30) DEF FarResponding, PeersOK, NearRespOK
<1>11. BridgeReqOK(v.bridge, v.mem) /\ StallOK(v.bridge)
  BY <1>7, <1>8, ZenonT(30) DEF FarResponding, BridgeReqOK, StallOK
<1>12. Flow(v)
  BY <1>6, <1>7, <1>8, <1>9, <1>10, <1>11, ZenonT(30) DEF Flow, FarResponding
<1>13. SameFlow(v, signalDrainDone(v, <<"mem", "far">>))
  BY <1>9, SignalFlow, ZenonT(30)
<1>14. CASE left = <<>>
  BY <1>5, <1>12, <1>13, <1>14, ZenonT(30) DEF Flow, SameFlow
<1>15. CASE left # <<>>
  BY <1>5, <1>12, <1>15, ZenonT(30)
<1>16. QED
  BY <1>14, <1>15, ZenonT(30)

-----------------------------------------------------------------------------
\* Response layer m is free and has a line.
RespCallDue(s, m) ==
    /\ IsState(s)
    /\ \A l \in Layers : LineOK(s.layer, l)
    /\ \A l \in Layers \ {m} : Owed(s.layer, l)
    /\ s.layer[m].waitingForLayer # <<>>
    /\ \A n \in Sender : SenderOK(s.sender, s.layer, n)
    /\ Rest(s)

\* The first port in line at response layer m sends its response.
LEMMA RetryRespKeeps ==
    ASSUME NEW s, NEW m \in Sender, RespCallDue(s, m)
    PROVE  Flow(retryRespLayer(s, m))
<1> DEFINE L == s.layer
           d == Head(L[m].waitingForLayer)
           t == Retrying(s, m)
           L2 == t.layer
           u == assert(t, s.mem[d].retryResp)
<1>1. /\ m \in Layers /\ m \notin Port /\ Port \subseteq Layers /\ IsState(s)
      /\ L \in [Layers -> LayerRec] /\ L[m].waitingForPeer = NULL
      /\ "near" \in Port /\ "bridge" \in Port /\ "near" # "bridge"
  BY PathAssumption, ZenonT(30) DEF Layers, RespCallDue, IsState, LineOK, Port
<1>2. /\ IsState(t) /\ L2 = LayerCalls(L, m)
      /\ t.sender = s.sender /\ t.bridge = s.bridge /\ t.mem = s.mem
  BY <1>1, RetryingFlow, ZenonT(30) DEF RespCallDue
<1>3. /\ \A k \in Layers : LineOK(L2, k)
      /\ d \in Callers(m) /\ In(L, d, m) /\ Leaves(L, L2, d, m)
      /\ \A k \in Layers \ {m} : L2[k] = L[k]
      /\ Ready(L2, m)
  BY <1>1, <1>2, CallsLine DEF RespCallDue
<1>4. d \in Port
  BY <1>1, <1>3, ZenonT(30) DEF Callers
<1> HIDE DEF t, d
<1>5. \A n \in Sender : SenderOK(t.sender, L2, n)
  <2>1. \A n \in Sender, k \in Port : In(L2, n, k) <=> In(L, n, k)
    BY <1>1, <1>3, ZenonT(30) DEF Leaves, Layers
  <2>2. QED
    BY <1>2, <2>1 DEF RespCallDue, SenderOK
<1>6. PeersOK(L2, t.bridge, t.mem)
  BY <1>1, <1>2, <1>3, ZenonT(30) DEF RespCallDue, Rest, PeersOK
<1>7. RespReady(t, m)
  BY <1>2, <1>3, <1>5, <1>6, ZenonT(30) DEF RespReady, RespCallDue, Rest, Owed
<1>8. \A n \in Sender, e \in Port : In(L2, e, n) <=> In(L, e, n) /\ ~(e = d /\ n = m)
  BY <1>3, ZenonT(30) DEF Leaves, Layers
<1>9. retryRespLayer(s, m) = Retried(IF d = "bridge" THEN bridgeSendResp(t) ELSE dequeue(u, d), m)
  BY DEF retryRespLayer, t, d
<1>10. CASE d = "bridge"
  <2>1. s.bridge.resps # <<>> /\ ~s.bridge.respEvent /\ from[Head(s.bridge.resps)] = m
    BY <1>3, <1>10, ZenonT(30) DEF RespCallDue, Rest, BridgeRespOK
  <2>2. \A n \in Sender : ~In(L2, "bridge", n)
    BY <1>1, <1>8, <1>10, <2>1, ZenonT(30) DEF RespCallDue, Rest, BridgeRespOK
  <2>3. NearRespOK(L2, t.mem)
    BY <1>1, <1>2, <1>8, <1>10, ZenonT(30) DEF RespCallDue, Rest, NearRespOK
  <2>4. BridgeResponding(t)
    BY <1>2, <1>7, <2>1, <2>2, <2>3, ZenonT(30) DEF BridgeResponding, RespCallDue, Rest
  <2>5. Flow(bridgeSendResp(t))
    BY <2>4, BridgeSendRespKeeps, ZenonT(30)
  <2>6. QED
    BY <1>1, <1>9, <1>10, <2>5, ZenonT(30) DEF Retried, Flow, Owed
<1>11. CASE d = "near"
  <2>1. s.mem["near"].retryResp /\ from[Head(s.mem["near"].packetQueue)] = m
    BY <1>3, <1>11, ZenonT(30) DEF RespCallDue, Rest, NearRespOK
  <2>2. \A n \in Sender : ~In(L2, "near", n)
    BY <1>1, <1>8, <1>11, <2>1, ZenonT(30) DEF RespCallDue, Rest, NearRespOK
  <2>3. BridgeRespOK(L2, t.bridge)
    BY <1>1, <1>2, <1>8, <1>11, ZenonT(30) DEF RespCallDue, Rest, BridgeRespOK
  <2>4. SameFlow(t, u)
    BY <1>2, AssertFlow, ZenonT(30)
  <2> HIDE DEF u
  <2>5. Loaded(s.mem, "near") /\ MemOK(s.mem, "far")
    <3>1. MemOK(s.mem, "near") /\ MemOK(s.mem, "far") /\ s.mem["near"] \in MemRec
      BY <1>1, ZenonT(30) DEF RespCallDue, Rest, Memory, IsState
    <3>2. QED
      BY <2>1, <3>1, ZenonT(30) DEF Loaded, MemOK, MemRec
  <2>6. RespReady(u, m)
    BY <1>7, <2>4, ZenonT(30) DEF RespReady, SameFlow
  <2>7. NearResponding(u)
    BY <1>2, <2>1, <2>2, <2>3, <2>4, <2>5, <2>6, ZenonT(30) DEF NearResponding, SameFlow
  <2>8. Flow(dequeue(u, "near"))
    BY <2>7, DequeueNearKeeps, ZenonT(30)
  <2>9. QED
    BY <1>1, <1>9, <1>11, <2>8, ZenonT(30) DEF Retried, Flow, Owed
<1>12. QED
  BY <1>4, <1>10, <1>11, ZenonT(30) DEF Port

-----------------------------------------------------------------------------
\* A packet queue sends its first packet by its event: PacketQueue::processSendEvent.
LEMMA SendEventKeeps ==
    ASSUME NEW s, Flow(s), NEW m \in Sender, s.sender[m].sendEvent
    PROVE  Flow(sendDeferredPacket([s EXCEPT !.sender[m].sendEvent = FALSE], m))
<1> DEFINE t == [s EXCEPT !.sender[m].sendEvent = FALSE]
           A == s.sender
<1>1. IsState(s) /\ A \in [Sender -> SenderRec] /\ A[m] \in SenderRec /\ SenderOK(A, s.layer, m)
  BY ZenonT(30) DEF Flow, IsState
<1>2. A[m].queue # <<>> /\ ~A[m].waitingOnRetry
  BY <1>1, ZenonT(30) DEF SenderOK, SenderRec
<1>3. /\ t.layer = s.layer /\ t.bridge = s.bridge /\ t.mem = s.mem /\ DOMAIN t = DOMAIN s
      /\ t.sender = [A EXCEPT ![m].sendEvent = FALSE]
  BY <1>1, ZenonT(30) DEF IsState
<1> HIDE DEF t
<1>4. /\ t.sender \in [Sender -> SenderRec] /\ t.sender[m].queue = A[m].queue
      /\ ~t.sender[m].sendEvent /\ ~t.sender[m].waitingOnRetry
      /\ \A n \in Sender \ {m} : t.sender[n] = A[n]
  <2> DEFINE a == [A[m] EXCEPT !.sendEvent = FALSE]
  <2> HIDE DEF A
  <2>1. a \in SenderRec /\ a.queue = A[m].queue /\ ~a.sendEvent /\ ~a.waitingOnRetry
    BY <1>1, <1>2, ZenonT(30) DEF SenderRec
  <2>2. t.sender = [A EXCEPT ![m] = a]
    BY <1>3, ZenonT(30)
  <2> HIDE DEF a
  <2>3. QED
    BY <1>1, <2>1, <2>2, ZenonT(30)
<1>5. IsState(t)
  BY <1>1, <1>3, <1>4, ZenonT(30) DEF IsState
<1>6. InHand(t.sender, t.layer, m)
  BY <1>1, <1>2, <1>3, <1>4, ZenonT(30) DEF InHand, SenderOK
<1>7. \A n \in Sender \ {m} : SenderOK(t.sender, t.layer, n)
  BY <1>3, <1>4 DEF Flow, SenderOK
<1>8. Rest(t)
  BY <1>3, ZenonT(30) DEF Flow, Rest
<1>9. Sending(t, m)
  BY <1>3, <1>5, <1>6, <1>7, <1>8, ZenonT(30) DEF Sending, Flow
<1>10. QED
  BY <1>9, SendKeeps, ZenonT(30) DEF t

\* A layer ends its occupation, and calls the first in its line if it may:
\* Layer::releaseLayer.
LayerFrees(L, l) == [L EXCEPT ![l].state = "IDLE"]

\* Who is in line does not depend on the layer's state.
LEMMA FreesLine ==
    ASSUME NEW L \in [Layers -> LayerRec], \A k \in Layers : LineOK(L, k), NEW l \in Layers
    PROVE  LET L2 == LayerFrees(L, l)
           IN  /\ L2 \in [Layers -> LayerRec]
               /\ \A k \in Layers : LineOK(L2, k)
               /\ SameLines(L, L2)
               /\ \A k \in Layers : /\ L2[k].waitingForLayer = L[k].waitingForLayer
                                    /\ L2[k].waitingForPeer = L[k].waitingForPeer
               /\ \A k \in Layers \ {l} : L2[k] = L[k]
               /\ L2[l].state = "IDLE"
<1> DEFINE L2 == LayerFrees(L, l)
<1>1. L[l] \in LayerRec
  OBVIOUS
<1>2. /\ L2 \in [Layers -> LayerRec] /\ L2[l].state = "IDLE"
      /\ \A k \in Layers \ {l} : L2[k] = L[k]
      /\ L2[l].waitingForLayer = L[l].waitingForLayer /\ L2[l].waitingForPeer = L[l].waitingForPeer
  BY <1>1, ZenonT(30) DEF LayerFrees, LayerRec, States
<1> HIDE DEF L2
<1>3. \A k \in Layers : /\ L2[k].waitingForLayer = L[k].waitingForLayer
                        /\ L2[k].waitingForPeer = L[k].waitingForPeer
  BY <1>2, ZenonT(30)
<1>4. \A k \in Layers : LineOK(L2, k)
  BY <1>3, ZenonT(30) DEF LineOK
<1>5. SameLines(L, L2)
  BY <1>3, ZenonT(30) DEF SameLines, In
<1>6. QED
  BY <1>2, <1>3, <1>4, <1>5, ZenonT(30) DEF L2

\* What Layer::releaseLayer does to the state, without the guard.
Released(s, l) ==
    LET t == [s EXCEPT !.layer[l].state = "IDLE"]
    IN  IF s.layer[l].waitingForPeer # NULL THEN t
        ELSE IF s.layer[l].waitingForLayer = <<>> THEN signalDrainDone(t, <<"layer", l>>)
        ELSE IF l \in Port THEN retryReqLayer(t, l)
        ELSE retryRespLayer(t, l)

\* Releasing a layer restores the invariant.
LEMMA ReleaseLayerKeeps ==
    ASSUME NEW s, Flow(s), NEW l \in Layers
    PROVE  Flow(Released(s, l))
<1> DEFINE t == [s EXCEPT !.layer[l].state = "IDLE"]
           L == s.layer
<1>1. /\ IsState(s) /\ L \in [Layers -> LayerRec] /\ \A k \in Layers : LineOK(L, k) /\ Owed(L, k)
      /\ "near" \in Layers /\ "bridge" \in Layers
  BY ZenonT(30) DEF Flow, IsState, Layers, Port
<1>2. /\ t.layer = LayerFrees(L, l) /\ DOMAIN t = DOMAIN s
      /\ t.sender = s.sender /\ t.bridge = s.bridge /\ t.mem = s.mem
  BY <1>1, ZenonT(30) DEF IsState, LayerFrees
<1>3. Released(s, l) =
        IF L[l].waitingForPeer # NULL THEN t
        ELSE IF L[l].waitingForLayer = <<>> THEN signalDrainDone(t, <<"layer", l>>)
        ELSE IF l \in Port THEN retryReqLayer(t, l)
        ELSE retryRespLayer(t, l)
  BY SMTT(30) DEF Released
<1> HIDE DEF t
<1>4. /\ t.layer \in [Layers -> LayerRec]
      /\ \A k \in Layers : LineOK(t.layer, k)
      /\ SameLines(L, t.layer)
      /\ \A k \in Layers : /\ t.layer[k].waitingForLayer = L[k].waitingForLayer
                           /\ t.layer[k].waitingForPeer = L[k].waitingForPeer
      /\ \A k \in Layers \ {l} : t.layer[k] = L[k]
      /\ t.layer[l].state = "IDLE"
  BY <1>1, <1>2, FreesLine, SMTT(30)
<1>5. IsState(t)
  BY <1>1, <1>2, <1>4, ZenonT(30) DEF IsState
<1>6. \A n \in Sender : SenderOK(t.sender, t.layer, n)
  <2>1. \A n \in Sender, k \in Port : In(t.layer, n, k) <=> In(L, n, k)
    BY <1>4, ZenonT(30) DEF SameLines, Layers
  <2>2. QED
    BY <1>2, <2>1 DEF Flow, SenderOK
<1>7. Rest(t)
  <2>1. \A n \in Sender, k \in Port : In(t.layer, k, n) <=> In(L, k, n)
    BY <1>4, ZenonT(30) DEF SameLines, Layers
  <2>2. BridgeRespOK(t.layer, t.bridge) /\ NearRespOK(t.layer, t.mem)
    BY <1>2, <2>1, ZenonT(30) DEF Flow, BridgeRespOK, NearRespOK, Port
  <2>3. PeersOK(t.layer, t.bridge, t.mem)
    BY <1>1, <1>2, <1>4, ZenonT(30) DEF Flow, PeersOK
  <2>4. QED
    BY <1>2, <2>2, <2>3, ZenonT(30) DEF Flow, Rest
<1>8. \A k \in Layers \ {l} : Owed(t.layer, k)
  BY <1>1, <1>4, ZenonT(30) DEF Owed
<1>9. CASE L[l].waitingForPeer # NULL \/ L[l].waitingForLayer = <<>>
  <2>1. Owed(t.layer, l)
    BY <1>4, <1>9, ZenonT(30) DEF Owed
  <2>2. Flow(t)
    BY <1>4, <1>5, <1>6, <1>7, <1>8, <2>1, ZenonT(30) DEF Flow, Rest
  <2>3. SameFlow(t, signalDrainDone(t, <<"layer", l>>))
    BY <1>5, SignalFlow, ZenonT(30)
  <2>4. Flow(signalDrainDone(t, <<"layer", l>>))
    BY <2>2, <2>3, ZenonT(30) DEF Flow, SameFlow
  <2>5. QED
    BY <1>3, <1>9, <2>2, <2>4, ZenonT(30)
<1>10. CASE L[l].waitingForPeer = NULL /\ L[l].waitingForLayer # <<>> /\ l \in Port
  <2>1. CallDue(t, l)
    BY <1>4, <1>5, <1>6, <1>7, <1>8, <1>10, SMTT(30) DEF CallDue
  <2>2. QED
    BY <1>3, <1>10, <2>1, RetryReqKeeps, ZenonT(30)
<1>11. CASE L[l].waitingForPeer = NULL /\ L[l].waitingForLayer # <<>> /\ l \notin Port
  <2>1. RespCallDue(t, l) /\ l \in Sender
    BY <1>4, <1>5, <1>6, <1>7, <1>8, <1>11, SMTT(30) DEF RespCallDue, Layers
  <2>2. QED
    BY <1>3, <1>11, <2>1, RetryRespKeeps, ZenonT(30)
<1>12. QED
  BY <1>9, <1>10, <1>11, ZenonT(30)

-----------------------------------------------------------------------------
\* The bridge sends its first request by its event.
LEMMA BridgeReqEventKeeps ==
    ASSUME NEW s, Flow(s), s.bridge.reqEvent
    PROVE  Flow(bridgeSendReq([s EXCEPT !.bridge.reqEvent = FALSE]))
<1> DEFINE t == [s EXCEPT !.bridge.reqEvent = FALSE]
           B == s.bridge
           b == [B EXCEPT !.reqEvent = FALSE]
<1>1. /\ IsState(s) /\ B \in BridgeRec /\ BridgeReqOK(B, s.mem)
      /\ "far" \in Memory /\ s.mem["far"] \in MemRec
  BY ZenonT(30) DEF Flow, IsState, Memory
<1>2. B.reqs # <<>> /\ ~s.mem["far"].retryReq
  BY <1>1, ZenonT(30) DEF BridgeReqOK, BridgeRec, MemRec
<1>3. /\ t.sender = s.sender /\ t.layer = s.layer /\ t.mem = s.mem /\ DOMAIN t = DOMAIN s
      /\ t.bridge = b
  BY <1>1 DEF IsState
<1> HIDE DEF t
<1>4. /\ b \in BridgeRec /\ ~b.reqEvent /\ b.reqs = B.reqs /\ b.resps = B.resps
      /\ b.respEvent = B.respEvent /\ b.retryReq = B.retryReq
  <2> HIDE DEF B
  <2>1. QED
    BY <1>1, ZenonT(30) DEF BridgeRec
<1> HIDE DEF b
<1>5. IsState(t)
  BY <1>1, <1>3, <1>4, ZenonT(30) DEF IsState
<1>6. PeersOK(t.layer, t.bridge, t.mem) /\ BridgeRespOK(t.layer, t.bridge)
  BY <1>3, <1>4 DEF Flow, PeersOK, BridgeRespOK
<1>7. BridgeSending(t)
  BY <1>2, <1>3, <1>4, <1>5, <1>6, ZenonT(30) DEF BridgeSending, Flow
<1>8. QED
  BY <1>7, BridgeSendReqKeeps, ZenonT(30) DEF t

\* The bridge sends its first response by its event.
LEMMA BridgeRespEventKeeps ==
    ASSUME NEW s, Flow(s), s.bridge.respEvent
    PROVE  Flow(bridgeSendResp([s EXCEPT !.bridge.respEvent = FALSE]))
<1> DEFINE t == [s EXCEPT !.bridge.respEvent = FALSE]
           B == s.bridge
           b == [B EXCEPT !.respEvent = FALSE]
<1>1. IsState(s) /\ B \in BridgeRec /\ BridgeRespOK(s.layer, B)
  BY ZenonT(30) DEF Flow, IsState
<1>2. B.resps # <<>> /\ \A n \in Sender : ~In(s.layer, "bridge", n)
  BY <1>1, ZenonT(30) DEF BridgeRespOK
<1>3. /\ t.sender = s.sender /\ t.layer = s.layer /\ t.mem = s.mem /\ DOMAIN t = DOMAIN s
      /\ t.bridge = b
  BY <1>1 DEF IsState
<1> HIDE DEF t
<1>4. /\ b \in BridgeRec /\ ~b.respEvent /\ b.reqs = B.reqs /\ b.resps = B.resps
      /\ b.reqEvent = B.reqEvent /\ b.retryReq = B.retryReq
      /\ b.outstandingResponses = B.outstandingResponses
  <2> HIDE DEF B
  <2>1. QED
    BY <1>1, ZenonT(30) DEF BridgeRec
<1> HIDE DEF b
<1>5. IsState(t)
  BY <1>1, <1>3, <1>4, ZenonT(30) DEF IsState
<1>6. /\ PeersOK(t.layer, t.bridge, t.mem) /\ BridgeReqOK(t.bridge, t.mem) /\ StallOK(t.bridge)
  BY <1>3, <1>4, ZenonT(30) DEF Flow, PeersOK, BridgeReqOK, StallOK
<1>7. RespReady(t, from[Head(t.bridge.resps)])
  BY <1>3, <1>5, <1>6, ZenonT(30) DEF RespReady, Flow
<1>8. BridgeResponding(t)
  BY <1>2, <1>3, <1>4, <1>7, ZenonT(30) DEF BridgeResponding, Flow
<1>9. QED
  BY <1>8, BridgeSendRespKeeps, ZenonT(30) DEF t

\* What SimpleMemory::release makes of memory k.
MemFrees(M, k) == [M EXCEPT ![k].isBusy = FALSE, ![k].retryReq = FALSE]

\* A memory that is free again owes nobody a retry; its responses stay.
LEMMA FreesMem ==
    ASSUME NEW M \in [Memory -> MemRec], NEW k \in Memory, \A j \in Memory : MemOK(M, j)
    PROVE  LET M2 == MemFrees(M, k)
           IN  /\ M2 \in [Memory -> MemRec] /\ \A j \in Memory : MemOK(M2, j)
               /\ ~M2[k].retryReq /\ \A j \in Memory \ {k} : M2[j] = M[j]
               /\ M2[k].packetQueue = M[k].packetQueue /\ M2[k].retryResp = M[k].retryResp
<1> DEFINE M2 == MemFrees(M, k)
           c == [M[k] EXCEPT !.isBusy = FALSE, !.retryReq = FALSE]
<1>1. M[k] \in MemRec /\ MemOK(M, k)
  OBVIOUS
<1>2. /\ c \in MemRec /\ ~c.isBusy /\ ~c.retryReq /\ c.packetQueue = M[k].packetQueue
      /\ c.retryResp = M[k].retryResp /\ c.dequeueEvent = M[k].dequeueEvent
  BY <1>1, ZenonT(30) DEF MemRec
<1>3. M2 = [M EXCEPT ![k] = c]
  BY ZenonT(30) DEF MemFrees
<1> HIDE DEF M2, c
<1>4. /\ M2 \in [Memory -> MemRec] /\ M2[k] = c /\ \A j \in Memory \ {k} : M2[j] = M[j]
  BY <1>2, <1>3, ZenonT(30)
<1>5. \A j \in Memory : MemOK(M2, j)
  BY <1>1, <1>2, <1>4, SMTT(30) DEF MemOK
<1>6. QED
  BY <1>2, <1>4, <1>5, ZenonT(30) DEF M2

\* What SimpleMemory::release does to the state, without the guard.
MemReleased(s, k) ==
    LET t == [s EXCEPT !.mem[k].isBusy = FALSE, !.mem[k].retryReq = FALSE]
    IN  IF ~s.mem[k].retryReq THEN t
        ELSE IF k = "far" THEN bridgeSendReq(t)
        ELSE recvReqRetry(t, k)

\* A memory that ends its request restores the invariant.
LEMMA ReleaseKeeps ==
    ASSUME NEW s, Flow(s), NEW k \in Memory
    PROVE  Flow(MemReleased(s, k))
<1> DEFINE t == [s EXCEPT !.mem[k].isBusy = FALSE, !.mem[k].retryReq = FALSE]
           M == s.mem
<1>1. /\ IsState(s) /\ M \in [Memory -> MemRec] /\ M[k] \in MemRec /\ \A j \in Memory : MemOK(M, j)
      /\ s.bridge \in BridgeRec /\ "near" \in Memory /\ "far" \in Memory /\ "near" # "far"
  BY ZenonT(30) DEF Flow, IsState, Memory
<1>2. /\ t.mem = MemFrees(M, k) /\ DOMAIN t = DOMAIN s
      /\ t.sender = s.sender /\ t.layer = s.layer /\ t.bridge = s.bridge
  BY <1>1, ZenonT(30) DEF IsState, MemFrees
<1>3. MemReleased(s, k) = IF ~M[k].retryReq THEN t
                          ELSE IF k = "far" THEN bridgeSendReq(t)
                          ELSE recvReqRetry(t, k)
  BY SMTT(30) DEF MemReleased
<1> HIDE DEF t
<1>4. /\ t.mem \in [Memory -> MemRec] /\ \A j \in Memory : MemOK(t.mem, j)
      /\ ~t.mem[k].retryReq /\ \A j \in Memory \ {k} : t.mem[j] = M[j]
      /\ t.mem[k].packetQueue = M[k].packetQueue /\ t.mem[k].retryResp = M[k].retryResp
  BY <1>1, <1>2, FreesMem
<1>5. IsState(t)
  BY <1>1, <1>2, <1>4, ZenonT(30) DEF IsState
<1>6. NearRespOK(t.layer, t.mem)
  <2>1. /\ t.mem["near"].packetQueue = M["near"].packetQueue
        /\ t.mem["near"].retryResp = M["near"].retryResp
    BY <1>1, <1>4, ZenonT(30)
  <2>2. QED
    BY <1>2, <2>1, ZenonT(30) DEF Flow, NearRespOK
<1>7. CASE ~M[k].retryReq
  <2>1. \A j \in Memory : t.mem[j].retryReq <=> M[j].retryReq
    BY <1>4, <1>7, ZenonT(30)
  <2>2. PeersOK(t.layer, t.bridge, t.mem)
    BY <1>1, <1>2, <2>1, ZenonT(30) DEF Flow, PeersOK
  <2>3. t.mem["far"] \in MemRec /\ M["far"] \in MemRec
    BY <1>1, <1>4, ZenonT(30)
  <2>4. BridgeReqOK(t.bridge, t.mem) /\ StallOK(t.bridge)
    BY <1>1, <1>2, <2>1, <2>3, ZenonT(30) DEF Flow, BridgeReqOK, BridgeRec, MemRec
  <2>5. Flow(t)
    BY <1>2, <1>4, <1>5, <1>6, <2>2, <2>4, ZenonT(30) DEF Flow
  <2>6. QED
    BY <1>3, <1>7, <2>5, ZenonT(30)
<1>8. CASE M[k].retryReq /\ k = "far"
  <2>1. BridgeReqOK(s.bridge, M)
    BY DEF Flow
  <2>2. s.bridge.reqs # <<>> /\ ~s.bridge.reqEvent
    BY <1>1, <1>8, <2>1, ZenonT(30) DEF BridgeReqOK, BridgeRec, MemRec
  <2>3. PeersOK(t.layer, t.bridge, t.mem)
    BY <1>1, <1>2, <1>4, <1>8, ZenonT(30) DEF Flow, PeersOK
  <2>4. BridgeSending(t)
    BY <1>2, <1>4, <1>5, <1>6, <1>8, <2>2, <2>3, ZenonT(30) DEF BridgeSending, Flow
  <2>5. QED
    BY <1>3, <1>8, <2>4, BridgeSendReqKeeps, ZenonT(30)
<1>9. CASE M[k].retryReq /\ k = "near"
  <2>1. "near" \in Port /\ "near" # "bridge" /\ Port \ {"near"} = {"bridge"}
    BY DEF Port
  <2>2. t.layer["near"].waitingForPeer # NULL /\ ~Noted(t, "near")
    BY <1>2, <1>4, <1>9, <2>1, ZenonT(30) DEF Flow, PeersOK, Noted
  <2>3. (t.layer["bridge"].waitingForPeer # NULL) <=> Noted(t, "bridge")
    BY <1>2, ZenonT(30) DEF Flow, PeersOK, Noted
  <2>4. BridgeReqOK(t.bridge, t.mem) /\ StallOK(t.bridge)
    BY <1>1, <1>2, <1>4, <1>9, ZenonT(30) DEF Flow, BridgeReqOK
  <2>5. RetryDue(t, "near")
    BY <1>2, <1>4, <1>5, <1>6, <2>1, <2>2, <2>3, <2>4, ZenonT(30) DEF RetryDue, Flow
  <2>6. QED
    BY <1>1, <1>3, <1>9, <2>1, <2>5, RecvReqRetryKeeps, SMTT(30)
<1>10. QED
  BY <1>7, <1>8, <1>9, ZenonT(30) DEF Memory

\* A memory sends its first response by its event.
LEMMA DequeueEventKeeps ==
    ASSUME NEW s, Flow(s), NEW k \in Memory, s.mem[k].dequeueEvent
    PROVE  Flow(dequeue([s EXCEPT !.mem[k].dequeueEvent = FALSE], k))
<1> DEFINE t == [s EXCEPT !.mem[k].dequeueEvent = FALSE]
           M == s.mem
           c == [M[k] EXCEPT !.dequeueEvent = FALSE]
<1>1. /\ IsState(s) /\ M \in [Memory -> MemRec] /\ M[k] \in MemRec /\ \A j \in Memory : MemOK(M, j)
      /\ "near" \in Memory /\ "far" \in Memory /\ "near" # "far"
  BY ZenonT(30) DEF Flow, IsState, Memory
<1>2. M[k].packetQueue # <<>> /\ ~M[k].retryResp
  BY <1>1, ZenonT(30) DEF MemOK, MemRec
<1>3. /\ t.mem = [M EXCEPT ![k] = c] /\ DOMAIN t = DOMAIN s
      /\ t.sender = s.sender /\ t.layer = s.layer /\ t.bridge = s.bridge
  BY <1>1, ZenonT(30) DEF IsState
<1> HIDE DEF t
<1>4. /\ c \in MemRec /\ ~c.dequeueEvent /\ c.packetQueue = M[k].packetQueue
      /\ c.retryResp = M[k].retryResp /\ c.isBusy = M[k].isBusy /\ c.retryReq = M[k].retryReq
  <2> HIDE DEF M
  <2>1. QED
    BY <1>1, ZenonT(30) DEF MemRec
<1> HIDE DEF c
<1>5. /\ t.mem \in [Memory -> MemRec] /\ t.mem[k] = c /\ \A j \in Memory \ {k} : t.mem[j] = M[j]
  BY <1>1, <1>3, <1>4, SMTT(30)
<1>6. IsState(t)
  BY <1>1, <1>3, <1>5, ZenonT(30) DEF IsState
<1>7. Loaded(t.mem, k) /\ \A j \in Memory \ {k} : MemOK(t.mem, j)
  BY <1>1, <1>2, <1>4, <1>5, SMTT(30) DEF Loaded, MemOK
<1>8. \A j \in Memory : /\ t.mem[j].retryReq = M[j].retryReq /\ t.mem[j].retryResp = M[j].retryResp
                        /\ t.mem[j].packetQueue = M[j].packetQueue
  BY <1>4, <1>5, ZenonT(30)
<1>9. /\ PeersOK(t.layer, t.bridge, t.mem) /\ BridgeReqOK(t.bridge, t.mem) /\ StallOK(t.bridge)
      /\ BridgeRespOK(t.layer, t.bridge) /\ NearRespOK(t.layer, t.mem)
  BY <1>1, <1>3, <1>8, SMTT(30) DEF Flow, PeersOK, BridgeReqOK, NearRespOK
<1>10. CASE k = "near"
  <2>1. \A n \in Sender : ~In(t.layer, "near", n)
    BY <1>2, <1>3, <1>10, ZenonT(30) DEF Flow, NearRespOK
  <2>2. RespReady(t, from[Head(t.mem["near"].packetQueue)])
    BY <1>3, <1>6, <1>9, ZenonT(30) DEF RespReady, Flow
  <2>3. NearResponding(t)
    BY <1>1, <1>7, <1>9, <1>10, <2>1, <2>2, ZenonT(30) DEF NearResponding
  <2>4. QED
    BY <1>10, <2>3, DequeueNearKeeps, ZenonT(30) DEF t
<1>11. CASE k = "far"
  <2>1. /\ \A l \in Layers : LineOK(t.layer, l) /\ Owed(t.layer, l)
        /\ \A n \in Sender : SenderOK(t.sender, t.layer, n)
    BY <1>3, ZenonT(30) DEF Flow
  <2>2. Loaded(t.mem, "far") /\ MemOK(t.mem, "near")
    BY <1>1, <1>7, <1>11, ZenonT(30)
  <2>3. FarResponding(t)
    BY <1>6, <1>9, <2>1, <2>2, ZenonT(30) DEF FarResponding
  <2>4. QED
    BY <1>11, <2>3, DequeueFarKeeps, ZenonT(30) DEF t
<1>12. QED
  BY <1>10, <1>11, ZenonT(30) DEF Memory

\* A packet joins the queue of its sender: PacketQueue::schedSendTiming.
LEMMA SchedKeeps ==
    ASSUME FlowInv, NEW p \in Pkt, schedSendTiming(p)
    PROVE  /\ \A n \in Sender : SenderOK(sender', layer, n)
           /\ sender' \in [Sender -> SenderRec]
<1> DEFINE m == from[p]
           a == sender[m]
           q == Append(a.queue, p)
           e == a.sendEvent \/ (a.queue = <<>> /\ ~a.waitingOnRetry)
           b == [a EXCEPT !.queue = q, !.sendEvent = e]
<1>1. /\ sender \in [Sender -> SenderRec] /\ m \in Sender /\ a \in SenderRec
      /\ \A n \in Sender : SenderOK(sender, layer, n)
  BY PathAssumption, ZenonT(30) DEF FlowInv, Flow, IsState, path
<1>2. a.queue \in Seq(Pkt) /\ a.sendEvent \in BOOLEAN /\ a.waitingOnRetry \in BOOLEAN
  BY <1>1, ZenonT(30) DEF SenderRec
<1>3. /\ q \in Seq(Pkt) /\ q # <<>> /\ Head(q) = (IF a.queue = <<>> THEN p ELSE Head(a.queue))
      /\ \A y : Contains(q, y) <=> Contains(a.queue, y) \/ y = p
  BY <1>2, AppendLine, SMTT(30)
<1>4. e \in BOOLEAN /\ (e <=> a.sendEvent \/ (a.queue = <<>> /\ ~a.waitingOnRetry))
  OBVIOUS
<1>5. sender' = [sender EXCEPT ![m] = b]
  BY <1>1, ZenonT(30) DEF schedSendTiming
<1> HIDE DEF q, e
<1>6. /\ b \in SenderRec /\ b.queue = q /\ b.sendEvent = e /\ b.waitingOnRetry = a.waitingOnRetry
  <2> HIDE DEF a
  <2>1. QED
    BY <1>1, <1>3, <1>4, ZenonT(30) DEF SenderRec
<1> HIDE DEF b
<1>7. /\ sender' \in [Sender -> SenderRec] /\ sender'[m] = b
      /\ \A n \in Sender \ {m} : sender'[n] = sender[n]
  BY <1>1, <1>5, <1>6, ZenonT(30)
<1>8. SenderOK(sender', layer, m)
  <2>1. /\ \A y : Contains(a.queue, y) => from[y] = m
        /\ (a.queue # <<>>) <=> (a.sendEvent # a.waitingOnRetry)
        /\ a.waitingOnRetry => a.queue # <<>>
        /\ \A d \in Port : In(layer, m, d) <=> a.waitingOnRetry /\ to[Head(a.queue)] = d
    BY <1>1, ZenonT(30) DEF SenderOK
  <2>2. /\ \A y : Contains(q, y) => from[y] = m
        /\ e # a.waitingOnRetry
        /\ \A d \in Port : In(layer, m, d) <=> a.waitingOnRetry /\ to[Head(q)] = d
    <3> HIDE DEF a
    <3>1. \A y : Contains(q, y) => from[y] = m
      BY <1>3, <2>1, ZenonT(30)
    <3>2. e # a.waitingOnRetry
      BY <1>2, <1>4, <2>1, ZenonT(30)
    <3>3. \A d \in Port : In(layer, m, d) <=> a.waitingOnRetry /\ to[Head(q)] = d
      BY <1>3, <2>1, ZenonT(30)
    <3>4. QED
      BY <3>1, <3>2, <3>3, ZenonT(30)
  <2>3. QED
    BY <1>3, <1>6, <1>7, <2>2, ZenonT(30) DEF SenderOK
<1>9. \A n \in Sender \ {m} : SenderOK(sender', layer, n)
  BY <1>1, <1>7 DEF SenderOK
<1>10. QED
  BY <1>7, <1>8, <1>9, ZenonT(30)

-----------------------------------------------------------------------------
\* Nothing waits in the initial state.
LEMMA InitFlow == ASSUME Init PROVE FlowInv
<1>1. IsState(path)
  <2>1. <<>> \in Seq(Pkt) /\ <<>> \in Seq(Port \cup Sender) /\ 0 \in Int
    OBVIOUS
  <2>2. sender \in [Sender -> SenderRec] /\ layer \in [Layers -> LayerRec]
    BY <2>1, ZenonT(30) DEF Init, SenderRec, LayerRec, States
  <2>3. bridge \in BridgeRec /\ mem \in [Memory -> MemRec]
    BY <2>1, ZenonT(30) DEF Init, BridgeRec, MemRec
  <2>4. QED
    BY <2>2, <2>3, ZenonT(30) DEF IsState, path
<1>2. \A x : ~Contains(<<>>, x)
  BY DEF Contains
<1>3. IsInjective(<<>>)
  BY DEF IsInjective
<1>4. /\ \A l \in Layers : /\ layer[l].state = "IDLE" /\ layer[l].waitingForLayer = <<>>
                           /\ layer[l].waitingForPeer = NULL
      /\ \A m \in Sender : /\ sender[m].queue = <<>> /\ sender[m].waitingOnRetry = FALSE
                           /\ sender[m].sendEvent = FALSE
      /\ bridge.reqs = <<>> /\ bridge.resps = <<>> /\ bridge.retryReq = FALSE
      /\ bridge.reqEvent = FALSE /\ bridge.respEvent = FALSE
      /\ \A k \in Memory : /\ mem[k].isBusy = FALSE /\ mem[k].retryReq = FALSE
                           /\ mem[k].packetQueue = <<>>
                           /\ mem[k].retryResp = FALSE /\ mem[k].dequeueEvent = FALSE
  BY ZenonT(30) DEF Init
<1>5. \A x \in Port \cup Sender, l \in Layers : ~In(layer, x, l)
  BY <1>2, <1>4, PathAssumption, SMTT(30) DEF In
<1>6. /\ "near" \in Port /\ "bridge" \in Port /\ "near" \in Layers /\ "bridge" \in Layers
      /\ "near" \in Memory /\ "far" \in Memory /\ Port \subseteq Layers /\ Sender \subseteq Layers
  BY DEF Port, Layers, Memory
<1>7. \A l \in Layers : LineOK(layer, l) /\ Owed(layer, l)
  BY <1>2, <1>3, <1>4, ZenonT(30) DEF LineOK, Owed
<1>8. \A m \in Sender : SenderOK(sender, layer, m)
  BY <1>2, <1>4, <1>5, <1>6, ZenonT(30) DEF SenderOK
<1>9. /\ PeersOK(layer, bridge, mem) /\ BridgeReqOK(bridge, mem) /\ StallOK(bridge)
      /\ \A k \in Memory : MemOK(mem, k)
  BY <1>4, <1>6, ZenonT(30) DEF PeersOK, BridgeReqOK, StallOK, MemOK
<1>10. BridgeRespOK(layer, bridge) /\ NearRespOK(layer, mem)
  BY <1>4, <1>5, <1>6, ZenonT(30) DEF BridgeRespOK, NearRespOK
<1>11. QED
  BY <1>1, <1>7, <1>8, <1>9, <1>10, ZenonT(30) DEF FlowInv, Flow, path

\* An event handler's result is the next state.
LEMMA BecomesFlow ==
    ASSUME NEW s, Flow(s), Becomes(s)
    PROVE  FlowInv'
<1>1. IsState(path')
  BY ZenonT(30) DEF Flow, IsState, Becomes, path
<1>2. QED
  BY <1>1, ZenonT(30) DEF FlowInv, Flow, Becomes, path

\* Every step keeps the invariant.
LEMMA StepFlow == ASSUME FlowInv, [Next]_vars PROVE FlowInv'
<1>1. ASSUME NEW p \in Pkt, schedSendTiming(p) PROVE FlowInv'
  <2>1. /\ layer' = layer /\ bridge' = bridge /\ mem' = mem
    BY <1>1, ZenonT(30) DEF schedSendTiming
  <2>2. (\A n \in Sender : SenderOK(sender', layer, n)) /\ sender' \in [Sender -> SenderRec]
    BY <1>1, SchedKeeps, ZenonT(30)
  <2>3. IsState(path')
    BY <2>1, <2>2, ZenonT(30) DEF FlowInv, Flow, IsState, path
  <2>4. QED
    BY <2>1, <2>2, <2>3, ZenonT(30) DEF FlowInv, Flow, path
<1>2. ASSUME NEW m \in Sender, processSendEvent(m) PROVE FlowInv'
  <2>1. path.sender[m].sendEvent /\ Flow(path)
    BY <1>2, ZenonT(30) DEF processSendEvent, path, FlowInv
  <2>2. Flow(sendDeferredPacket([path EXCEPT !.sender[m].sendEvent = FALSE], m))
    BY <2>1, SendEventKeeps, ZenonT(30)
  <2>3. QED
    BY <1>2, <2>2, BecomesFlow, ZenonT(30) DEF processSendEvent
<1>3. ASSUME NEW l \in Layers, releaseLayer(l) PROVE FlowInv'
  <2>1. path.layer = layer
    BY DEF path
  <2>2. Becomes(Released(path, l))
    BY <1>3, <2>1, ZenonT(30) DEF releaseLayer, Released
  <2>3. Flow(Released(path, l))
    BY ReleaseLayerKeeps DEF FlowInv
  <2>4. QED
    BY <2>2, <2>3, BecomesFlow, ZenonT(30)
<1>4. CASE bridgeReqEvent
  <2>1. path.bridge.reqEvent /\ Flow(path)
    BY <1>4, ZenonT(30) DEF bridgeReqEvent, path, FlowInv
  <2>2. Flow(bridgeSendReq([path EXCEPT !.bridge.reqEvent = FALSE]))
    BY <2>1, BridgeReqEventKeeps, ZenonT(30)
  <2>3. QED
    BY <1>4, <2>2, BecomesFlow, ZenonT(30) DEF bridgeReqEvent
<1>5. CASE bridgeRespEvent
  <2>1. path.bridge.respEvent /\ Flow(path)
    BY <1>5, ZenonT(30) DEF bridgeRespEvent, path, FlowInv
  <2>2. Flow(bridgeSendResp([path EXCEPT !.bridge.respEvent = FALSE]))
    BY <2>1, BridgeRespEventKeeps, ZenonT(30)
  <2>3. QED
    BY <1>5, <2>2, BecomesFlow, ZenonT(30) DEF bridgeRespEvent
<1>6. ASSUME NEW k \in Memory, release(k) PROVE FlowInv'
  <2>1. path.mem = mem
    BY DEF path
  <2>2. Becomes(MemReleased(path, k))
    BY <1>6, <2>1, ZenonT(30) DEF release, MemReleased
  <2>3. Flow(MemReleased(path, k))
    BY ReleaseKeeps DEF FlowInv
  <2>4. QED
    BY <2>2, <2>3, BecomesFlow, ZenonT(30)
<1>7. ASSUME NEW k \in Memory, dequeueEvent(k) PROVE FlowInv'
  <2>1. path.mem[k].dequeueEvent /\ Flow(path)
    BY <1>7, ZenonT(30) DEF dequeueEvent, path, FlowInv
  <2>2. Flow(dequeue([path EXCEPT !.mem[k].dequeueEvent = FALSE], k))
    BY <2>1, DequeueEventKeeps, ZenonT(30)
  <2>3. QED
    BY <1>7, <2>2, BecomesFlow, ZenonT(30) DEF dequeueEvent
<1>8. CASE drainPass \/ drainResume \/ UNCHANGED vars
  <2>1. UNCHANGED <<sender, layer, bridge, mem>>
    BY <1>8, ZenonT(30) DEF drainPass, drainResume, vars
  <2>2. IsState(path')
    BY <2>1, ZenonT(30) DEF FlowInv, Flow, IsState, path
  <2>3. QED
    BY <2>1, <2>2, ZenonT(30) DEF FlowInv, Flow, path
<1>9. QED
  BY <1>1, <1>2, <1>3, <1>4, <1>5, <1>6, <1>7, <1>8, SMTT(30) DEF Next, Event

\* The invariant says what is owed to whom.
LEMMA FlowOwes == ASSUME FlowInv PROVE WakeUpOwed
<1>1. Flow(path) /\ path.sender = sender /\ path.layer = layer /\ path.bridge = bridge /\ path.mem = mem
  BY DEF FlowInv, path
<1>2. \A m \in Sender :
         LET q == sender[m].queue
         IN /\ (q # <<>>) <=> (sender[m].sendEvent # sender[m].waitingOnRetry)
            /\ sender[m].waitingOnRetry => q # <<>>
            /\ {d \in Port : InLine(m, d)} =
                 IF sender[m].waitingOnRetry THEN {to[Head(q)]} ELSE {}
  <2> SUFFICES ASSUME NEW m \in Sender
               PROVE  LET q == sender[m].queue
                      IN /\ (q # <<>>) <=> (sender[m].sendEvent # sender[m].waitingOnRetry)
                         /\ sender[m].waitingOnRetry => q # <<>>
                         /\ {d \in Port : InLine(m, d)} =
                              IF sender[m].waitingOnRetry THEN {to[Head(q)]} ELSE {}
    BY ZenonT(30)
  <2>1. SenderOK(sender, layer, m) /\ sender[m] \in SenderRec
    BY <1>1, ZenonT(30) DEF Flow, IsState
  <2>2. \A d \in Port : InLine(m, d) <=> In(layer, m, d)
    BY DEF InLine, In
  <2>3. sender[m].waitingOnRetry => to[Head(sender[m].queue)] \in Port
    <3>1. ASSUME sender[m].waitingOnRetry PROVE Head(sender[m].queue) \in Pkt
      <4>1. sender[m].queue \in Seq(Pkt) /\ sender[m].queue # <<>>
        BY <2>1, <3>1, ZenonT(30) DEF SenderOK, SenderRec
      <4>2. QED
        BY <4>1, TailLine, ZenonT(30)
    <3>2. QED
      BY <3>1, PathAssumption, ZenonT(30)
  <2>4. QED
    BY <2>1, <2>2, <2>3, ZenonT(30) DEF SenderOK
<1>3. \A l \in Layers :
         layer[l].waitingForLayer # <<>> => layer[l].state = "BUSY" \/ layer[l].waitingForPeer # NULL
  BY <1>1, ZenonT(30) DEF Flow, Owed
<1>4. /\ (layer["near"].waitingForPeer # NULL) <=> mem["near"].retryReq
      /\ (layer["bridge"].waitingForPeer # NULL) <=> bridge.retryReq
      /\ \A k \in Memory : mem[k].retryReq => mem[k].isBusy
      /\ bridge.retryReq => bridge.reqs # <<>> \/ bridge.outstandingResponses > 0
      /\ (bridge.reqs # <<>>) <=> (bridge.reqEvent # mem["far"].retryReq)
      /\ \A k \in Memory :
           (mem[k].packetQueue # <<>>) <=> (mem[k].dequeueEvent # mem[k].retryResp)
  BY <1>1, ZenonT(30) DEF Flow, PeersOK, MemOK, StallOK, BridgeReqOK
<1>5. \A m \in Sender, d \in Port : InLine(d, m) <=> In(layer, d, m)
  BY DEF InLine, In
<1>6. {m \in Sender : InLine("bridge", m)} =
         IF bridge.resps # <<>> /\ ~bridge.respEvent THEN {from[Head(bridge.resps)]} ELSE {}
  <2>1. bridge.resps # <<>> => from[Head(bridge.resps)] \in Sender
    <3>1. bridge.resps \in Seq(Pkt)
      BY <1>1, ZenonT(30) DEF Flow, IsState, BridgeRec
    <3>2. ASSUME bridge.resps # <<>> PROVE Head(bridge.resps) \in Pkt
      BY <3>1, <3>2, TailLine, ZenonT(30)
    <3>3. QED
      BY <3>2, PathAssumption, ZenonT(30)
  <2>2. BridgeRespOK(layer, bridge) /\ "bridge" \in Port
    BY <1>1, ZenonT(30) DEF Flow, Port
  <2>3. QED
    BY <1>5, <2>1, <2>2, ZenonT(30) DEF BridgeRespOK
<1>7. {m \in Sender : InLine("near", m)} =
         IF mem["near"].retryResp THEN {from[Head(mem["near"].packetQueue)]} ELSE {}
  <2>1. mem["near"].retryResp => from[Head(mem["near"].packetQueue)] \in Sender
    <3>1. "near" \in Memory /\ mem["near"] \in MemRec /\ MemOK(mem, "near")
      BY <1>1, ZenonT(30) DEF Flow, IsState, Memory
    <3>2. ASSUME mem["near"].retryResp PROVE Head(mem["near"].packetQueue) \in Pkt
      <4>1. mem["near"].packetQueue \in Seq(Pkt) /\ mem["near"].packetQueue # <<>>
        BY <3>1, <3>2, ZenonT(30) DEF MemRec, MemOK
      <4>2. QED
        BY <4>1, TailLine, ZenonT(30)
    <3>3. QED
      BY <3>2, PathAssumption, ZenonT(30)
  <2>2. NearRespOK(layer, mem) /\ "near" \in Port
    BY <1>1, ZenonT(30) DEF Flow, Port
  <2>3. QED
    BY <1>5, <2>1, <2>2, ZenonT(30) DEF NearRespOK
<1>8. QED
  BY <1>2, <1>3, <1>4, <1>6, <1>7, ZenonT(30) DEF WakeUpOwed

\* The inductive invariant of the flow control holds, for every number of senders
\* and packets and every limit of the bridge's queues.
THEOREM FlowCorrect == Spec => []FlowInv
<1>1. Init => FlowInv
  BY InitFlow
<1>2. FlowInv /\ [Next]_vars => FlowInv'
  BY StepFlow
<1>3. QED
  BY <1>1, <1>2, PTL DEF Spec

\* No wake-up is lost or given twice on the path to memory (xbar.cc, bridge.cc,
\* simple_mem.cc, packet_queue.cc): whoever holds a packet has its event scheduled
\* or is in line at the one layer its first packet needs, and every line is owed a
\* call.
THEOREM WakeUpOwedCorrect == Spec => []WakeUpOwed
<1>1. FlowInv => WakeUpOwed
  BY FlowOwes
<1>2. QED
  BY <1>1, FlowCorrect, PTL
=============================================================================
