------------------------ MODULE EthLinkEvents_proofs ------------------------
(***************************************************************************)
(* Proofs about the link events, for any number of interfaces, any length  *)
(* of the queue, any number of crashes and whatever fails; and that they   *)
(* implement EthStatusChannel.                                             *)
(***************************************************************************)
EXTENDS EthLinkEvents, SequenceTheorems, TLAPS

\* What a thread inside the callback, and the handler thread, may be.
Callers == [at : {"idle", "send"}, msg : Message]
Handlers == [at : {"none", "open", "receive", "deliver", "dead"}, msg : Message]

LEMMA NoneTyped == None \in Message
BY IfaceAssumption DEF None, Message, Status

\* A step of a thread, and what it holds.
LEMMA AtTyped ==
    ASSUME NEW m \in Message
    PROVE  /\ At("idle", m) \in Callers /\ At("send", m) \in Callers
           /\ \A s \in {"none", "open", "receive", "deliver", "dead"} : At(s, m) \in Handlers
BY DEF At, Callers, Handlers

\* Entering the callback keeps the types of what it changes.
LEMMA EnterTyped ==
    ASSUME TypeOK, NEW t \in Threads, NEW n \in Names, NEW v \in Status, Enter(t, n, v)
    PROVE  /\ link' \in [Names -> Status] /\ lost' \in BOOLEAN
           /\ caller' \in [Threads -> Callers]
<1>1. At("send", [name |-> n, status |-> v]) \in Callers
  BY AtTyped DEF Message
<1> QED
  BY <1>1, ZenonT(40) DEF Enter, TypeOK, Callers

\* So does a callback of the WAN interface's link, whether it goes on or returns.
LEMMA CallbackTyped ==
    ASSUME TypeOK, NEW t \in Threads, NEW v \in Status, WanLinkCallback(t, v)
    PROVE  /\ link' \in [Names -> Status] /\ lost' \in BOOLEAN
           /\ caller' \in [Threads -> Callers]
<1>1. CASE Enter(t, WanIface, v)
  BY <1>1, EnterTyped, IfaceAssumption
<1>2. CASE lost' = TRUE /\ UNCHANGED <<link, caller>>
  BY <1>2 DEF TypeOK, Callers
<1> QED
  BY <1>1, <1>2 DEF WanLinkCallback

\* The start-up's step leads to a step.
LEMMA BootTyped ==
    ASSUME NEW from, NEW to \in Steps, BootStep(from, to)
    PROVE  boot' \in Steps
BY DEF BootStep

\* Every variable keeps its type.
THEOREM TypeCorrect == Spec => []TypeOK
<1>1. Init => TypeOK
  <2> SUFFICES ASSUME Init PROVE TypeOK
    OBVIOUS
  <2>1. caller \in [Threads -> Callers] /\ handler \in Handlers
    BY NoneTyped, AtTyped DEF Init
  <2>2. queue \in Seq(Message) /\ Len(queue) = 0
    BY EmptySeq DEF Init
  <2>3. Len(queue) <= MaxQueue /\ crashes \in 0..MaxCrashes
    BY <2>2, BoundsAssumption DEF Init
  <2>4. /\ up \in BOOLEAN /\ exists \in BOOLEAN /\ leftover \in BOOLEAN
        /\ bootWrote \in BOOLEAN /\ disturbed \in BOOLEAN /\ lost \in BOOLEAN
        /\ boot \in Steps
    BY DEF Init, Steps
  <2>5. /\ link \in [Names -> Status]
        /\ phy \in [Names -> Status \cup {"None"}]
        /\ lastSent \in [Names -> Status \cup {"None"}]
    BY DEF Init, Status
  <2> QED
    BY <2>1, <2>2, <2>3, <2>4, <2>5 DEF TypeOK, Callers, Handlers
<1>2. TypeOK /\ [Next]_vars => TypeOK'
  <2> SUFFICES ASSUME TypeOK, [Next]_vars PROVE TypeOK'
    OBVIOUS
  <2> USE DEF callers, channel
  <2>1. CASE LinkChange
    <3>1. "hal" \in Threads /\ WanIface \in Names /\ (IF up' THEN "UP" ELSE "DOWN") \in Status
      BY <2>1, IfaceAssumption DEF LinkChange, Threads, Status
    <3>2. link' \in [Names -> Status] /\ lost' \in BOOLEAN /\ caller' \in [Threads -> Callers]
      BY <2>1, <3>1, CallbackTyped DEF LinkChange, TypeOK, Callers
    <3> QED BY <2>1, <3>2 DEF LinkChange, TypeOK, Callers
  <2>2. ASSUME NEW v \in Status, Simulate(v) PROVE TypeOK'
    <3>1. "sim" \in Threads
      BY <2>2 DEF Simulate, Threads
    <3>2. link' \in [Names -> Status] /\ lost' \in BOOLEAN /\ caller' \in [Threads -> Callers]
      BY <2>2, <3>1, CallbackTyped DEF Simulate
    <3> QED BY <2>2, <3>2 DEF Simulate, TypeOK, Callers
  <2>3. ASSUME NEW n \in Names, NEW v \in Status, TriggerExternal(n, v) PROVE TypeOK'
    <3>1. "dml" \in Threads
      BY <2>3 DEF TriggerExternal, Threads
    <3>2. link' \in [Names -> Status] /\ lost' \in BOOLEAN /\ caller' \in [Threads -> Callers]
      BY <2>3, <3>1, EnterTyped DEF TriggerExternal
    <3> QED BY <2>3, <3>2 DEF TriggerExternal, TypeOK, Callers
  <2>4. ASSUME NEW t \in Threads, Send(t) PROVE TypeOK'
    <3>1. caller[t].msg \in Message /\ At("idle", None) \in Callers
      BY NoneTyped, AtTyped DEF TypeOK, Callers
    <3>2. caller' \in [Threads -> Callers]
      BY <2>4, <3>1 DEF Send, TypeOK, Callers
    <3>3. queue' \in Seq(Message) /\ Len(queue') <= MaxQueue
      <4>1. CASE queue' = queue
        BY <4>1 DEF TypeOK
      <4>2. CASE Len(queue) < MaxQueue /\ queue' = Append(queue, caller[t].msg)
        <5>1. queue' \in Seq(Message) /\ Len(queue') = Len(queue) + 1
          BY <3>1, <4>2, AppendProperties DEF TypeOK
        <5>2. Len(queue) \in Nat
          BY LenProperties DEF TypeOK
        <5> QED BY <4>2, <5>1, <5>2, BoundsAssumption
      <4> QED BY <2>4, <4>1, <4>2 DEF Send
    <3>4. lastSent' \in [Names -> Status \cup {"None"}]
      BY <2>4, <3>1 DEF Send, TypeOK, Message
    <3>5. lost' \in BOOLEAN
      BY <2>4 DEF Send, TypeOK
    <3> QED BY <2>4, <3>2, <3>3, <3>4, <3>5 DEF Send, TypeOK, Callers
  <2>5. CASE CreateQueue
    <3>1. handler' \in Handlers
      BY <2>5, NoneTyped, AtTyped DEF CreateQueue
    <3> QED BY <2>5, <3>1 DEF CreateQueue, TypeOK, Handlers
  <2>6. CASE Receive
    <3>1. CASE queue # <<>> /\ handler' = At("deliver", Head(queue)) /\ queue' = Tail(queue)
      <4>1. Head(queue) \in Message /\ Tail(queue) \in Seq(Message)
            /\ Len(Tail(queue)) = Len(queue) - 1 /\ Len(queue) \in Nat
        BY <3>1, HeadTailProperties, LenProperties DEF TypeOK
      <4>2. handler' \in Handlers
        BY <3>1, <4>1, AtTyped
      <4>3. Len(queue') <= MaxQueue
        BY <3>1, <4>1, BoundsAssumption DEF TypeOK
      <4> QED BY <2>6, <3>1, <4>1, <4>2, <4>3 DEF Receive, TypeOK, Handlers
    <3>2. CASE handler' = At("dead", None) /\ UNCHANGED queue
      <4>1. handler' \in Handlers
        BY <3>2, NoneTyped, AtTyped
      <4> QED BY <2>6, <3>2, <4>1 DEF Receive, TypeOK, Handlers
    <3> QED BY <2>6, <3>1, <3>2 DEF Receive
  <2>7. CASE Deliver
    <3>1. handler' \in Handlers
      BY <2>7, NoneTyped, AtTyped DEF Deliver
    <3>2. handler.msg.name \in Names /\ handler.msg.status \in Status
      BY DEF TypeOK, Message
    <3>3. phy' \in [Names -> Status \cup {"None"}] /\ lost' \in BOOLEAN
      BY <2>7, <3>2 DEF Deliver, TypeOK
    <3> QED BY <2>7, <3>1, <3>3 DEF Deliver, TypeOK, Handlers
  <2>8. CASE Boot
    <3> USE DEF BootStep, Steps
    <3>1. CASE PortInit
      BY <3>1 DEF PortInit, TypeOK, Status
    <3>2. CASE SpawnHandler
      <4>1. handler' \in Handlers
        BY <3>2, NoneTyped, AtTyped DEF SpawnHandler
      <4> QED BY <3>2, <4>1 DEF SpawnHandler, TypeOK, Handlers
    <3>3. CASE HalInit \/ ReadLink \/ ReadPhy
      BY <3>3 DEF HalInit, ReadLink, ReadPhy, TypeOK
    <3>4. CASE SetPhyUp
      BY <3>4 DEF SetPhyUp, TypeOK, Status
    <3>5. CASE SetTableUp
      BY <3>5 DEF SetTableUp, TypeOK, Status
    <3>6. CASE EndSimulation
      <4>1. link' \in [Names -> Status] /\ lost' \in BOOLEAN /\ caller' \in [Threads -> Callers]
        <5>1. CASE leftover
          BY <3>6, <5>1, CallbackTyped DEF EndSimulation, Threads, Status
        <5>2. CASE ~leftover
          BY <3>6, <5>2 DEF EndSimulation, TypeOK, Callers
        <5> QED BY <5>1, <5>2
      <4> QED BY <3>6, <4>1 DEF EndSimulation, TypeOK, Callers
    <3> QED BY <2>8, <3>1, <3>2, <3>3, <3>4, <3>5, <3>6 DEF Boot
  <2>9. CASE Crash
    <3>1. caller' \in [Threads -> Callers] /\ handler' \in Handlers
      BY <2>9, NoneTyped, AtTyped DEF Crash
    <3>2. crashes' \in 0..MaxCrashes /\ boot' \in Steps /\ leftover' \in BOOLEAN
      BY <2>9, BoundsAssumption DEF Crash, TypeOK, Steps
    <3>3. link' \in [Names -> Status] /\ lost' \in BOOLEAN
      BY <2>9 DEF Crash, TypeOK, Status
    <3> QED BY <2>9, <3>1, <3>2, <3>3 DEF Crash, TypeOK, Callers, Handlers
  <2>10. CASE UNCHANGED vars
    BY <2>10 DEF vars, TypeOK
  <2> QED
    BY <2>1, <2>2, <2>3, <2>4, <2>5, <2>6, <2>7, <2>8, <2>9, <2>10 DEF Next, HandlerThread
<1> QED
  BY <1>1, <1>2, PTL DEF Spec
-----------------------------------------------------------------------------
(* A full queue is served. *)

\* FullQueueIsServed is not inductive: the start-up has a handler thread once it
\* is past SpawnHandler, and sends nothing before it is over.
Made == handler.at = "none" <=> boot \in {"portInit", "spawn"}
BootSendsLast == caller["boot"].at = "send" => boot = "done"

\* Entering the callback is sending for the thread that enters, and nobody else.
LEMMA EnterOne ==
    ASSUME TypeOK, NEW t \in Threads, NEW v, WanLinkCallback(t, v), NEW u \in Threads, u # t
    PROVE  caller'[u] = caller[u]
BY DEF WanLinkCallback, Enter, TypeOK

LEMMA HandlerMade == Spec => [](Made /\ BootSendsLast)
<1>1. Init => Made /\ BootSendsLast
  BY DEF Init, Made, BootSendsLast, At, Threads
<1>2. TypeOK /\ Made /\ BootSendsLast /\ [Next]_vars => (Made /\ BootSendsLast)'
  <2> SUFFICES ASSUME TypeOK, Made, BootSendsLast, [Next]_vars PROVE Made' /\ BootSendsLast'
    OBVIOUS
  <2> USE DEF Made, BootSendsLast, callers, channel
  <2>0. "boot" \in Threads
    BY DEF Threads
  <2>1. CASE LinkChange
    <3>1. "hal" \in Threads
      BY <2>1 DEF LinkChange, Threads
    <3>2. caller'["boot"] = caller["boot"]
      BY <2>0, <2>1, <3>1, EnterOne DEF LinkChange
    <3> QED BY <2>1, <3>2 DEF LinkChange
  <2>2. ASSUME NEW v \in Status, Simulate(v) PROVE Made' /\ BootSendsLast'
    <3>1. "sim" \in Threads
      BY <2>2 DEF Simulate, Threads
    <3>2. caller'["boot"] = caller["boot"]
      BY <2>0, <2>2, <3>1, EnterOne DEF Simulate
    <3> QED BY <2>2, <3>2 DEF Simulate
  <2>3. ASSUME NEW n \in Names, NEW v \in Status, TriggerExternal(n, v)
        PROVE  Made' /\ BootSendsLast'
    BY <2>3 DEF TriggerExternal
  <2>4. ASSUME NEW t \in Threads, Send(t) PROVE Made' /\ BootSendsLast'
    BY <2>0, <2>4 DEF Send, At, TypeOK
  <2>5. CASE CreateQueue \/ Receive \/ Deliver
    BY <2>5 DEF CreateQueue, Receive, Deliver, At
  <2>6. CASE Boot
    <3> USE <2>0 DEF BootStep
    <3>1. CASE PortInit
      BY <3>1 DEF PortInit
    <3>2. CASE SpawnHandler
      BY <3>2 DEF SpawnHandler, At
    <3>3. CASE HalInit \/ ReadLink \/ ReadPhy \/ SetPhyUp \/ SetTableUp
      BY <3>3 DEF HalInit, ReadLink, ReadPhy, SetPhyUp, SetTableUp
    <3>4. CASE EndSimulation
      BY <3>4 DEF EndSimulation
    <3> QED BY <2>6, <3>1, <3>2, <3>3, <3>4 DEF Boot
  <2>7. CASE Crash
    BY <2>0, <2>7 DEF Crash, At
  <2>8. CASE UNCHANGED vars
    BY <2>8 DEF vars
  <2> QED
    BY <2>1, <2>2, <2>3, <2>4, <2>5, <2>6, <2>7, <2>8 DEF Next, HandlerThread
<1> QED
  BY TypeCorrect, <1>1, <1>2, PTL DEF Spec

\* FullQueueIsServed: nobody waits for ever in mq_send for want of a handler
\* thread, or of a start-up that is going to make one.
THEOREM QueueServed == Spec => []FullQueueIsServed
<1>1. Made /\ BootSendsLast => FullQueueIsServed
  BY DEF Made, BootSendsLast, FullQueueIsServed
<1> QED
  BY HandlerMade, <1>1, PTL

-----------------------------------------------------------------------------
(* What the messages under way say.  q stands for the queue, h for the     *)
(* handler thread.                                                         *)

Queued(q, n) == \E i \in 1..Len(q) : q[i].name = n
Delivering(h, n) == h.at = "deliver" /\ h.msg.name = n
UnderWay(q, h, n) == Queued(q, n) \/ Delivering(h, n)

\* If messages about n are under way, the last of them says v.
Says(q, h, n, v) ==
    /\ \A i \in 1..Len(q) :
         q[i].name = n /\ (\A j \in (i + 1)..Len(q) : q[j].name # n) => q[i].status = v
    /\ ~Queued(q, n) /\ Delivering(h, n) => h.msg.status = v

\* A message that is queued is the last one about its interface.
LEMMA AppendSays ==
    ASSUME NEW q \in Seq(Message), NEW h, NEW m \in Message, NEW n
    PROVE  LET r == Append(q, m) IN
           /\ m.name = n => Says(r, h, n, m.status) /\ UnderWay(r, h, n)
           /\ m.name # n => /\ UnderWay(r, h, n) <=> UnderWay(q, h, n)
                            /\ \A v : Says(q, h, n, v) => Says(r, h, n, v)
<1> DEFINE r == Append(q, m)
<1>1. Len(q) \in Nat /\ Len(r) = Len(q) + 1 /\ r[Len(q) + 1] = m
      /\ \A i \in 1..Len(q) : r[i] = q[i]
  BY AppendProperties, LenProperties
<1> HIDE DEF r
<1>2. CASE m.name = n
  <2>1. Queued(r, n)
    BY <1>1, <1>2 DEF Queued
  <2>2. ASSUME NEW i \in 1..Len(r), \A j \in (i + 1)..Len(r) : r[j].name # n
        PROVE  r[i].status = m.status
    <3>1. i = Len(q) + 1
      BY <1>1, <1>2, <2>2
    <3> QED BY <1>1, <3>1
  <2> QED BY <1>2, <2>1, <2>2 DEF Says, UnderWay, r
<1>3. CASE m.name # n
  <2>1. Queued(r, n) <=> Queued(q, n)
    <3>1. \A i \in 1..Len(r) : i \in 1..Len(q) \/ i = Len(q) + 1
      BY <1>1
    <3>2. \A i \in 1..Len(q) : i \in 1..Len(r)
      BY <1>1
    <3> QED BY <1>1, <1>3, <3>1, <3>2 DEF Queued
  <2>2. ASSUME NEW v, Says(q, h, n, v), NEW i \in 1..Len(r), r[i].name = n,
               \A j \in (i + 1)..Len(r) : r[j].name # n
        PROVE  r[i].status = v
    <3>1. i \in 1..Len(q)
      BY <1>1, <1>3, <2>2
    <3>2. \A j \in (i + 1)..Len(q) : j \in (i + 1)..Len(r) /\ r[j] = q[j]
      BY <1>1, <3>1
    <3> QED BY <1>1, <2>2, <3>1, <3>2 DEF Says
  <2>3. ASSUME NEW v, Says(q, h, n, v) PROVE Says(r, h, n, v)
    BY <2>1, <2>2, <2>3 DEF Says
  <2> QED BY <1>3, <2>1, <2>3 DEF UnderWay, r
<1> QED
  BY <1>2, <1>3

\* The message that is received is still under way, before those behind it.
LEMMA ReceiveSays ==
    ASSUME NEW q \in Seq(Message), q # <<>>, NEW h, h.at # "deliver", NEW n
    PROVE  LET g == At("deliver", Head(q)) IN
           /\ UnderWay(Tail(q), g, n) <=> UnderWay(q, h, n)
           /\ \A v : Says(q, h, n, v) => Says(Tail(q), g, n, v)
<1> DEFINE r == Tail(q)
           g == At("deliver", Head(q))
<1>1. Len(q) \in Nat \ {0} /\ Len(r) = Len(q) - 1 /\ \A i \in 1..Len(r) : r[i] = q[i + 1]
  BY EmptySeq, HeadTailProperties
<1>2. g.at = "deliver" /\ g.msg = q[1] /\ Delivering(g, n) = (q[1].name = n)
  BY DEF At, Delivering
<1> HIDE DEF r, g
<1>3. Queued(q, n) <=> Queued(r, n) \/ q[1].name = n
  <2>1. \A i \in 1..Len(r) : i + 1 \in 1..Len(q)
    BY <1>1
  <2>2. \A i \in 1..Len(q) : i = 1 \/ (i - 1 \in 1..Len(r) /\ (i - 1) + 1 = i)
    BY <1>1
  <2>3. 1 \in 1..Len(q)
    BY <1>1
  <2>4. ASSUME Queued(q, n) PROVE Queued(r, n) \/ q[1].name = n
    <3>1. PICK i \in 1..Len(q) : q[i].name = n
      BY <2>4 DEF Queued
    <3>2. CASE i = 1
      BY <3>1, <3>2
    <3>3. CASE i - 1 \in 1..Len(r) /\ (i - 1) + 1 = i
      <4>1. r[i - 1] = q[i]
        BY <1>1, <3>3
      <4> QED BY <3>1, <3>3, <4>1 DEF Queued
    <3> QED BY <2>2, <3>2, <3>3
  <2>5. ASSUME Queued(r, n) PROVE Queued(q, n)
    BY <1>1, <2>1, <2>5 DEF Queued
  <2>6. ASSUME q[1].name = n PROVE Queued(q, n)
    BY <2>3, <2>6 DEF Queued
  <2> QED BY <2>4, <2>5, <2>6
<1>4. ~Delivering(h, n)
  BY DEF Delivering
<1>5. ASSUME NEW v, Says(q, h, n, v) PROVE Says(r, g, n, v)
  <2>1. ASSUME NEW i \in 1..Len(r), r[i].name = n, \A j \in (i + 1)..Len(r) : r[j].name # n
        PROVE  r[i].status = v
    <3>1. i + 1 \in 1..Len(q) /\ r[i] = q[i + 1]
      BY <1>1
    <3>2. ASSUME NEW j \in ((i + 1) + 1)..Len(q) PROVE q[j].name # n
      <4>1. j - 1 \in (i + 1)..Len(r) /\ j - 1 \in 1..Len(r) /\ (j - 1) + 1 = j
        BY <1>1
      <4>2. r[j - 1] = q[j]
        BY <1>1, <4>1
      <4> QED BY <2>1, <4>1, <4>2
    <3> QED BY <1>5, <2>1, <3>1, <3>2 DEF Says
  <2>2. ASSUME ~Queued(r, n), q[1].name = n PROVE q[1].status = v
    <3>1. 1 \in 1..Len(q)
      BY <1>1
    <3>2. ASSUME NEW j \in (1 + 1)..Len(q) PROVE q[j].name # n
      <4>1. j - 1 \in 1..Len(r) /\ (j - 1) + 1 = j
        BY <1>1
      <4>2. r[j - 1] = q[j]
        BY <1>1, <4>1
      <4> QED BY <2>2, <4>1, <4>2 DEF Queued
    <3> QED BY <1>5, <2>2, <3>1, <3>2 DEF Says
  <2> QED BY <1>2, <2>1, <2>2 DEF Says
<1> QED
  BY <1>2, <1>3, <1>4, <1>5 DEF UnderWay, r, g

\* A handler thread that has delivered leaves what is queued behind; when that
\* says nothing of n, the message delivered was the last.
LEMMA DeliverSays ==
    ASSUME NEW q, NEW h, NEW g, g.at # "deliver", NEW n
    PROVE  /\ UnderWay(q, g, n) => UnderWay(q, h, n)
           /\ \A v : Says(q, h, n, v) => Says(q, g, n, v)
           /\ \A v : Says(q, h, n, v) /\ UnderWay(q, h, n) /\ ~UnderWay(q, g, n)
                       => Delivering(h, n) /\ h.msg.status = v
BY DEF UnderWay, Says, Delivering

\* A handler thread that holds no message does not count.
LEMMA EmptyHanded ==
    ASSUME NEW q, NEW h, NEW g, h.at # "deliver", g.at # "deliver", NEW n
    PROVE  /\ UnderWay(q, g, n) <=> UnderWay(q, h, n)
           /\ \A v : Says(q, h, n, v) <=> Says(q, g, n, v)
BY DEF UnderWay, Says, Delivering

-----------------------------------------------------------------------------
(* The status queued last wins. *)

\* LastQueuedWins is not inductive: the status queued last is in the queue's last
\* message about the interface, or with the handler thread, or with the WAN
\* manager already.
RoutedTo(q, h, p, s) ==
    \A n \in Names : Says(q, h, n, s[n]) /\ (~UnderWay(q, h, n) => p[n] = s[n])
Routed == ~lost /\ ~bootWrote => RoutedTo(queue, handler, phy, lastSent)

\* A step that moves no message, or loses one and says so.
LEMMA NothingMoves ==
    ASSUME Routed, UNCHANGED <<queue, lastSent>>, lost => lost', bootWrote => bootWrote',
           lost' \/ bootWrote' \/ UNCHANGED phy,
           lost' \/ handler' = handler \/ (handler.at # "deliver" /\ handler'.at # "deliver")
    PROVE  Routed'
<1> SUFFICES ASSUME ~lost', ~bootWrote'
             PROVE  RoutedTo(queue, handler', phy, lastSent)
  BY DEF Routed
<1>1. RoutedTo(queue, handler, phy, lastSent)
  BY DEF Routed
<1>2. CASE handler' = handler
  BY <1>1, <1>2
<1>3. CASE handler.at # "deliver" /\ handler'.at # "deliver"
  BY <1>1, <1>3, EmptyHanded DEF RoutedTo
<1> QED
  BY <1>2, <1>3

\* LastQueuedWins: the WAN manager ends up with the status queued last.
THEOREM LastWins == Spec => []LastQueuedWins
<1>1. Init => Routed
  <2> SUFFICES ASSUME Init PROVE Routed
    OBVIOUS
  <2>1. Len(queue) = 0 /\ handler.at = "none"
    BY EmptySeq DEF Init, At
  <2>2. ASSUME NEW n \in Names PROVE Says(queue, handler, n, lastSent[n]) /\ phy[n] = lastSent[n]
    BY <2>1 DEF Init, Says, Delivering
  <2> QED BY <2>2 DEF Routed, RoutedTo
<1>2. TypeOK /\ Made /\ Routed /\ [Next]_vars => Routed'
  <2> SUFFICES ASSUME TypeOK, Made, Routed, [Next]_vars PROVE Routed'
    OBVIOUS
  <2> USE DEF callers, channel
  <2>1. CASE LinkChange \/ (\E v \in Status : Simulate(v))
             \/ (\E n \in Names, v \in Status : TriggerExternal(n, v))
    <3>1. UNCHANGED <<queue, lastSent, bootWrote, phy, handler>> /\ (lost => lost')
      BY <2>1 DEF LinkChange, Simulate, TriggerExternal, WanLinkCallback, Enter
    <3> QED BY <3>1, NothingMoves
  <2>2. ASSUME NEW t \in Threads, Send(t) PROVE Routed'
    <3> DEFINE m == caller[t].msg
    <3>1. CASE lost'
      BY <3>1 DEF Routed
    <3>2. CASE ~lost' /\ ~bootWrote'
      <4>1. /\ queue' = Append(queue, m) /\ lastSent' = [lastSent EXCEPT ![m.name] = m.status]
            /\ UNCHANGED <<handler, phy, lost, bootWrote>>
        BY <2>2, <3>2 DEF Send
      <4>2. m \in Message /\ queue \in Seq(Message)
        BY DEF TypeOK
      <4>3. ASSUME NEW n \in Names
            PROVE  /\ Says(queue', handler', n, lastSent'[n])
                   /\ ~UnderWay(queue', handler', n) => phy'[n] = lastSent'[n]
        <5>1. lastSent'[n] = IF m.name = n THEN m.status ELSE lastSent[n]
          BY <4>1, <4>2 DEF TypeOK
        <5>2. /\ Says(queue, handler, n, lastSent[n])
              /\ ~UnderWay(queue, handler, n) => phy[n] = lastSent[n]
          BY <3>2, <4>1 DEF Routed, RoutedTo
        <5> HIDE DEF m
        <5> QED BY <4>1, <4>2, <5>1, <5>2, AppendSays
      <4> QED BY <4>3 DEF Routed, RoutedTo
    <3>3. CASE bootWrote'
      BY <3>3 DEF Routed
    <3> QED BY <3>1, <3>2, <3>3
  <2>3. CASE CreateQueue
    <3>1. handler.at # "deliver" /\ handler'.at # "deliver"
      BY <2>3 DEF CreateQueue, At
    <3> QED BY <2>3, <3>1, NothingMoves DEF CreateQueue
  <2>4. CASE Receive
    <3>1. CASE queue # <<>> /\ handler' = At("deliver", Head(queue)) /\ queue' = Tail(queue)
      <4> SUFFICES ASSUME ~lost', ~bootWrote'
                   PROVE  RoutedTo(queue', handler', phy', lastSent')
        BY DEF Routed
      <4>1. RoutedTo(queue, handler, phy, lastSent) /\ UNCHANGED <<phy, lastSent>>
        BY <2>4 DEF Receive, Routed
      <4>2. handler.at # "deliver" /\ queue \in Seq(Message)
        BY <2>4 DEF Receive, TypeOK
      <4>3. ASSUME NEW n \in Names
            PROVE  /\ UnderWay(queue', handler', n) <=> UnderWay(queue, handler, n)
                   /\ Says(queue, handler, n, lastSent[n]) => Says(queue', handler', n, lastSent[n])
        BY <3>1, <4>2, ReceiveSays
      <4> QED BY <4>1, <4>3 DEF RoutedTo
    <3>2. CASE handler' = At("dead", None) /\ UNCHANGED queue
      <4>1. handler.at # "deliver" /\ handler'.at # "deliver"
        BY <2>4, <3>2 DEF Receive, At
      <4> QED BY <2>4, <3>2, <4>1, NothingMoves DEF Receive
    <3> QED BY <2>4, <3>1, <3>2 DEF Receive
  <2>5. CASE Deliver
    <3> SUFFICES ASSUME ~lost', ~bootWrote'
                 PROVE  RoutedTo(queue', handler', phy', lastSent')
      BY DEF Routed
    <3>1. /\ phy' = [phy EXCEPT ![handler.msg.name] = handler.msg.status]
          /\ handler.at = "deliver" /\ handler'.at # "deliver"
          /\ UNCHANGED <<queue, lastSent, lost, bootWrote>>
      BY <2>5 DEF Deliver, At
    <3>2. RoutedTo(queue, handler, phy, lastSent)
      BY <3>1 DEF Routed
    <3>3. handler.msg.name \in Names
      BY DEF TypeOK, Message
    <3>4. ASSUME NEW n \in Names
          PROVE  /\ Says(queue, handler', n, lastSent[n])
                 /\ ~UnderWay(queue, handler', n) => phy'[n] = lastSent[n]
      <4>1. Says(queue, handler, n, lastSent[n])
            /\ (~UnderWay(queue, handler, n) => phy[n] = lastSent[n])
        BY <3>2 DEF RoutedTo
      <4>2. Says(queue, handler', n, lastSent[n])
        BY <3>1, <4>1, DeliverSays
      <4>3. ASSUME ~UnderWay(queue, handler', n) PROVE phy'[n] = lastSent[n]
        <5>1. CASE UnderWay(queue, handler, n)
          <6>1. handler.msg.name = n /\ handler.msg.status = lastSent[n]
            BY <3>1, <4>1, <4>3, <5>1, DeliverSays DEF Delivering
          <6> QED BY <3>1, <6>1 DEF TypeOK
        <5>2. CASE ~UnderWay(queue, handler, n)
          <6>1. handler.msg.name # n
            BY <3>1, <5>2 DEF UnderWay, Delivering
          <6> QED BY <3>1, <3>3, <4>1, <5>2, <6>1 DEF TypeOK
        <5> QED BY <5>1, <5>2
      <4> QED BY <4>2, <4>3
    <3> QED BY <3>1, <3>4 DEF RoutedTo
  <2>6. CASE SpawnHandler
    <3>1. handler'.at # "deliver" /\ UNCHANGED <<queue, lastSent, phy, lost, bootWrote>>
      BY <2>6 DEF SpawnHandler, At
    <3>2. handler.at # "deliver"
      BY <2>6 DEF SpawnHandler, BootStep, Made
    <3> QED BY <3>1, <3>2, NothingMoves
  <2>7. CASE PortInit \/ HalInit \/ ReadLink \/ ReadPhy \/ SetTableUp \/ EndSimulation
    <3>1. UNCHANGED <<queue, lastSent, bootWrote, phy, handler>> /\ (lost => lost')
      BY <2>7 DEF PortInit, HalInit, ReadLink, ReadPhy, SetTableUp, EndSimulation,
         WanLinkCallback, Enter
    <3> QED BY <3>1, NothingMoves
  <2>8. CASE SetPhyUp
    BY <2>8 DEF SetPhyUp, Routed
  <2>9. CASE Crash
    <3>1. UNCHANGED <<queue, lastSent, bootWrote, phy>> /\ (lost => lost') /\ handler'.at # "deliver"
          /\ (handler.at = "deliver" => lost')
      BY <2>9 DEF Crash, At
    <3> QED BY <3>1, NothingMoves
  <2>10. CASE UNCHANGED vars
    BY <2>10, NothingMoves DEF vars
  <2> QED
    BY <2>1, <2>2, <2>3, <2>4, <2>5, <2>6, <2>7, <2>8, <2>9, <2>10 DEF Next, HandlerThread, Boot
<1>3. TypeOK /\ Routed => LastQueuedWins
  <2> SUFFICES ASSUME Routed, Quiet, ~lost, ~bootWrote, NEW n \in Names
               PROVE  phy[n] = lastSent[n]
    BY DEF LastQueuedWins
  <2>1. Len(queue) = 0 /\ handler.at = "receive"
    BY EmptySeq DEF Quiet
  <2>2. ~UnderWay(queue, handler, n)
    BY <2>1 DEF UnderWay, Queued, Delivering
  <2> QED BY <2>2 DEF Routed, RoutedTo
<1> QED
  BY TypeCorrect, HandlerMade, <1>1, <1>2, <1>3, PTL DEF Spec

-----------------------------------------------------------------------------
(* The resting states agree. *)

LinkState == IF up THEN "UP" ELSE "DOWN"

\* Only the HAL sends about the WAN interface, and what it sends is in the table.
Alone ==
    /\ ~leftover
    /\ \A t \in Threads : caller[t].at = "send" =>
         /\ boot = "done" /\ t \in {"hal", "dml"}
         /\ t = "hal" => caller[t].msg.name = WanIface /\ caller[t].msg.status = link[WanIface]
         /\ t = "dml" => caller[t].msg.name # WanIface

\* No message is under way before the start-up is over.
NothingYet == boot # "done" => queue = <<>> /\ handler.at # "deliver"

\* The start-up looks at the link first, then at the WAN manager, which knows
\* nothing, and writes the WAN manager before the table.
InOrder ==
    /\ boot \notin {"setTable", "leftover", "done"} =>
         link[WanIface] = "DOWN" /\ phy[WanIface] = "None"
    /\ boot \in {"readPhy", "setPhy", "setTable"} => up
    /\ boot = "setTable" => phy[WanIface] = "UP"

HalSends == "hal" \in Writers /\ caller["hal"].at = "send"

\* From then on the table has the link's state, and so has the last message about
\* it, or the WAN manager if there is none; who knows nothing takes it for down.
Agreed ==
    boot \in {"leftover", "done"} =>
        /\ link[WanIface] = LinkState
        /\ ~HalSends => Says(queue, handler, WanIface, link[WanIface])
        /\ ~HalSends /\ ~UnderWay(queue, handler, WanIface) =>
              \/ phy[WanIface] = link[WanIface]
              \/ phy[WanIface] = "None" /\ link[WanIface] = "DOWN"

Calm == Alone /\ NothingYet /\ InOrder /\ Agreed
Undisturbed == ~disturbed /\ ~lost => Calm

\* What was disturbed or lost stays so.
LEMMA Monotone ==
    ASSUME TypeOK, [Next]_vars, ~disturbed', ~lost'
    PROVE  ~disturbed /\ ~lost
<1>1. CASE LinkChange
  BY <1>1 DEF LinkChange, WanLinkCallback, Enter, TypeOK
<1>2. CASE Boot \/ HandlerThread
  BY <1>2 DEF Boot, PortInit, SpawnHandler, HalInit, ReadLink, ReadPhy, SetPhyUp, SetTableUp,
              EndSimulation, WanLinkCallback, Enter, HandlerThread, CreateQueue, Receive, Deliver, TypeOK
<1>3. CASE \/ \E v \in Status : Simulate(v)
           \/ \E n \in Names, v \in Status : TriggerExternal(n, v)
           \/ \E t \in Threads : Send(t)
           \/ Crash
  BY <1>3 DEF Simulate, TriggerExternal, WanLinkCallback, Enter, Send, Crash, TypeOK
<1> QED
  BY <1>1, <1>2, <1>3 DEF Next, vars

\* An empty queue and a handler thread without a message say nothing.
LEMMA NothingSaid ==
    ASSUME NEW q, q = <<>>, NEW h, h.at # "deliver", NEW n
    PROVE  ~UnderWay(q, h, n) /\ \A v : Says(q, h, n, v)
<1>1. Len(q) = 0
  BY EmptySeq
<1>2. 1..Len(q) = {} /\ ~Queued(q, n) /\ ~Delivering(h, n)
  BY <1>1 DEF Queued, Delivering
<1> QED
  BY <1>2 DEF UnderWay, Says

\* RestingStatesAgree: table, link and WAN manager agree at rest.
THEOREM StatesAgree == Spec => []RestingStatesAgree
<1>1. Init => Undisturbed
  <2> SUFFICES ASSUME Init PROVE Calm
    BY DEF Undisturbed
  <2>1. handler.at = "none" /\ \A t \in Threads : caller[t].at # "send"
    BY DEF Init, At
  <2>2. link[WanIface] = "DOWN" /\ phy[WanIface] = "None"
    BY IfaceAssumption DEF Init
  <2> QED BY <2>1, <2>2 DEF Init, Calm, Alone, NothingYet, InOrder, Agreed
<1>2. TypeOK /\ Made /\ Undisturbed /\ [Next]_vars => Undisturbed'
  <2> SUFFICES ASSUME TypeOK, Made, Undisturbed, [Next]_vars, ~disturbed', ~lost'
               PROVE  Calm'
    BY DEF Undisturbed
  <2>0. Calm /\ ~disturbed /\ ~lost
    BY Monotone DEF Undisturbed
  <2> USE DEF callers, channel
  <2>1. CASE LinkChange
    <3>1. boot = "done" /\ "hal" \in Threads /\ caller["hal"].at = "idle" /\ "hal" \in Writers
      BY <2>0, <2>1 DEF LinkChange, CallerFree, Threads
    <3>2. /\ link' = [link EXCEPT ![WanIface] = LinkState']
          /\ caller' = [caller EXCEPT !["hal"] =
                          At("send", [name |-> WanIface, status |-> LinkState'])]
      BY <2>0, <2>1, <3>1 DEF LinkChange, HalRuns, WanLinkCallback, Enter, TableExists, LinkState
    <3>3. link'[WanIface] = LinkState'
      BY <3>2, IfaceAssumption DEF TypeOK
    <3>4. caller'["hal"].at = "send" /\ caller'["hal"].msg.name = WanIface
          /\ caller'["hal"].msg.status = LinkState'
      BY <3>1, <3>2 DEF TypeOK, At
    <3>5. \A t \in Threads \ {"hal"} : caller'[t] = caller[t]
      BY <3>2 DEF TypeOK
    <3>6. boot' = "done" /\ ~leftover'
      BY <2>0, <2>1, <3>1 DEF LinkChange, Calm, Alone
    <3>7. Alone'
      BY <2>0, <3>1, <3>3, <3>4, <3>5, <3>6 DEF Calm, Alone
    <3>8. Agreed'
      BY <3>1, <3>3, <3>4 DEF Agreed, HalSends
    <3> QED BY <3>6, <3>7, <3>8 DEF Calm, NothingYet, InOrder
  <2>2. ASSUME NEW v \in Status, Simulate(v) PROVE Calm'
    BY <2>2 DEF Simulate
  <2>3. ASSUME NEW n \in Names, NEW v \in Status, TriggerExternal(n, v) PROVE Calm'
    <3>1. boot = "done" /\ n # WanIface /\ "dml" \in Threads
      BY <2>3 DEF TriggerExternal, Threads
    <3>2. /\ link' = [link EXCEPT ![n] = v]
          /\ caller' = [caller EXCEPT !["dml"] = At("send", [name |-> n, status |-> v])]
          /\ UNCHANGED <<up, queue, handler, phy, boot, leftover>>
      BY <2>3, <3>1 DEF TriggerExternal, Enter, TableExists
    <3>3. link'[WanIface] = link[WanIface]
      BY <3>1, <3>2 DEF TypeOK
    <3>4. caller'["dml"].msg.name # WanIface
      BY <3>1, <3>2 DEF TypeOK, At
    <3>5. \A t \in Threads \ {"dml"} : caller'[t] = caller[t]
      BY <3>2 DEF TypeOK
    <3>6. Alone'
      BY <2>0, <3>1, <3>2, <3>3, <3>4, <3>5 DEF Calm, Alone
    <3>7. HalSends' <=> HalSends
      BY <3>5 DEF HalSends, Threads
    <3>8. Agreed'
      BY <2>0, <3>2, <3>3, <3>7 DEF Calm, Agreed, LinkState
    <3> QED BY <2>0, <3>1, <3>2, <3>3, <3>6, <3>8 DEF Calm, NothingYet, InOrder
  <2>4. ASSUME NEW t \in Threads, Send(t) PROVE Calm'
    <3> DEFINE m == caller[t].msg
    <3>1. /\ queue' = Append(queue, m) /\ caller' = [caller EXCEPT ![t] = At("idle", None)]
          /\ caller[t].at = "send"
          /\ UNCHANGED <<up, link, handler, phy, boot, leftover>>
      BY <2>4 DEF Send
    <3>2. boot = "done" /\ m \in Message /\ queue \in Seq(Message)
      BY <2>0, <3>1 DEF Calm, Alone, TypeOK
    <3>3. Alone'
      BY <2>0, <3>1 DEF Calm, Alone, TypeOK, At
    <3>4. CASE m.name = WanIface
      <4>1. m.status = link[WanIface]
        BY <2>0, <3>1, <3>4 DEF Calm, Alone
      <4>2. Says(queue', handler, WanIface, link[WanIface]) /\ UnderWay(queue', handler, WanIface)
        BY <3>1, <3>2, <3>4, <4>1, AppendSays
      <4>3. Agreed'
        BY <2>0, <3>1, <3>2, <4>2 DEF Calm, Agreed, LinkState
      <4> QED BY <2>0, <3>1, <3>2, <3>3, <4>3 DEF Calm, NothingYet, InOrder
    <3>5. CASE m.name # WanIface
      <4>1. t # "hal"
        BY <2>0, <3>1, <3>5 DEF Calm, Alone
      <4>2. HalSends' <=> HalSends
        BY <3>1, <4>1 DEF HalSends, Threads, TypeOK
      <4>3. /\ UnderWay(queue', handler, WanIface) <=> UnderWay(queue, handler, WanIface)
            /\ Says(queue, handler, WanIface, link[WanIface])
                 => Says(queue', handler, WanIface, link[WanIface])
        BY <3>1, <3>2, <3>5, AppendSays
      <4>4. Agreed'
        BY <2>0, <3>1, <4>2, <4>3 DEF Calm, Agreed, LinkState
      <4> QED BY <2>0, <3>1, <3>2, <3>3, <4>4 DEF Calm, NothingYet, InOrder
    <3> QED BY <3>4, <3>5
  <2>5. ASSUME UNCHANGED <<up, link, caller, queue, phy, boot, leftover>>,
               handler.at # "deliver", handler'.at # "deliver"
        PROVE  Calm'
    <3>1. Alone' /\ NothingYet' /\ InOrder'
      BY <2>0, <2>5 DEF Calm, Alone, NothingYet, InOrder
    <3>2. /\ UnderWay(queue, handler', WanIface) <=> UnderWay(queue, handler, WanIface)
          /\ Says(queue, handler, WanIface, link[WanIface])
               => Says(queue, handler', WanIface, link[WanIface])
      BY <2>5, EmptyHanded
    <3>3. Agreed'
      BY <2>0, <2>5, <3>2 DEF Calm, Agreed, HalSends, LinkState
    <3> QED BY <3>1, <3>3 DEF Calm
  <2>6. CASE CreateQueue
    BY <2>5, <2>6 DEF CreateQueue, At
  <2>7. CASE Receive
    <3>1. CASE queue # <<>> /\ handler' = At("deliver", Head(queue)) /\ queue' = Tail(queue)
      <4>1. UNCHANGED <<up, link, caller, phy, boot, leftover>> /\ handler.at # "deliver"
            /\ queue \in Seq(Message)
        BY <2>7 DEF Receive, TypeOK
      <4>2. boot = "done"
        BY <2>0, <3>1 DEF Calm, NothingYet
      <4>3. /\ UnderWay(queue', handler', WanIface) <=> UnderWay(queue, handler, WanIface)
            /\ Says(queue, handler, WanIface, link[WanIface])
                 => Says(queue', handler', WanIface, link[WanIface])
        BY <3>1, <4>1, ReceiveSays
      <4>4. Agreed'
        BY <2>0, <4>1, <4>3 DEF Calm, Agreed, HalSends, LinkState
      <4> QED BY <2>0, <4>1, <4>2, <4>4 DEF Calm, Alone, NothingYet, InOrder
    <3>2. CASE handler' = At("dead", None) /\ UNCHANGED queue
      BY <2>5, <2>7, <3>2 DEF Receive, At
    <3> QED BY <2>7, <3>1, <3>2 DEF Receive
  <2>8. CASE Deliver
    <3>1. /\ phy' = [phy EXCEPT ![handler.msg.name] = handler.msg.status]
          /\ handler.at = "deliver" /\ handler'.at # "deliver"
          /\ UNCHANGED <<up, link, caller, queue, boot, leftover>>
      BY <2>8 DEF Deliver, At
    <3>2. boot = "done"
      BY <2>0, <3>1 DEF Calm, NothingYet
    <3>3. Says(queue, handler, WanIface, link[WanIface])
             => Says(queue, handler', WanIface, link[WanIface])
      BY <3>1, DeliverSays
    <3>4. ASSUME ~HalSends, ~UnderWay(queue, handler', WanIface)
          PROVE  \/ phy'[WanIface] = link[WanIface]
                 \/ phy'[WanIface] = "None" /\ link[WanIface] = "DOWN"
      <4>1. Says(queue, handler, WanIface, link[WanIface])
        BY <2>0, <3>2, <3>4 DEF Calm, Agreed
      <4>2. CASE UnderWay(queue, handler, WanIface)
        <5>1. handler.msg.name = WanIface /\ handler.msg.status = link[WanIface]
          BY <3>1, <3>4, <4>1, <4>2, DeliverSays DEF Delivering
        <5> QED BY <3>1, <5>1, IfaceAssumption DEF TypeOK
      <4>3. CASE ~UnderWay(queue, handler, WanIface)
        <5>1. handler.msg.name # WanIface
          BY <3>1, <4>3 DEF UnderWay, Delivering
        <5>2. phy'[WanIface] = phy[WanIface]
          BY <3>1, <5>1, IfaceAssumption DEF TypeOK
        <5> QED BY <2>0, <3>2, <3>4, <4>3, <5>2 DEF Calm, Agreed
      <4> QED BY <4>2, <4>3
    <3>5. HalSends' <=> HalSends
      BY <3>1 DEF HalSends
    <3>6. Agreed'
      BY <2>0, <3>1, <3>2, <3>3, <3>4, <3>5 DEF Calm, Agreed, LinkState
    <3> QED BY <2>0, <3>1, <3>2, <3>6 DEF Calm, Alone, NothingYet, InOrder
  <2>9. ASSUME boot # "done", boot' # "done", UNCHANGED <<up, caller, queue, leftover>>,
               handler'.at # "deliver", InOrder',
               boot' = "leftover" =>
                  /\ link'[WanIface] = LinkState'
                  /\ \/ phy'[WanIface] = link'[WanIface]
                     \/ phy'[WanIface] = "None" /\ link'[WanIface] = "DOWN"
        PROVE  Calm'
    <3>1. queue = <<>> /\ ~leftover /\ \A t \in Threads : caller[t].at # "send"
      BY <2>0, <2>9 DEF Calm, Alone, NothingYet
    <3>2. Alone' /\ NothingYet'
      BY <2>9, <3>1 DEF Alone, NothingYet
    <3>3. ~UnderWay(queue', handler', WanIface) /\ \A v : Says(queue', handler', WanIface, v)
      BY <2>9, <3>1, NothingSaid
    <3>4. Agreed'
      BY <2>9, <3>3 DEF Agreed
    <3> QED BY <2>9, <3>2, <3>4 DEF Calm
  <2>10. CASE Boot
    <3> USE DEF BootStep
    <3>0. ASSUME boot # "done" PROVE handler.at # "deliver"
      BY <2>0, <3>0 DEF Calm, NothingYet
    <3>1. CASE PortInit
      <4>1. InOrder'
        BY <2>0, <3>1, IfaceAssumption DEF PortInit, Calm, InOrder
      <4> QED BY <2>9, <3>0, <3>1, <4>1 DEF PortInit
    <3>2. CASE SpawnHandler
      <4>1. InOrder' /\ handler'.at # "deliver"
        BY <2>0, <3>2 DEF SpawnHandler, Calm, InOrder, At
      <4> QED BY <2>9, <3>2, <4>1 DEF SpawnHandler
    <3>3. CASE HalInit
      <4>1. BootStep("halInit", "readLink")
            /\ UNCHANGED <<up, link, callers, channel, handler, phy, leftover>>
        BY <3>3 DEF HalInit
      <4>2. InOrder'
        BY <2>0, <4>1 DEF Calm, InOrder
      <4> QED BY <2>9, <3>0, <4>1, <4>2
    <3>4. CASE ReadLink
      <4>1. InOrder'
        BY <2>0, <3>4 DEF ReadLink, Calm, InOrder
      <4>2. link[WanIface] = "DOWN" /\ phy[WanIface] = "None"
        BY <2>0, <3>4 DEF ReadLink, Calm, InOrder
      <4> QED BY <2>9, <3>0, <3>4, <4>1, <4>2 DEF ReadLink, LinkState
    <3>5. CASE ReadPhy
      <4>1. phy[WanIface] = "None"
        BY <2>0, <3>5 DEF ReadPhy, Calm, InOrder
      <4>2. BootStep("readPhy", "setPhy")
            /\ UNCHANGED <<up, link, callers, channel, handler, phy, leftover>>
        BY <3>5, <4>1 DEF ReadPhy
      <4>3. InOrder'
        BY <2>0, <4>2 DEF Calm, InOrder
      <4> QED BY <2>9, <3>0, <4>2, <4>3
    <3>6. CASE SetPhyUp
      <4>1. phy' = [phy EXCEPT ![WanIface] = "UP"]
        BY <3>6 DEF SetPhyUp
      <4>2. InOrder'
        BY <2>0, <3>6, <4>1, IfaceAssumption DEF SetPhyUp, Calm, InOrder, TypeOK
      <4> QED BY <2>9, <3>0, <3>6, <4>2 DEF SetPhyUp
    <3>7. CASE SetTableUp
      <4>1. InOrder'
        BY <3>7 DEF SetTableUp, InOrder
      <4>2. link'[WanIface] = "UP" /\ phy[WanIface] = "UP" /\ up
        BY <2>0, <3>7, IfaceAssumption DEF SetTableUp, Calm, InOrder, TypeOK
      <4> QED BY <2>9, <3>0, <3>7, <4>1, <4>2 DEF SetTableUp, LinkState
    <3>8. CASE EndSimulation
      <4>1. ~leftover
        BY <2>0 DEF Calm, Alone
      <4>2. UNCHANGED <<up, link, caller, queue, handler, phy>> /\ ~leftover' /\ boot' = "done"
            /\ boot = "leftover"
        BY <3>8, <4>1 DEF EndSimulation
      <4>3. Alone' /\ NothingYet' /\ InOrder'
        BY <2>0, <4>2 DEF Calm, Alone, NothingYet, InOrder
      <4>4. Agreed'
        BY <2>0, <4>2 DEF Calm, Agreed, HalSends, LinkState
      <4> QED BY <4>3, <4>4 DEF Calm
    <3> QED BY <2>10, <3>1, <3>2, <3>3, <3>4, <3>5, <3>6, <3>7, <3>8 DEF Boot
  <2>11. CASE Crash
    BY <2>11 DEF Crash
  <2>12. CASE UNCHANGED vars
    BY <2>0, <2>12 DEF vars, Calm, Alone, NothingYet, InOrder, Agreed, HalSends, LinkState
  <2> QED
    BY <2>1, <2>2, <2>3, <2>4, <2>6, <2>7, <2>8, <2>10, <2>11, <2>12 DEF Next, HandlerThread
<1>3. TypeOK /\ Undisturbed => RestingStatesAgree
  <2> SUFFICES ASSUME TypeOK, Undisturbed, Quiet, ~lost, ~disturbed
               PROVE  /\ link[WanIface] = LinkState
                      /\ phy[WanIface] = "None" => link[WanIface] = "DOWN"
                      /\ phy[WanIface] # "None" => phy[WanIface] = link[WanIface]
    BY DEF RestingStatesAgree, LinkState
  <2>1. ~UnderWay(queue, handler, WanIface)
    BY NothingSaid DEF Quiet
  <2>2. ~HalSends
    BY DEF Quiet, HalSends, CallerFree, Threads
  <2>3. link[WanIface] \in Status
    BY IfaceAssumption DEF TypeOK
  <2> QED BY <2>1, <2>2, <2>3 DEF Undisturbed, Calm, Agreed, Quiet, Status
<1> QED
  BY TypeCorrect, HandlerMade, <1>1, <1>2, <1>3, PTL DEF Spec

-----------------------------------------------------------------------------
(* The queue and its handler implement EthStatusChannel, step by step.     *)

Held == IF handler.at = "deliver" THEN <<handler.msg>> ELSE <<>>

\* A message in front of a sequence: the head, and the sequence behind it.
LEMMA InFront ==
    ASSUME NEW m \in Message, NEW q \in Seq(Message)
    PROVE  /\ <<m>> \o q \in Seq(Message) /\ Len(<<m>> \o q) = Len(q) + 1
           /\ <<m>> \o q # <<>> /\ Head(<<m>> \o q) = m /\ Tail(<<m>> \o q) = q
<1> DEFINE p == <<m>> \o q
<1>1. Len(q) \in Nat
  BY LenProperties
<1>2. <<m>> \in Seq(Message) /\ Len(<<m>>) = 1 /\ <<m>>[1] = m
  OBVIOUS
<1>3. /\ p \in Seq(Message) /\ Len(p) = 1 + Len(q)
      /\ \A i \in 1..(1 + Len(q)) : p[i] = IF i <= 1 THEN <<m>>[i] ELSE q[i - 1]
  BY <1>2, ConcatProperties
<1> HIDE DEF p
<1>4. p # <<>>
  BY <1>1, <1>3, EmptySeq
<1>5. /\ Head(p) = p[1] /\ Tail(p) \in Seq(Message) /\ Len(Tail(p)) = Len(p) - 1
      /\ \A i \in 1..Len(Tail(p)) : Tail(p)[i] = p[i + 1]
  BY <1>3, <1>4, HeadTailProperties
<1>6. Len(Tail(p)) = Len(q)
  BY <1>1, <1>3, <1>5
<1>7. \A i \in 1..Len(Tail(p)) : Tail(p)[i] = q[i]
  BY <1>1, <1>3, <1>5, <1>6
<1>8. Tail(p) = q
  BY <1>5, <1>6, <1>7, SeqEqual
<1>9. Head(p) = m
  BY <1>1, <1>2, <1>3, <1>5
<1> QED
  BY <1>3, <1>4, <1>8, <1>9 DEF p

\* A sequence taken apart and put together again.
LEMMA TakenApart ==
    ASSUME NEW q \in Seq(Message), q # <<>>
    PROVE  /\ Head(q) \in Message /\ Tail(q) \in Seq(Message)
           /\ <<Head(q)>> \o Tail(q) = q
<1>1. /\ Head(q) \in Message /\ Head(q) = q[1]
      /\ Tail(q) \in Seq(Message) /\ Len(Tail(q)) = Len(q) - 1
      /\ \A i \in 1..Len(Tail(q)) : Tail(q)[i] = q[i + 1]
  BY HeadTailProperties
<1>2. Len(q) \in Nat \ {0}
  BY EmptySeq
<1> DEFINE p == <<Head(q)>> \o Tail(q)
<1>3. <<Head(q)>> \in Seq(Message) /\ Len(<<Head(q)>>) = 1 /\ <<Head(q)>>[1] = Head(q)
  BY <1>1
<1>4. /\ p \in Seq(Message) /\ Len(p) = 1 + Len(Tail(q))
      /\ \A i \in 1..(1 + Len(Tail(q))) : p[i] = IF i <= 1 THEN <<Head(q)>>[i] ELSE Tail(q)[i - 1]
  BY <1>1, <1>3, ConcatProperties
<1> HIDE DEF p
<1>5. \A i \in 1..Len(p) : p[i] = q[i]
  BY <1>1, <1>2, <1>3, <1>4
<1>6. Len(p) = Len(q)
  BY <1>1, <1>2, <1>4
<1>7. p = q
  BY <1>4, <1>5, <1>6, SeqEqual
<1> QED
  BY <1>1, <1>7 DEF p

\* What is under way: the message held, and the queue behind it.
LEMMA PendingSays ==
    ASSUME TypeOK
    PROVE  /\ Len(Pending) <= Len(queue) + 1 /\ Len(Pending) \in Nat
           /\ handler.at # "deliver" => Pending = queue
           /\ handler.at = "deliver" =>
                 Pending # <<>> /\ Head(Pending) = handler.msg /\ Tail(Pending) = queue
<1>1. queue \in Seq(Message) /\ Len(queue) \in Nat /\ handler.msg \in Message
  BY LenProperties DEF TypeOK
<1>2. CASE handler.at # "deliver"
  <2>1. Pending = queue
    BY <1>1, <1>2, ConcatEmptySeq DEF Pending
  <2> QED
    BY <1>1, <1>2, <2>1
<1>3. CASE handler.at = "deliver"
  <2>1. Pending = <<handler.msg>> \o queue
    BY <1>3 DEF Pending
  <2> QED
    BY <1>1, <1>3, <2>1, InFront
<1> QED
  BY <1>2, <1>3

\* The same of the next state, when the handler holds nothing in it.
LEMMA PendingNext ==
    ASSUME TypeOK', handler'.at # "deliver"
    PROVE  Pending' = queue'
<1>1. queue' \in Seq(Message)
  BY DEF TypeOK
<1> QED
  BY <1>1, ConcatEmptySeq DEF Pending

\* A message that is queued is the last one under way.
LEMMA SendPosts ==
    ASSUME TypeOK, TypeOK', NEW t \in Threads, Send(t)
    PROVE  Channel!Post \/ Channel!Miss
<1>1. caller[t].msg \in Message /\ UNCHANGED <<handler, phy>>
  BY DEF TypeOK, Send
<1>2. CASE lost' = TRUE /\ UNCHANGED queue
  BY <1>1, <1>2 DEF Channel!Miss, Pending
<1>3. CASE Len(queue) < MaxQueue /\ queue' = Append(queue, caller[t].msg) /\ UNCHANGED lost
  <2>1. Len(Pending) < MaxQueue + 1
    <3>1. Len(queue) \in Nat /\ Len(Pending) \in Nat
      BY PendingSays, LenProperties DEF TypeOK
    <3> QED
      BY <1>3, <3>1, PendingSays, BoundsAssumption
  <2>2. Pending' = Append(Pending, caller[t].msg)
    <3>1. Held \in Seq(Message) /\ queue \in Seq(Message)
      BY DEF Held, TypeOK
    <3>2. Append(queue, caller[t].msg) = queue \o <<caller[t].msg>>
      BY <1>1, <3>1, AppendIsConcat
    <3>3. <<caller[t].msg>> \in Seq(Message)
      BY <1>1
    <3>4. (Held \o queue) \o <<caller[t].msg>> = Held \o (queue \o <<caller[t].msg>>)
      BY <3>1, <3>3, ConcatAssociative
    <3>5. Held \o queue \in Seq(Message)
      BY <3>1, ConcatProperties
    <3>6. Append(Held \o queue, caller[t].msg) = (Held \o queue) \o <<caller[t].msg>>
      BY <1>1, <3>5, AppendIsConcat
    <3>7. Pending = Held \o queue /\ Pending' = Held \o queue'
      BY <1>1 DEF Pending, Held
    <3> QED
      BY <1>3, <3>2, <3>4, <3>6, <3>7
  <2> QED
    BY <1>1, <1>3, <2>1, <2>2 DEF Channel!Post, Message
<1> QED
  BY <1>2, <1>3 DEF Send

\* Taking a message out of the queue leaves it under way, in front.
LEMMA ReceiveHolds ==
    ASSUME TypeOK, TypeOK', Receive
    PROVE  UNCHANGED <<Pending, phy, lost>>
<1>1. Pending = queue /\ UNCHANGED <<phy, lost>>
  BY PendingSays DEF Receive
<1>2. CASE queue # <<>> /\ handler' = At("deliver", Head(queue)) /\ queue' = Tail(queue)
  <2>1. Pending' = <<Head(queue)>> \o Tail(queue)
    BY <1>2 DEF Pending, At
  <2> QED
    BY <1>1, <1>2, <2>1, TakenApart DEF TypeOK
<1>3. CASE handler' = At("dead", None) /\ UNCHANGED queue
  <2>1. Pending' = queue'
    BY <1>3, PendingNext DEF At
  <2> QED
    BY <1>1, <1>3, <2>1
<1> QED
  BY <1>2, <1>3 DEF Receive

\* A message is told, or skipped and missed.
LEMMA DeliverTells ==
    ASSUME TypeOK, TypeOK', Deliver
    PROVE  Channel!Tell \/ Channel!Skip
<1>1. Pending # <<>> /\ Head(Pending) = handler.msg /\ Tail(Pending) = queue
  BY PendingSays DEF Deliver
<1>2. Pending' = Tail(Pending)
  BY <1>1, PendingNext DEF Deliver, At, channel
<1> QED
  BY <1>1, <1>2 DEF Deliver, Channel!Tell, Channel!Skip

\* A crash costs the message that was held, and no other.
LEMMA CrashSkips ==
    ASSUME TypeOK, TypeOK', Crash
    PROVE  Channel!Skip \/ Channel!Miss \/ UNCHANGED <<Pending, phy, lost>>
<1>1. Pending' = queue /\ phy' = phy
  BY PendingNext DEF Crash, At, channel
<1>2. CASE handler.at = "deliver"
  <2>1. lost' = TRUE
    BY <1>2 DEF Crash
  <2> QED
    BY <1>1, <1>2, <2>1, PendingSays DEF Channel!Skip
<1>3. CASE handler.at # "deliver"
  <2>1. Pending' = Pending
    BY <1>1, <1>3, PendingSays
  <2>2. lost' = TRUE \/ lost' = lost
    BY DEF Crash, TypeOK
  <2> QED
    BY <1>1, <2>1, <2>2 DEF Channel!Miss
<1> QED
  BY <1>2, <1>3

\* The start-up sets Phy.Status or misses something, and leaves the messages alone:
\* a handler thread is only started when there is none, so that none forgets what
\* it holds.
LEMMA BootSetsUp ==
    ASSUME TypeOK, TypeOK', Made, Boot
    PROVE  Channel!SetUp \/ Channel!Miss \/ UNCHANGED <<Pending, phy, lost>>
<1>1. Pending' = Pending
  <2>1. CASE SpawnHandler
    <3>1. handler.at # "deliver" /\ handler'.at # "deliver" /\ queue' = queue
      BY <2>1 DEF SpawnHandler, BootStep, Made, At, channel
    <3> QED
      BY <3>1, PendingSays, PendingNext
  <2>2. CASE ~SpawnHandler
    <3>1. UNCHANGED <<handler, queue>>
      BY <2>2 DEF Boot, PortInit, HalInit, ReadLink, ReadPhy, SetPhyUp, SetTableUp, EndSimulation,
         channel
    <3> QED
      BY <3>1 DEF Pending
  <2> QED
    BY <2>1, <2>2
<1>2. phy' = phy \/ (phy' = [phy EXCEPT ![WanIface] = "UP"] /\ UNCHANGED lost)
  BY DEF Boot, PortInit, SpawnHandler, HalInit, ReadLink, ReadPhy, SetPhyUp, SetTableUp, EndSimulation
<1>3. lost' = lost \/ lost' = TRUE
  BY DEF Boot, PortInit, SpawnHandler, HalInit, ReadLink, ReadPhy, SetPhyUp, SetTableUp, EndSimulation,
     WanLinkCallback, Enter
<1> QED
  BY <1>1, <1>2, <1>3 DEF Channel!SetUp, Channel!Miss

\* A callback that is entered has sent nothing yet.
LEMMA EnterMisses ==
    ASSUME NEW t, NEW n, NEW v, Enter(t, n, v) \/ WanLinkCallback(t, v) \/ UNCHANGED lost,
           UNCHANGED <<channel, handler, phy>>
    PROVE  Channel!Miss \/ UNCHANGED <<Pending, phy, lost>>
<1>1. Pending' = Pending
  BY DEF Pending, channel
<1> QED
  BY <1>1 DEF WanLinkCallback, Enter, Channel!Miss

LEMMA StepChanneled == TypeOK /\ TypeOK' /\ Made /\ [Next]_vars => [Channel!Next]_(Channel!vars)
<1> SUFFICES ASSUME TypeOK, TypeOK', Made, [Next]_vars PROVE [Channel!Next]_(Channel!vars)
  OBVIOUS
<1>1. CASE UNCHANGED <<Pending, phy, lost>>
  BY <1>1 DEF Channel!vars
<1>2. CASE LinkChange
  <2>1. \/ WanLinkCallback("hal", IF up' THEN "UP" ELSE "DOWN")
        \/ UNCHANGED lost
    BY <1>2 DEF LinkChange
  <2>2. UNCHANGED <<channel, handler, phy>>
    BY <1>2 DEF LinkChange
  <2> QED
    BY <1>1, <2>1, <2>2, EnterMisses DEF Channel!Next
<1>3. ASSUME NEW v \in Status, Simulate(v) PROVE [Channel!Next]_(Channel!vars)
  BY <1>1, <1>3, EnterMisses DEF Simulate, Channel!Next
<1>4. ASSUME NEW n \in Names, NEW v \in Status, TriggerExternal(n, v)
      PROVE  [Channel!Next]_(Channel!vars)
  BY <1>1, <1>4, EnterMisses DEF TriggerExternal, Channel!Next
<1>5. ASSUME NEW t \in Threads, Send(t) PROVE [Channel!Next]_(Channel!vars)
  BY <1>5, SendPosts DEF Channel!Next
<1>6. CASE CreateQueue
  <2>1. handler.at # "deliver" /\ handler'.at # "deliver" /\ UNCHANGED <<queue, phy, lost>>
    BY <1>6 DEF CreateQueue, At
  <2> QED
    BY <1>1, <2>1, PendingSays, PendingNext
<1>7. CASE Receive
  BY <1>1, <1>7, ReceiveHolds
<1>8. CASE Deliver
  BY <1>8, DeliverTells DEF Channel!Next
<1>9. CASE Boot
  BY <1>1, <1>9, BootSetsUp DEF Channel!Next
<1>10. CASE Crash
  BY <1>1, <1>10, CrashSkips DEF Channel!Next
<1>11. CASE UNCHANGED vars
  <2>1. UNCHANGED <<Pending, phy, lost>>
    BY <1>11 DEF vars, channel, Pending
  <2> QED
    BY <1>1, <2>1
<1> QED
  BY <1>2, <1>3, <1>4, <1>5, <1>6, <1>7, <1>8, <1>9, <1>10, <1>11 DEF Next, HandlerThread

\* The queue, the handler thread and the start-up implement EthStatusChannel, for any
\* interfaces, any length of the queue and any number of crashes: Phy.Status follows
\* the messages in the order in which mq_send queued them, each once.
THEOREM ChannelImplemented == Spec => ChannelKept
<1>1. Init => Channel!Init
  <2> SUFFICES ASSUME Init PROVE Channel!Init
    OBVIOUS
  <2>1. Pending = <<>>
    <3>1. queue = <<>> /\ handler.at # "deliver"
      BY DEF Init, At
    <3> QED
      BY <3>1, EmptySeq, ConcatEmptySeq DEF Pending
  <2> QED
    BY <2>1 DEF Init, Channel!Init
<1> QED
  BY <1>1, StepChanneled, TypeCorrect, HandlerMade, PTL DEF Spec, ChannelKept, Channel!Spec
=============================================================================
