--------------------------- MODULE EthLinkEvents ---------------------------
(***************************************************************************)
(* How a link change reaches the WAN manager: a callback writes the        *)
(* interface table and sends a message to the POSIX queue, the event       *)
(* handler thread receives it and writes Phy.Status in the WAN manager;    *)
(* and how the agent's start-up sets all this up (CosaEthernetInitialize,  *)
(* CosaDmlEthInit) while links may already change.  The agent may crash:   *)
(* the queue and the WAN manager outlive it, the table does not.           *)
(*                                                                         *)
(* The callbacks are called by the HAL's thread and by the failover        *)
(* simulation, both for the WAN interface, by the data model dispatcher    *)
(* (Enable of an external interface), and once by the start-up itself.     *)
(***************************************************************************)
EXTENDS Naturals, Sequences, FiniteSets

CONSTANTS
    Names,          \* interface names with a row in gpstEthGInfo
    WanIface,       \* the one GetWan_InterfaceName and the boot check name
    Writers,        \* which of "hal", "sim", "dml" are at work
    MaxQueue,       \* MAX_QUEUE_LENGTH
    AutoWan,        \* built with AUTOWAN_ENABLE, without WAN_MANAGER_UNIFICATION_ENABLED
    MayFail,        \* TRUE: bus calls and the handler's start may fail
    MaxCrashes      \* bound on crashes of the agent

ASSUME IfaceAssumption == WanIface \in Names
ASSUME WritersAssumption == Writers \subseteq {"hal", "sim", "dml"}
ASSUME BoundsAssumption == MaxQueue \in Nat \ {0} /\ MaxCrashes \in Nat
ASSUME FlagAssumption == AutoWan \in BOOLEAN /\ MayFail \in BOOLEAN

VARIABLES
    up,         \* the physical link of WanIface
    link,       \* gpstEthGInfo[n].LinkStatus
    caller,     \* a thread inside CosaDmlEthPortLinkStatusCallback
    exists,     \* the queue COSA_ETH_EVENT_QUEUE_NAME exists
    queue,      \* its messages
    handler,    \* CosaDmlEthEventHandlerThread and the message it holds
    phy,        \* WAN manager: Phy.Status of each interface
    boot,       \* where the start-up is
    leftover,   \* the failover simulation's file is there
    crashes,    \* crashes so far
    lastSent,   \* history: the last status queued for each interface
    bootWrote,  \* history: the start-up wrote Phy.Status past the queue
    disturbed,  \* history: a link event came during the start-up, or one of the
                \* simulation, or the agent crashed
    lost        \* history: a link event was dropped or not delivered

callers == <<caller, lastSent>>
channel == <<exists, queue>>
vars == <<up, link, caller, exists, queue, handler, phy, boot, leftover,
          crashes, lastSent, bootWrote, disturbed, lost>>

Status == {"UP", "DOWN"}
Message == [name : Names, status : Status]
None == [name |-> WanIface, status |-> "DOWN"]    \* of no meaning while idle
Threads == Writers \cup {"boot"}
Steps == {"portInit", "spawn", "halInit", "readLink", "readPhy", "setPhy",
          "setTable", "leftover", "done"}

At(step, m) == [at |-> step, msg |-> m]

Init ==
    /\ up \in BOOLEAN
    /\ link = [n \in Names |-> "DOWN"]
    /\ caller = [t \in Threads |-> At("idle", None)]
    /\ exists = FALSE /\ queue = <<>>
    /\ handler = At("none", None)
    /\ phy = [n \in Names |-> "None"]
    /\ boot = "portInit"
    /\ leftover = FALSE
    /\ crashes = 0
    /\ lastSent = [n \in Names |-> "None"]
    /\ bootWrote = FALSE /\ disturbed = FALSE
    /\ lost = FALSE

-----------------------------------------------------------------------------
(* CosaDmlEthPortLinkStatusCallback: the row under the lock, then the queue. *)

\* PortInit allocates the table: before it no name has a row.
TableExists == boot # "portInit"

\* The effect of thread t entering the callback for n: an event for which
\* there is no row is dropped.
Enter(t, n, v) ==
    IF TableExists
    THEN /\ link' = [link EXCEPT ![n] = v]
         /\ caller' = [caller EXCEPT ![t] = At("send", [name |-> n, status |-> v])]
         /\ UNCHANGED lost
    ELSE lost' = TRUE /\ UNCHANGED <<link, caller>>

\* EthWanLinkUp_callback, EthWanLinkDown_callback.  Built with AUTOWAN_ENABLE they
\* return at once while the Ethernet mode is not enabled: nobody learns of the link.
WanLinkCallback(t, v) ==
    \/ Enter(t, WanIface, v)
    \/ AutoWan /\ lost' = TRUE /\ UNCHANGED <<link, caller>>

\* Mutant: a full queue drops the message instead of waiting for room.
Bug_SendDrops(t) ==
    /\ caller[t].at = "send"
    /\ caller' = [caller EXCEPT ![t] = At("idle", None)]
    /\ IF ~exists THEN lost' = TRUE /\ UNCHANGED <<queue, lastSent>>
       ELSE /\ queue' = IF Len(queue) < MaxQueue THEN Append(queue, caller[t].msg) ELSE queue
            /\ lastSent' = [lastSent EXCEPT ![caller[t].msg.name] = caller[t].msg.status]
            /\ UNCHANGED lost
    /\ UNCHANGED <<up, link, exists, handler, phy, boot, leftover, crashes, bootWrote, disturbed>>

\* mq_open without O_CREAT fails while there is no queue; mq_send waits for
\* room in a full one; a failure of either drops the message.
Send(t) ==
    /\ caller[t].at = "send"
    /\ caller' = [caller EXCEPT ![t] = At("idle", None)]
    /\ \/ (~exists \/ MayFail) /\ lost' = TRUE /\ UNCHANGED <<queue, lastSent>>
       \/ /\ exists /\ Len(queue) < MaxQueue
          /\ queue' = Append(queue, caller[t].msg)
          /\ lastSent' = [lastSent EXCEPT ![caller[t].msg.name] = caller[t].msg.status]
          /\ UNCHANGED lost
    /\ UNCHANGED <<up, link, exists, handler, phy, boot, leftover, crashes, bootWrote, disturbed>>

CallerFree(t) == caller[t].at = "idle"

\* The HAL calls back for a change of the link once it is initialised.
HalRuns == boot \notin {"portInit", "spawn", "halInit"}

LinkChange ==
    /\ "hal" \in Writers /\ CallerFree("hal")
    /\ up' = ~up
    /\ disturbed' = (disturbed \/ boot # "done")
    /\ IF HalRuns THEN WanLinkCallback("hal", IF up' THEN "UP" ELSE "DOWN")
       ELSE UNCHANGED <<link, caller, lost>>
    /\ UNCHANGED <<channel, handler, phy, boot, leftover, crashes, lastSent, bootWrote>>

\* The failover simulation plays a link change (EthWanFailover); its rbus
\* parameters are served from before CosaDmlEthInit on.
Simulate(v) ==
    /\ "sim" \in Writers /\ CallerFree("sim")
    /\ WanLinkCallback("sim", v)
    /\ disturbed' = TRUE
    /\ UNCHANGED <<up, channel, handler, phy, boot, leftover, crashes, lastSent, bootWrote>>

\* Enable of an external interface (CosaDmlTriggerExternalEthPortLinkStatus).
TriggerExternal(n, v) ==
    /\ "dml" \in Writers /\ CallerFree("dml") /\ boot = "done"
    /\ n # WanIface
    /\ Enter("dml", n, v)
    /\ UNCHANGED <<up, channel, handler, phy, boot, leftover, crashes, lastSent, bootWrote, disturbed>>

-----------------------------------------------------------------------------
(* The event handler thread. *)

\* Mutant: the queue is made afresh.
Bug_FreshQueue ==
    /\ handler.at = "open"
    /\ \/ exists' = TRUE /\ queue' = <<>> /\ handler' = At("receive", None)
       \/ MayFail /\ UNCHANGED <<exists, queue>> /\ handler' = At("dead", None)
    /\ UNCHANGED <<up, link, callers, phy, boot, leftover, crashes, bootWrote, disturbed, lost>>

\* mq_open with O_CREAT leaves an existing queue and its messages alone.
CreateQueue ==
    /\ handler.at = "open"
    /\ \/ exists' = TRUE /\ handler' = At("receive", None)
       \/ MayFail /\ UNCHANGED exists /\ handler' = At("dead", None)
    /\ UNCHANGED <<up, link, callers, queue, phy, boot, leftover, crashes, bootWrote, disturbed, lost>>

\* A failing mq_receive ends the thread; nobody starts another one.
Receive ==
    /\ handler.at = "receive"
    /\ \/ /\ queue # <<>>
          /\ handler' = At("deliver", Head(queue))
          /\ queue' = Tail(queue)
       \/ MayFail /\ handler' = At("dead", None) /\ UNCHANGED queue
    /\ UNCHANGED <<up, link, callers, exists, phy, boot, leftover, crashes, bootWrote, disturbed, lost>>

\* CosaDmlEthSetPhyStatusForWanManager; the path it sets first never varies,
\* and a failure of either write is not retried.
Deliver ==
    /\ handler.at = "deliver"
    /\ handler' = At("receive", None)
    /\ \/ phy' = [phy EXCEPT ![handler.msg.name] = handler.msg.status] /\ UNCHANGED lost
       \/ MayFail /\ UNCHANGED phy /\ lost' = TRUE
    /\ UNCHANGED <<up, link, callers, channel, boot, leftover, crashes, bootWrote, disturbed>>

-----------------------------------------------------------------------------
(* The start-up. *)

BootStep(from, to) == boot = from /\ boot' = to

PortInit ==
    /\ BootStep("portInit", "spawn")
    /\ link' = [n \in Names |-> "DOWN"]
    /\ UNCHANGED <<up, callers, channel, handler, phy, leftover, crashes, bootWrote, disturbed, lost>>

\* Mutant: a queue that exists is taken for a handler thread that runs.
Bug_QueueTakenForHandler ==
    /\ BootStep("spawn", "halInit")
    /\ IF exists THEN UNCHANGED handler ELSE handler' = At("open", None)
    /\ UNCHANGED <<up, link, callers, channel, phy, leftover, crashes, bootWrote, disturbed, lost>>

SpawnHandler ==
    /\ BootStep("spawn", "halInit")
    /\ \/ handler' = At("open", None)
       \/ MayFail /\ handler' = At("dead", None)
    /\ UNCHANGED <<up, link, callers, channel, phy, leftover, crashes, bootWrote, disturbed, lost>>

\* CosaDmlEthInit gives up when the HAL cannot be initialised, and its caller
\* goes on.
HalInit ==
    /\ \/ BootStep("halInit", "readLink") /\ UNCHANGED lost
       \/ MayFail /\ BootStep("halInit", "leftover") /\ lost' = TRUE
    /\ UNCHANGED <<up, link, callers, channel, handler, phy, leftover, crashes, bootWrote, disturbed>>

\* CosaDmlMapWanCPEtoEthInterfaces and GWP_GetEthWanLinkStatus.
ReadLink ==
    /\ BootStep("readLink", IF up THEN "readPhy" ELSE "leftover")
    /\ UNCHANGED <<up, link, callers, channel, handler, phy, leftover, crashes, bootWrote, disturbed, lost>>

\* When Phy.Status cannot be read, the link that is up is not told.
ReadPhy ==
    /\ \/ /\ BootStep("readPhy", IF phy[WanIface] # "UP" THEN "setPhy" ELSE "leftover")
          /\ UNCHANGED lost
       \/ MayFail /\ BootStep("readPhy", "leftover") /\ lost' = TRUE
    /\ UNCHANGED <<up, link, callers, channel, handler, phy, leftover, crashes, bootWrote, disturbed>>

SetPhyUp ==
    /\ BootStep("setPhy", "setTable")
    /\ bootWrote' = TRUE
    /\ \/ phy' = [phy EXCEPT ![WanIface] = "UP"] /\ UNCHANGED lost
       \/ MayFail /\ UNCHANGED phy /\ lost' = TRUE
    /\ UNCHANGED <<up, link, callers, channel, handler, leftover, crashes, disturbed>>

\* Mutant: the table is not told what Phy.Status was set to.
Bug_TableNotSet ==
    /\ BootStep("setTable", "leftover")
    /\ UNCHANGED <<up, link, callers, channel, handler, phy, leftover, crashes, bootWrote, disturbed, lost>>

SetTableUp ==
    /\ BootStep("setTable", "leftover")
    /\ link' = [link EXCEPT ![WanIface] = "UP"]
    /\ UNCHANGED <<up, callers, channel, handler, phy, leftover, crashes, bootWrote, disturbed, lost>>

\* A simulation that a crash cut short is ended by bringing the link up.
EndSimulation ==
    /\ BootStep("leftover", "done")
    /\ leftover' = FALSE
    /\ IF leftover THEN WanLinkCallback("boot", "UP") ELSE UNCHANGED <<link, caller, lost>>
    /\ UNCHANGED <<up, channel, handler, phy, crashes, lastSent, bootWrote, disturbed>>

Boot ==
    \/ PortInit \/ SpawnHandler \/ HalInit \/ ReadLink \/ ReadPhy
    \/ SetPhyUp \/ SetTableUp \/ EndSimulation

\* Every thread and the table are gone; what a thread held is lost, what is
\* queued is not.
Crash ==
    /\ crashes < MaxCrashes
    /\ crashes' = crashes + 1
    /\ boot' = "portInit"
    /\ link' = [n \in Names |-> "DOWN"]
    /\ caller' = [t \in Threads |-> At("idle", None)]
    /\ handler' = At("none", None)
    /\ leftover' \in (IF "sim" \in Writers THEN BOOLEAN ELSE {leftover})
    /\ lost' = (lost \/ handler.at = "deliver" \/ \E t \in Threads : caller[t].at = "send")
    /\ disturbed' = TRUE
    /\ UNCHANGED <<up, channel, phy, lastSent, bootWrote>>

-----------------------------------------------------------------------------
HandlerThread == CreateQueue \/ Receive \/ Deliver

Next ==
    \/ LinkChange
    \/ \E v \in Status : Simulate(v)
    \/ \E n \in Names, v \in Status : TriggerExternal(n, v)
    \/ \E t \in Threads : Send(t)
    \/ HandlerThread \/ Boot \/ Crash

Spec == Init /\ [][Next]_vars

-----------------------------------------------------------------------------
(* Properties. *)

TypeOK ==
    /\ up \in BOOLEAN /\ exists \in BOOLEAN /\ leftover \in BOOLEAN
    /\ bootWrote \in BOOLEAN /\ disturbed \in BOOLEAN /\ lost \in BOOLEAN
    /\ link \in [Names -> Status]
    /\ phy \in [Names -> Status \cup {"None"}]
    /\ lastSent \in [Names -> Status \cup {"None"}]
    /\ caller \in [Threads -> [at : {"idle", "send"}, msg : Message]]
    /\ queue \in Seq(Message) /\ Len(queue) <= MaxQueue
    /\ handler \in [at : {"none", "open", "receive", "deliver", "dead"}, msg : Message]
    /\ boot \in Steps
    /\ crashes \in 0..MaxCrashes

Quiet ==
    /\ boot = "done" /\ queue = <<>> /\ handler.at = "receive"
    /\ \A t \in Threads : CallerFree(t)

\* Once everything has come to rest and no event was lost, the WAN manager's
\* Phy.Status of the WAN interface is the table's LinkStatus and the link's
\* own state, if the start-up was left alone and only the HAL changed the link.
RestingStatesAgree ==
    (Quiet /\ ~lost /\ ~disturbed) =>
        /\ link[WanIface] = IF up THEN "UP" ELSE "DOWN"
        /\ phy[WanIface] = "None" => link[WanIface] = "DOWN"
        /\ phy[WanIface] # "None" => phy[WanIface] = link[WanIface]

\* Whatever the number of writers, and across crashes of the agent: the WAN
\* manager ends up with the status queued last, unless an event was lost or
\* the start-up wrote past the queue.
LastQueuedWins ==
    (Quiet /\ ~lost /\ ~bootWrote) =>
        \A n \in Names : lastSent[n] # "None" => phy[n] = lastSent[n]

\* Whoever is blocked in mq_send, because the queue is full, has a handler thread
\* that makes room, or a start-up that is still going to create it and is not
\* itself blocked: no callback waits for ever, although a full queue may be left
\* over from before a crash.  The exception is a handler thread that has ended.
FullQueueIsServed ==
    \A t \in Threads : (caller[t].at = "send" /\ exists /\ Len(queue) = MaxQueue) =>
        \/ handler.at # "none"
        \/ boot \in {"portInit", "spawn"} /\ t # "boot"

\* The messages queued and not told yet: the one the handler thread holds is the oldest.
Pending == (IF handler.at = "deliver" THEN <<handler.msg>> ELSE <<>>) \o queue

Channel == INSTANCE EthStatusChannel WITH
               pending <- Pending, view <- phy, Capacity <- MaxQueue + 1

\* The queue, its handler thread and the start-up implement that channel: no crash,
\* no failing call and no order of the threads makes a message be delivered twice,
\* overtake another or vanish without trace.
ChannelKept == Channel!Spec
=============================================================================
