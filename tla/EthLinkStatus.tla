--------------------------- MODULE EthLinkStatus ---------------------------
(***************************************************************************)
(* Device.X_RDKCENTRAL-COM_EthernetWAN.LinkStatus on rbus: the callbacks   *)
(* for the WAN interface write EWanLinkStatus and publish it, without a    *)
(* lock, to the clients that have subscribed.  Three threads may run them: *)
(* the HAL's, the failover simulation's and, once, the start-up's.  (Built *)
(* with AUTOWAN_ENABLE and WAN_FAILOVER_SUPPORTED, in the Ethernet mode.)  *)
(***************************************************************************)
EXTENDS Naturals, FiniteSets

CONSTANTS
    Clients,        \* rbus clients that may subscribe to the status
    EventsFail      \* whether rbusEvent_Publish may fail

ASSUME ClientsAssumption == IsFiniteSet(Clients)
ASSUME EventsAssumption == EventsFail \in BOOLEAN

VARIABLES
    link,               \* the physical link of the WAN port
    halSaw,             \* what the HAL has called back for, or took as known
    caller,             \* where a thread is: inside publishEWanLinkStatus, or, for the
                        \* start-up, before it looks for the file of a simulation
    simulating,         \* the failover simulation has the link down, and its file is there
    EWanLinkStatus,     \* of ethAgent_Link_Status
    gSubscribersCount,
    client,     \* whether a client has subscribed, and read; what it saw last
    fromHal,    \* history: EWanLinkStatus is what the HAL's thread wrote
    excused     \* history: callbacks crossed, or an event was not published,
                \* since a callback last had the status for itself

status == <<halSaw, caller, simulating, EWanLinkStatus, gSubscribersCount, client,
            fromHal, excused>>

Threads == {"hal", "sim", "boot"}
Idle == [at |-> "idle", told |-> FALSE]
Stranger == [at |-> "off", seen |-> FALSE]
Nobody == [t \in Threads |-> Idle]
Busy(t) == caller[t].at \in {"count", "notify"}

\* The HAL may or may not call back for the state the link is in at the start.
StatusInit ==
    /\ link \in BOOLEAN /\ halSaw \in BOOLEAN
    /\ caller = Nobody /\ simulating = FALSE
    /\ EWanLinkStatus = FALSE /\ gSubscribersCount = 0
    /\ client = [c \in Clients |-> Stranger]
    /\ fromHal = FALSE /\ excused = FALSE

AtRest == \A t \in Threads : ~Busy(t)

-----------------------------------------------------------------------------
(* The callbacks. *)

\* MUTANT of CallBack: a status nobody has subscribed to is not kept.
Bug_KeptForSubscribers(t, v) ==
    /\ ~Busy(t)
    /\ caller' = [caller EXCEPT ![t].at = "count"]
    /\ EWanLinkStatus' = IF gSubscribersCount > 0 THEN v ELSE EWanLinkStatus
    /\ fromHal' = (t = "hal") /\ excused' = ~AtRest
    /\ UNCHANGED <<gSubscribersCount, client>>

\* EthWanLinkUp_callback, EthWanLinkDown_callback: publishEWanLinkStatus writes
\* the status first, ...
CallBack(t, v) ==
    /\ ~Busy(t)
    /\ caller' = [caller EXCEPT ![t].at = "count"]
    /\ EWanLinkStatus' = v
    /\ fromHal' = (t = "hal") /\ excused' = ~AtRest
    /\ UNCHANGED <<gSubscribersCount, client>>

\* MUTANT of CountSubscribers: an event says what the link was before.
Bug_TellsOld(t) ==
    /\ caller[t].at = "count"
    /\ caller' = [caller EXCEPT ![t] = IF gSubscribersCount > 0
                                       THEN [at |-> "notify", told |-> ~EWanLinkStatus]
                                       ELSE Idle]

\* ... then it looks at the count, and reads the status once more for the event.
CountSubscribers(t) ==
    /\ caller[t].at = "count"
    /\ caller' = [caller EXCEPT ![t] = IF gSubscribersCount > 0
                                       THEN [at |-> "notify", told |-> EWanLinkStatus]
                                       ELSE Idle]

\* sendBoolUpdateEvent; an event that cannot be published is not repeated.  (What
\* a client is told before it has read the status, its own reading replaces.)
sendBoolUpdateEvent(t) ==
    /\ caller[t].at = "notify"
    /\ caller' = [caller EXCEPT ![t] = Idle]
    /\ \/ /\ client' = [c \in Clients |-> IF client[c].at # "current" THEN client[c]
                                          ELSE [client[c] EXCEPT !.seen = caller[t].told]]
          /\ UNCHANGED excused
       \/ EventsFail /\ excused' = TRUE /\ UNCHANGED client

publishEWanLinkStatus(t) ==
    /\ \/ CountSubscribers(t) /\ UNCHANGED <<client, excused>>
       \/ sendBoolUpdateEvent(t)
    /\ UNCHANGED <<link, halSaw, simulating, EWanLinkStatus, gSubscribersCount, fromHal>>

\* The HAL's thread calls back for a link that is not what it was.
HalCallsBack ==
    /\ halSaw # link /\ halSaw' = link /\ CallBack("hal", link)
    /\ UNCHANGED <<link, simulating>>

\* Wan_Failover_Simulation: the link down, unless LinkDown was taken back before
\* the thread looked, and up again.
Simulate(v) ==
    /\ simulating' = ~v /\ CallBack("sim", v)
    /\ UNCHANGED <<link, halSaw>>

\* The start-up, after the callbacks are registered: a simulation that left its file
\* is ended by an Up; when it cannot be removed, or has gone, nothing is told.
BootRemovesFile ==
    /\ caller["boot"].at = "due"
    /\ \/ simulating /\ simulating' = FALSE /\ CallBack("boot", TRUE)
       \/ /\ caller' = [caller EXCEPT !["boot"] = Idle]
          /\ UNCHANGED <<simulating, EWanLinkStatus, gSubscribersCount, client, fromHal, excused>>
    /\ UNCHANGED <<link, halSaw>>

-----------------------------------------------------------------------------
(* The rbus clients. *)

eventSubHandler(subscribes) ==
    gSubscribersCount' = IF subscribes THEN gSubscribersCount + 1
                         ELSE IF gSubscribersCount > 0 THEN gSubscribersCount - 1 ELSE 0

Subscribe(c) ==
    /\ client[c].at = "off" /\ eventSubHandler(TRUE)
    /\ client' = [client EXCEPT ![c].at = "subscribed"]

\* A client subscribes first, and then asks what the status is.
getBoolHandler(c) ==
    /\ client[c].at = "subscribed"
    /\ client' = [client EXCEPT ![c] = [at |-> "current", seen |-> EWanLinkStatus]]
    /\ UNCHANGED gSubscribersCount

Unsubscribe(c) ==
    /\ client[c].at # "off" /\ eventSubHandler(FALSE)
    /\ client' = [client EXCEPT ![c] = Stranger]

ClientStep(c) ==
    /\ Subscribe(c) \/ getBoolHandler(c) \/ Unsubscribe(c)
    /\ UNCHANGED <<link, halSaw, caller, simulating, EWanLinkStatus, fromHal, excused>>

-----------------------------------------------------------------------------
\* The agent ends and starts again (ethAgentRbusInit, initLinkStatus): the clients
\* have to subscribe anew, and the status is FALSE until somebody calls back.  The
\* start-up will look for a simulation's file, which matters only when there is one.
StatusRestarts ==
    /\ halSaw' \in BOOLEAN
    /\ gSubscribersCount' = 0 /\ client' = [c \in Clients |-> Stranger]
    /\ EWanLinkStatus' = FALSE /\ fromHal' = FALSE
    /\ caller' = IF simulating THEN [Nobody EXCEPT !["boot"].at = "due"] ELSE Nobody
    /\ excused' = FALSE
    /\ UNCHANGED simulating

StatusNext ==
    \/ HalCallsBack
    \/ \E v \in BOOLEAN : Simulate(v)
    \/ BootRemovesFile
    \/ \E t \in Threads : publishEWanLinkStatus(t)
    \/ \E c \in Clients : ClientStep(c)

StatusFairness ==
    /\ WF_<<status, link>>(HalCallsBack) /\ WF_<<status, link>>(BootRemovesFile)
    /\ \A t \in Threads : WF_<<status, link>>(publishEWanLinkStatus(t))

-----------------------------------------------------------------------------
StatusTypeOK ==
    /\ link \in BOOLEAN /\ halSaw \in BOOLEAN /\ simulating \in BOOLEAN
    /\ caller \in [Threads -> [at : {"idle", "due", "count", "notify"}, told : BOOLEAN]]
    /\ EWanLinkStatus \in BOOLEAN /\ gSubscribersCount \in Nat
    /\ client \in [Clients -> [at : {"off", "subscribed", "current"}, seen : BOOLEAN]]
    /\ fromHal \in BOOLEAN /\ excused \in BOOLEAN

\* A client that subscribed and then read the status knows it whenever no callback
\* is under way: no callback falls between its subscription and its read.  Callbacks
\* that cross, and events that are not published, excuse it until a callback comes
\* by itself.
SubscribersKnowStatus ==
    (AtRest /\ ~excused) =>
        \A c \in Clients : client[c].at = "current" => client[c].seen = EWanLinkStatus

\* When the link stays as it is, and the last to call back is the HAL and not a
\* simulation, every client that stays subscribed ends up with the link's state.
SubscribersLearnLink ==
    \A c \in Clients :
        <>[](client[c].at = "current" /\ fromHal /\ ~excused)
            => \/ <>[](client[c].seen = link)
               \/ []<>(link) /\ []<>(~link)
=============================================================================
