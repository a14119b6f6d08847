----------------------- MODULE EthLinkReports_proofs -----------------------
(***************************************************************************)
(* What the subscribers of the WAN link's status know, for any number of   *)
(* clients.  The invariant says what publishEWanLinkStatus relies on: the  *)
(* count is the number of clients that have subscribed, and while nothing  *)
(* excuses it one thread at most is inside and holds the present status.   *)
(* And that a request of the WAN manager has a monitor, for any interfaces *)
(* and any length of the wait.                                             *)
(***************************************************************************)
EXTENDS EthLinkReports, FiniteSetTheorems, TLAPS

Subscribed == {c \in Clients : client[c].at # "off"}

\* The threads have the status one after the other.
OneInside ==
    ~excused => \A t, u \in Threads : Busy(t) /\ Busy(u) => t = u

\* An event about to be sent holds the present status.
EventIsCurrent ==
    ~excused => \A t \in Threads : caller[t].at = "notify" => caller[t].told = EWanLinkStatus

\* A client whose knowledge is old has an event coming.
OldKnowledgeEnds ==
    ~excused => \A c \in Clients :
        client[c].at = "current" /\ client[c].seen # EWanLinkStatus =>
            \E t \in Threads : Busy(t)

Counted == gSubscribersCount = Cardinality(Subscribed)

\* What is idle holds nothing.
IdleIsIdle == \A t \in Threads : caller[t].at = "idle" => caller[t] = Idle

Inv == StatusTypeOK /\ OneInside /\ EventIsCurrent /\ OldKnowledgeEnds /\ Counted /\ IdleIsIdle

\* The number of clients that have subscribed is finite.
LEMMA SubscribedFinite == IsFiniteSet(Subscribed)
BY ClientsAssumption, FS_Subset DEF Subscribed

\* Nobody has subscribed when the count is zero.
LEMMA CountZero == Counted /\ gSubscribersCount = 0 => Subscribed = {}
BY SubscribedFinite, FS_EmptySet DEF Counted

\* The invariant holds at the start.
LEMMA InitInv == Init => Inv
<1> SUFFICES ASSUME Init PROVE Inv
  OBVIOUS
<1>1. StatusTypeOK
  BY DEF Init, StatusInit, StatusTypeOK, Threads, Idle, Stranger, Nobody
<1>2. Counted
  <2>1. Subscribed = {}
    BY DEF Init, StatusInit, Subscribed, Stranger
  <2> QED
    BY <2>1, FS_EmptySet DEF Counted, Init, StatusInit
<1>3. OneInside /\ EventIsCurrent /\ OldKnowledgeEnds /\ IdleIsIdle
  BY DEF Init, StatusInit, OneInside, EventIsCurrent, OldKnowledgeEnds, IdleIsIdle, Idle, Stranger,
         Nobody, Busy
<1> QED
  BY <1>1, <1>2, <1>3 DEF Inv

\* A callback that begins: it has the status for itself, or it is excused.
LEMMA CallBackKeeps ==
    ASSUME Inv, NEW t \in Threads, NEW v \in BOOLEAN, CallBack(t, v),
           halSaw' \in BOOLEAN, simulating' \in BOOLEAN, UNCHANGED link
    PROVE Inv'
<1>1. StatusTypeOK'
  BY DEF Inv, CallBack, StatusTypeOK, Threads, Idle
<1>2. caller'[t].at = "count" /\ \A u \in Threads \ {t} : caller'[u] = caller[u]
  BY DEF Inv, StatusTypeOK, CallBack
<1>3. ~excused' => \A u \in Threads \ {t} : ~Busy(u)'
  BY <1>2 DEF CallBack, AtRest, Busy
<1>4. OneInside' /\ EventIsCurrent' /\ OldKnowledgeEnds'
  BY <1>2, <1>3 DEF OneInside, EventIsCurrent, OldKnowledgeEnds, Busy
<1>5. Counted' /\ IdleIsIdle'
  BY <1>2 DEF Inv, CallBack, Counted, Subscribed, IdleIsIdle
<1> QED
  BY <1>1, <1>4, <1>5 DEF Inv

\* Looking at the count: whoever has subscribed gets an event, and if nobody has
\* there is nobody whose knowledge is old.
LEMMA CountKeeps ==
    ASSUME Inv, NEW t \in Threads, CountSubscribers(t), UNCHANGED <<client, excused>>,
           UNCHANGED <<link, halSaw, simulating, EWanLinkStatus, gSubscribersCount, fromHal>>
    PROVE Inv'
<1>1. StatusTypeOK'
  BY DEF Inv, CountSubscribers, StatusTypeOK, Threads, Idle
<1>2. \A u \in Threads \ {t} : caller'[u] = caller[u]
  BY DEF Inv, StatusTypeOK, CountSubscribers
<1>3. Busy(t) /\ \A u \in Threads : Busy(u)' => Busy(u)
  BY <1>2 DEF CountSubscribers, Busy
<1>4. OneInside'
  BY <1>3 DEF Inv, OneInside
<1>5. EventIsCurrent'
  BY <1>2 DEF Inv, StatusTypeOK, EventIsCurrent, CountSubscribers, Idle
<1>6. IdleIsIdle'
  BY <1>2 DEF Inv, StatusTypeOK, IdleIsIdle, CountSubscribers, Idle
<1>7. Counted'
  BY DEF Inv, Counted, Subscribed
<1>8. OldKnowledgeEnds'
  <2>1. CASE gSubscribersCount > 0
    <3>1. caller'[t].at = "notify"
      BY <2>1 DEF Inv, StatusTypeOK, CountSubscribers
    <3> QED
      BY <3>1 DEF OldKnowledgeEnds, Busy
  <2>2. CASE ~(gSubscribersCount > 0)
    <3>1. Subscribed = {}
      BY <2>2, CountZero DEF Inv, StatusTypeOK
    <3> QED
      BY <3>1 DEF OldKnowledgeEnds, Subscribed
  <2> QED
    BY <2>1, <2>2
<1> QED
  BY <1>1, <1>4, <1>5, <1>6, <1>7, <1>8 DEF Inv

\* An event: every client that has subscribed learns the present status.
LEMMA EventKeeps ==
    ASSUME Inv, NEW t \in Threads, sendBoolUpdateEvent(t),
           UNCHANGED <<link, halSaw, simulating, EWanLinkStatus, gSubscribersCount, fromHal>>
    PROVE Inv'
<1>1. StatusTypeOK'
  <2>1. caller' \in [Threads -> [at : {"idle", "due", "count", "notify"}, told : BOOLEAN]]
    BY DEF Inv, sendBoolUpdateEvent, StatusTypeOK, Idle
  <2>2. caller[t].told \in BOOLEAN
    BY DEF Inv, StatusTypeOK
  <2>3. \A c \in Clients : [client[c] EXCEPT !.seen = caller[t].told]
                            \in [at : {"off", "subscribed", "current"}, seen : BOOLEAN]
    BY <2>2 DEF Inv, StatusTypeOK
  <2>4. client' \in [Clients -> [at : {"off", "subscribed", "current"}, seen : BOOLEAN]]
    BY <2>3 DEF Inv, sendBoolUpdateEvent, StatusTypeOK
  <2>5. excused' \in BOOLEAN
    BY DEF Inv, sendBoolUpdateEvent, StatusTypeOK
  <2> QED
    BY <2>1, <2>4, <2>5 DEF Inv, StatusTypeOK
<1>2. caller'[t] = Idle /\ \A u \in Threads \ {t} : caller'[u] = caller[u]
  BY DEF Inv, StatusTypeOK, sendBoolUpdateEvent
<1>3. excused => excused'
  BY DEF sendBoolUpdateEvent
<1>4. OneInside' /\ EventIsCurrent' /\ IdleIsIdle'
  BY <1>2, <1>3 DEF Inv, OneInside, EventIsCurrent, IdleIsIdle, Idle, Busy
<1>5. \A c \in Clients : client'[c].at = client[c].at
  BY DEF Inv, StatusTypeOK, sendBoolUpdateEvent
<1>6. Counted'
  <2>1. Subscribed' = Subscribed
    BY <1>5 DEF Subscribed
  <2> QED
    BY <2>1 DEF Inv, Counted
<1>7. OldKnowledgeEnds'
  <2> SUFFICES ASSUME ~excused', NEW c \in Clients, client'[c].at = "current"
               PROVE client'[c].seen = EWanLinkStatus'
    BY DEF OldKnowledgeEnds
  <2>1. client'[c].seen = caller[t].told
    BY <1>5 DEF Inv, StatusTypeOK, sendBoolUpdateEvent
  <2>2. caller[t].told = EWanLinkStatus
    BY <1>3 DEF Inv, EventIsCurrent, sendBoolUpdateEvent
  <2> QED
    BY <2>1, <2>2
<1> QED
  BY <1>1, <1>4, <1>6, <1>7 DEF Inv

\* A client that comes, reads or goes is counted, and what it reads is present.
LEMMA ClientKeeps ==
    ASSUME Inv, NEW c \in Clients, ClientStep(c)
    PROVE Inv'
<1> USE DEF Inv
<1>1. OneInside' /\ EventIsCurrent' /\ IdleIsIdle'
  BY DEF ClientStep, OneInside, EventIsCurrent, IdleIsIdle, Busy
<1>2. \A d \in Clients \ {c} : client'[d] = client[d]
  BY DEF StatusTypeOK, ClientStep, Subscribe, getBoolHandler, Unsubscribe
<1>3. client'[c].at = "current" => client'[c].seen = EWanLinkStatus
  <2>1. Subscribe(c) => client'[c].at = "subscribed"
    BY DEF StatusTypeOK, Subscribe
  <2>2. getBoolHandler(c) => client'[c].seen = EWanLinkStatus
    BY DEF StatusTypeOK, getBoolHandler
  <2>3. Unsubscribe(c) => client'[c].at = "off"
    BY DEF StatusTypeOK, Unsubscribe, Stranger
  <2> QED
    BY <2>1, <2>2, <2>3 DEF ClientStep
<1>4. OldKnowledgeEnds'
  BY <1>2, <1>3 DEF OldKnowledgeEnds, ClientStep, Busy
<1>5. IsFiniteSet(Subscribed) /\ Cardinality(Subscribed) \in Nat
  BY SubscribedFinite, FS_CardinalityType
<1>6. StatusTypeOK' /\ Counted'
  <2>1. CASE Subscribe(c)
    <3>1. c \notin Subscribed /\ Subscribed' = Subscribed \cup {c}
      BY <2>1 DEF Subscribe, Subscribed, StatusTypeOK
    <3>2. Cardinality(Subscribed') = Cardinality(Subscribed) + 1
      BY <3>1, <1>5, FS_AddElement
    <3>3. gSubscribersCount' = gSubscribersCount + 1
      BY <2>1 DEF Subscribe, eventSubHandler
    <3>4. StatusTypeOK'
      BY <2>1, <3>3 DEF ClientStep, Subscribe, StatusTypeOK
    <3> QED
      BY <3>2, <3>3, <3>4 DEF Counted
  <2>2. CASE getBoolHandler(c)
    <3>1. Subscribed' = Subscribed
      BY <2>2 DEF getBoolHandler, Subscribed, StatusTypeOK
    <3>2. StatusTypeOK'
      BY <2>2 DEF ClientStep, getBoolHandler, StatusTypeOK
    <3> QED
      BY <2>2, <3>1, <3>2 DEF Counted, getBoolHandler
  <2>3. CASE Unsubscribe(c)
    <3>1. c \in Subscribed /\ Subscribed' = Subscribed \ {c}
      BY <2>3 DEF Unsubscribe, Subscribed, StatusTypeOK, Stranger
    <3>2. Cardinality(Subscribed') = Cardinality(Subscribed) - 1
      BY <3>1, <1>5, FS_RemoveElement
    <3>3. gSubscribersCount # 0
      BY <3>1, CountZero
    <3>4. gSubscribersCount' = gSubscribersCount - 1 /\ gSubscribersCount' \in Nat
      BY <2>3, <3>3 DEF Unsubscribe, eventSubHandler, StatusTypeOK
    <3>5. StatusTypeOK'
      BY <2>3, <3>4 DEF ClientStep, Unsubscribe, StatusTypeOK, Stranger
    <3> QED
      BY <3>2, <3>4, <3>5 DEF Counted
  <2> QED
    BY <2>1, <2>2, <2>3 DEF ClientStep
<1> QED
  BY <1>1, <1>4, <1>6

\* A restart leaves nobody subscribed and nobody inside.
LEMMA RestartKeeps ==
    ASSUME Inv, StatusRestarts, UNCHANGED link
    PROVE Inv'
<1>1. StatusTypeOK'
  <2>1. caller' \in [Threads -> [at : {"idle", "due", "count", "notify"}, told : BOOLEAN]]
    BY DEF StatusRestarts, Nobody, Idle, Threads
  <2>2. client' \in [Clients -> [at : {"off", "subscribed", "current"}, seen : BOOLEAN]]
    BY DEF StatusRestarts, Stranger
  <2> QED
    BY <2>1, <2>2 DEF Inv, StatusRestarts, StatusTypeOK, Threads
<1>2. Subscribed' = {} /\ gSubscribersCount' = 0
  BY DEF StatusRestarts, Subscribed, Stranger
<1>3. Counted'
  BY <1>2, FS_EmptySet DEF Counted
<1>4. OldKnowledgeEnds'
  BY DEF StatusRestarts, OldKnowledgeEnds, Stranger
<1>5. \A u \in Threads : caller'[u] = Idle \/ caller'[u].at = "due"
  BY DEF StatusRestarts, Nobody, Idle, Threads
<1>6. OneInside' /\ EventIsCurrent' /\ IdleIsIdle'
  BY <1>5 DEF OneInside, EventIsCurrent, IdleIsIdle, Idle, Busy
<1> QED
  BY <1>1, <1>3, <1>4, <1>6 DEF Inv

\* The steps of the monitor, the cable and the WAN manager leave the status alone.
LEMMA StatusAlone ==
    ASSUME Inv, UNCHANGED status, link' \in BOOLEAN
    PROVE Inv'
BY DEF Inv, status, StatusTypeOK, OneInside, EventIsCurrent, OldKnowledgeEnds, Counted,
       Subscribed, IdleIsIdle, Busy

\* The start-up tells Up like any callback, or it has nothing to tell.
LEMMA BootKeeps ==
    ASSUME Inv, BootRemovesFile
    PROVE  Inv'
<1>1. CASE simulating' = FALSE /\ CallBack("boot", TRUE)
  BY <1>1, CallBackKeeps DEF BootRemovesFile, Inv, StatusTypeOK, Threads
<1>2. CASE /\ caller' = [caller EXCEPT !["boot"] = Idle]
           /\ UNCHANGED <<simulating, EWanLinkStatus, gSubscribersCount, client, fromHal, excused>>
  <2>1. UNCHANGED <<link, halSaw>> /\ caller["boot"].at = "due"
    BY DEF BootRemovesFile
  <2>2. StatusTypeOK'
    BY <1>2, <2>1 DEF Inv, StatusTypeOK, Idle
  <2>3. caller'["boot"] = Idle /\ \A u \in Threads \ {"boot"} : caller'[u] = caller[u]
    BY <1>2 DEF Inv, StatusTypeOK, Threads
  <2>4. \A u \in Threads : Busy(u)' <=> Busy(u)
    <3>1. ~Busy("boot") /\ ~Busy("boot")'
      BY <2>1, <2>3 DEF Busy, Idle
    <3> QED
      BY <2>3, <3>1 DEF Busy
  <2>5. OneInside' /\ OldKnowledgeEnds'
    BY <1>2, <2>4 DEF Inv, OneInside, OldKnowledgeEnds
  <2>6. EventIsCurrent'
    <3>1. \A u \in Threads : caller'[u].at = "notify" => caller'[u] = caller[u]
      BY <2>3 DEF Idle
    <3> QED
      BY <1>2, <3>1 DEF Inv, EventIsCurrent
  <2>7. Counted' /\ IdleIsIdle'
    BY <1>2, <2>3 DEF Inv, Counted, Subscribed, IdleIsIdle
  <2> QED
    BY <2>2, <2>5, <2>6, <2>7 DEF Inv
<1> QED
  BY <1>1, <1>2 DEF BootRemovesFile

\* Every step keeps the invariant.
LEMMA NextInv == Inv /\ [Next]_vars => Inv'
<1> SUFFICES ASSUME Inv, [Next]_vars PROVE Inv'
  OBVIOUS
<1>0. link \in BOOLEAN
  BY DEF Inv, StatusTypeOK
<1>1. CASE HalCallsBack
  <2>1. CallBack("hal", link) /\ "hal" \in Threads
    BY <1>1 DEF HalCallsBack, Threads
  <2>2. halSaw' \in BOOLEAN /\ simulating' \in BOOLEAN /\ UNCHANGED link
    BY <1>1 DEF HalCallsBack, Inv, StatusTypeOK
  <2> QED
    BY <1>0, <2>1, <2>2, CallBackKeeps
<1>2. ASSUME NEW v \in BOOLEAN, Simulate(v) PROVE Inv'
  <2>1. CallBack("sim", v) /\ "sim" \in Threads
    BY <1>2 DEF Simulate, Threads
  <2>2. halSaw' \in BOOLEAN /\ simulating' \in BOOLEAN /\ UNCHANGED link
    BY <1>2 DEF Simulate, Inv, StatusTypeOK
  <2> QED
    BY <2>1, <2>2, CallBackKeeps
<1>3. ASSUME NEW t \in Threads, publishEWanLinkStatus(t) PROVE Inv'
  BY <1>3, CountKeeps, EventKeeps DEF publishEWanLinkStatus
<1>4. ASSUME NEW c \in Clients, ClientStep(c) PROVE Inv'
  BY <1>4, ClientKeeps
<1>5. CASE PhyStep
  <2>1. UNCHANGED status
    BY <1>5 DEF PhyStep
  <2>2. link' \in BOOLEAN
    BY <1>0, <1>5 DEF PhyStep, Phy!RequestPhyStatus, Phy!ThreadMonitorPhyAndNotify, Phy!StartMonitor,
       Phy!Look, Phy!Sleep, Phy!Report, Phy!EndMonitor, Phy!LinkChanges, Phy!EthOffChanges
  <2> QED
    BY <2>1, <2>2, StatusAlone
<1>6. CASE AgentRestarts
  BY <1>6, RestartKeeps DEF AgentRestarts
<1>7. CASE UNCHANGED vars
  BY <1>0, <1>7, StatusAlone DEF vars
<1>8. CASE BootRemovesFile
  BY <1>8, BootKeeps
<1> QED
  BY <1>1, <1>2, <1>3, <1>4, <1>5, <1>6, <1>7, <1>8 DEF Next, StatusStep, StatusNext

\* The invariant says what a client knows at rest.
LEMMA InvKnows == Inv => SubscribersKnowStatus
BY DEF Inv, OldKnowledgeEnds, SubscribersKnowStatus, AtRest

\* A client that subscribed and then read the status knows it whenever no callback
\* of EthWanLinkUp_callback and EthWanLinkDown_callback is under way, for any number
\* of clients; unless callbacks crossed or an event could not be published.
THEOREM StatusKnown == Spec => []SubscribersKnowStatus
BY InitInv, NextInv, InvKnows, PTL DEF Spec

-----------------------------------------------------------------------------
(* The monitor of the WAN manager's requests.  What a request relies on: the *)
(* flag is set while a monitor runs, and is otherwise only left set by a     *)
(* thread that was not created, which excuses every later request.           *)

Numbers == Instances \cup {Phy!None}
MonitorPlaces == {"none", "start", "look", "sleep", "report", "clear"}

\* The flag stands for a monitor, or for one that could not be created.
FlagIsTrue ==
    /\ monitor.at # "none" => MonitorPhyStatusAndNotify
    /\ monitor.at = "none" /\ MonitorPhyStatusAndNotify => unanswered = "failed"

MonitorInv ==
    /\ MonitorPhyStatusAndNotify \in BOOLEAN
    /\ monitor \in [at : MonitorPlaces, for : Numbers, counter : Nat, phyStatus : BOOLEAN]
    /\ wanInstanceNumber \in Numbers /\ asked \in Numbers
    /\ FlagIsTrue /\ Phy!RequestUnderWay

\* A request is taken over by the monitor that runs and has not read the number
\* yet, or by a new one.
LEMMA RequestKeeps ==
    ASSUME MonitorInv, NEW i \in Instances, Phy!RequestPhyStatus(i)
    PROVE  MonitorInv'
<1> USE DEF MonitorInv, MonitorPlaces, Phy!RequestPhyStatus
<1>1. i \in Numbers
  BY DEF Numbers
<1>2. CASE MonitorPhyStatusAndNotify
  <2>1. UNCHANGED monitor /\ MonitorPhyStatusAndNotify' /\ asked' = i /\ wanInstanceNumber' = i
    BY <1>2
  <2>2. FlagIsTrue'
    BY <1>2, <2>1 DEF FlagIsTrue
  <2>3. Phy!RequestUnderWay'
    <3>1. CASE unanswered = "failed"
      BY <1>2, <3>1 DEF Phy!RequestUnderWay
    <3>2. CASE unanswered # "failed" /\ Phy!TooLate(i)
      BY <1>2, <3>2 DEF Phy!RequestUnderWay
    <3>3. CASE unanswered # "failed" /\ ~Phy!TooLate(i)
      BY <1>2, <2>1, <3>3 DEF Phy!RequestUnderWay, Phy!TooLate, FlagIsTrue, Phy!At
    <3> QED
      BY <3>1, <3>2, <3>3
  <2> QED
    BY <1>1, <2>1, <2>2, <2>3
<1>3. CASE ~MonitorPhyStatusAndNotify
  <2>1. CASE monitor' = [Phy!Idle EXCEPT !.at = "start"] /\ unanswered' = ""
    BY <1>1, <1>3, <2>1 DEF FlagIsTrue, Phy!RequestUnderWay, Phy!Idle, Phy!At, Numbers
  <2>2. CASE UNCHANGED monitor /\ unanswered' = "failed"
    BY <1>1, <1>3, <2>2 DEF FlagIsTrue, Phy!RequestUnderWay
  <2> QED
    BY <1>3, <2>1, <2>2
<1> QED
  BY <1>2, <1>3

\* Another round of the wait is a number.
LEMMA OneMore == \A n \in Nat : n + 1 \in Nat
OBVIOUS

\* The monitor goes its way with the number it has read, and takes the flag back
\* only when it has reported.
LEMMA MonitorKeeps ==
    ASSUME MonitorInv, Phy!ThreadMonitorPhyAndNotify
    PROVE  MonitorInv'
<1> USE DEF MonitorInv, MonitorPlaces, FlagIsTrue, Phy!RequestUnderWay, Phy!At
<1>0. monitor.counter \in Nat
  OBVIOUS
<1>1. CASE Phy!StartMonitor
  BY <1>1 DEF Phy!StartMonitor
<1>2. CASE Phy!Look
  BY <1>2 DEF Phy!Look, Phy!Round
<1>3. CASE Phy!Sleep
  <2>1. /\ monitor.at = "sleep" /\ monitor'.at = "look" /\ monitor'.for = monitor.for
        /\ monitor' \in [at : MonitorPlaces, for : Numbers, counter : Nat, phyStatus : BOOLEAN]
    <3>1. CASE monitor.counter < Rounds
      <4>1. monitor' = [monitor EXCEPT !.at = "look", !.counter = monitor.counter + 1]
        BY <1>3, <3>1 DEF Phy!Sleep
      <4>2. monitor.counter + 1 \in Nat
        BY <1>0, OneMore
      <4>3. monitor.at = "sleep"
        BY <1>3 DEF Phy!Sleep
      <4> QED
        BY <4>1, <4>2, <4>3
    <3>2. CASE ~(monitor.counter < Rounds)
      <4>1. monitor' = [monitor EXCEPT !.at = "look", !.counter = monitor.counter]
        BY <1>3, <3>2 DEF Phy!Sleep
      <4>2. monitor.at = "sleep"
        BY <1>3 DEF Phy!Sleep
      <4> QED
        BY <4>1, <4>2
    <3> QED
      BY <3>1, <3>2
  <2>2. UNCHANGED <<wanInstanceNumber, MonitorPhyStatusAndNotify, asked, unanswered>>
    BY <1>3 DEF Phy!Sleep
  <2> QED
    BY <2>1, <2>2
<1>4. CASE Phy!Report
  <2>1. monitor.at = "report" /\ monitor' = [monitor EXCEPT !.at = "clear"]
    BY <1>4 DEF Phy!Report, Phy!Goes
  <2>2. /\ monitor' \in [at : MonitorPlaces, for : Numbers, counter : Nat, phyStatus : BOOLEAN]
        /\ FlagIsTrue' /\ asked' \in Numbers
    <3>1. monitor' \in [at : MonitorPlaces, for : Numbers, counter : Nat, phyStatus : BOOLEAN]
      BY <2>1
    <3>2. asked' \in Numbers
      BY <1>4 DEF Phy!Report, Numbers
    <3>3. FlagIsTrue'
      BY <1>4, <2>1 DEF Phy!Report
    <3> QED
      BY <3>1, <3>2, <3>3
  <2>3. asked = Phy!None \/ unanswered # "" \/ asked = monitor.for
    BY <2>1
  <2>4. asked' = Phy!None \/ unanswered' # ""
    <3>1. CASE asked' = IF asked = monitor.for THEN Phy!None ELSE asked
      BY <1>4, <2>3, <3>1 DEF Phy!Report
    <3>2. CASE unanswered' = IF asked = monitor.for THEN "failed" ELSE unanswered
      BY <1>4, <2>3, <3>2 DEF Phy!Report
    <3> QED
      BY <1>4, <3>1, <3>2 DEF Phy!Report
  <2>5. UNCHANGED <<wanInstanceNumber, MonitorPhyStatusAndNotify>>
    BY <1>4 DEF Phy!Report
  <2> QED
    BY <2>2, <2>4, <2>5
<1>5. CASE Phy!EndMonitor
  BY <1>5 DEF Phy!EndMonitor, Phy!Idle, Numbers
<1> QED
  BY <1>1, <1>2, <1>3, <1>4, <1>5 DEF Phy!ThreadMonitorPhyAndNotify

LEMMA NextMonitor ==
    MonitorInv /\ [Next]_vars
        => MonitorInv'
<1> SUFFICES ASSUME MonitorInv, [Next]_vars
             PROVE  MonitorInv'
  OBVIOUS
<1>1. ASSUME NEW i \in Instances, Phy!RequestPhyStatus(i)
      PROVE  MonitorInv'
  BY <1>1, RequestKeeps
<1>2. CASE Phy!ThreadMonitorPhyAndNotify
  BY <1>2, MonitorKeeps
<1>3. CASE UNCHANGED phy
  BY <1>3 DEF phy, MonitorInv, FlagIsTrue, Phy!RequestUnderWay, Phy!At
<1>4. CASE Phy!LinkChanges \/ Phy!EthOffChanges
  <2>1. UNCHANGED <<wanInstanceNumber, MonitorPhyStatusAndNotify, monitor, asked, unanswered>>
    BY <1>4 DEF Phy!LinkChanges, Phy!EthOffChanges
  <2> QED
    BY <2>1 DEF MonitorInv, FlagIsTrue, Phy!RequestUnderWay, Phy!At
<1>5. CASE AgentRestarts
  BY <1>5 DEF AgentRestarts, Phy!MonitorRestarts, MonitorInv, MonitorPlaces, FlagIsTrue,
     Phy!RequestUnderWay, Phy!At, Phy!Idle, Numbers
<1> QED
  BY <1>1, <1>2, <1>3, <1>4, <1>5 DEF Next, PhyStep, StatusStep, vars

\* A request of the WAN manager is never lost: there is a monitor that will read
\* its number or has read it, for any interfaces and any length of the wait;
\* unless the request came too late for the monitor that runs, a call failed or
\* the agent restarted (ThreadMonitorPhyAndNotify, RequestPhyStatus).
THEOREM RequestNotLost == Spec => []RequestUnderWay
<1>1. Init => MonitorInv
  <2> SUFFICES ASSUME Init PROVE MonitorInv
    OBVIOUS
  <2>1. monitor = Phy!Idle /\ wanInstanceNumber = Phy!None /\ asked = Phy!None
        /\ MonitorPhyStatusAndNotify = FALSE
    BY DEF Init, Phy!Init
  <2> QED
    BY <2>1 DEF MonitorInv, MonitorPlaces, FlagIsTrue, Phy!RequestUnderWay, Phy!Idle, Numbers
<1>2. MonitorInv => RequestUnderWay
  BY DEF MonitorInv, RequestUnderWay
<1> QED
  BY <1>1, <1>2, NextMonitor, PTL DEF Spec
=============================================================================
