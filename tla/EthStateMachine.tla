-------------------------- MODULE EthStateMachine --------------------------
(***************************************************************************)
(* The Ethernet WAN state machine (cosa_ethernet_manager.c) and the data   *)
(* model handlers that feed it, as built with FEATURE_RDKB_WAN_MANAGER and *)
(* without WAN_MANAGER_UNIFICATION_ENABLED.                                *)
(*                                                                         *)
(* Three threads share the interface table gpstEthGInfo and the pointer    *)
(* pstInfo to the name of the interface the machine serves:                *)
(*   - the data model dispatcher, which runs one handler at a time         *)
(*     (DmlSet..., DmlGet..., and the two steps of Start_StateMachine);    *)
(*   - the state machine thread, which every 500 ms copies the row of its  *)
(*     interface and then talks to the VLAN manager and the WAN manager,   *)
(*     one remote call at a time (Tick and the actions after it);          *)
(*   - the switch HAL's callback thread, which writes link states.         *)
(*                                                                         *)
(* The rows of the table are fixed here (the rows of PortInit); rows that  *)
(* come and go are the subject of EthPortTable.  The table lock is held    *)
(* over each read or write of a row, so an action is what one thread does  *)
(* between two points where another thread can act.                        *)
(***************************************************************************)
EXTENDS Naturals, FiniteSets

CONSTANTS
    Slots,          \* rows of gpstEthGInfo
    Names,          \* interface names
    NoName,         \* what pstInfo names between its malloc and its memcpy
    DirectWan,      \* TRUE: RPi/Turris/QCA build with wan_physical_ifname "erouter0"
    CallsMayFail,   \* TRUE: pthread_create and bus calls may fail
    PatientWriter   \* TRUE: Upstream is given to an interface only after it was
                    \* taken from the others and the machine is back in STATE_EXIT

ASSUME SlotsAssumption == Slots # {} /\ IsFiniteSet(Slots)
ASSUME NamesAssumption == Names # {} /\ NoName \notin Names
ASSUME FlagsAssumption ==
    DirectWan \in BOOLEAN /\ CallsMayFail \in BOOLEAN /\ PatientWriter \in BOOLEAN

VARIABLES
    name,       \* gpstEthGInfo[s].Name (the data model's copy is the same)
    port,       \* the other fields of gpstEthGInfo[s] the machine reads
    dmlWan,     \* WanStatus in the data model's own copy of interface s
    validated,  \* interfaces whose data model copy has WanValidated = TRUE
    acked,      \* interfaces whose last WanStatus writer was an accepted DML write
    starting,   \* the dispatcher inside CosaDmlEthPortSetUpstream
    smName,     \* pstInfo->Name
    smStarted,  \* CcspEthManager_StateMachineThread_start
    smState,    \* geCurrentState
    pc,         \* where the state machine thread is
    cur,        \* the name the running state handler was passed
    vlan,       \* VLAN manager: Enable of VLAN instance 2
    wanNamed,   \* WAN manager: interfaces whose WAN interface name was set
    wanLink,    \* WAN manager: last LinkStatus written for each interface
    missed      \* history: a table copy, a thread start or a bus call failed
                \* where the machine had something to do or to tell

table == <<name, port>>
dmlVars == <<dmlWan, validated, acked>>
smVars == <<smState, pc, cur>>
remote == <<vlan, wanNamed, wanLink>>
vars == <<name, port, dmlWan, validated, acked, starting, smName, smStarted,
          smState, pc, cur, vlan, wanNamed, wanLink, missed>>

States == {"EXIT", "DISCONNECTED", "VALIDATING_LINK", "VLAN_CONFIGURING", "WAN_LINK_UP"}
Status == {"UP", "DOWN"}
Row == [upstream : BOOLEAN, wan : Status, link : Status]

\* The thread's position: select() in the main loop, or the next call of the
\* transition it is running.
Positions == {"select", "found", "setWanUp", "createLink", "upName", "upLink",
              "phyDown", "setWanDown", "deleteLink", "notifyDown"}
UpChain == {"upName", "upLink"}
DownChain == {"phyDown", "setWanDown", "deleteLink", "notifyDown"}

Idle == [at |-> "idle", name |-> NoName]
Starting == [at : {"idle", "alloc", "copy"}, name : Names \cup {NoName}]

-----------------------------------------------------------------------------
(* The interface table. *)

HasRow(n) == \E s \in Slots : name[s] = n
RowOf(n) == CHOOSE s \in Slots : name[s] = n

DefaultRow == [upstream |-> FALSE, wan |-> "DOWN", link |-> "DOWN"]

\* WanValidated of a row: TRUE from PrepareGlobalInfo on, and never written,
\* for the setter the data model calls ignores both of its arguments.
WanValidated(row) == TRUE

Init ==
    /\ name \in {f \in [Slots -> Names] : \A s, t \in Slots : f[s] = f[t] => s = t}
    /\ port = [s \in Slots |-> DefaultRow]
    /\ dmlWan = [s \in Slots |-> "DOWN"]
    /\ validated = {}
    /\ acked = {}
    /\ starting = Idle
    /\ smName = NoName
    /\ smStarted = FALSE
    /\ smState = "EXIT"
    /\ pc = "select"
    /\ cur = NoName
    /\ vlan = FALSE
    /\ wanNamed = {}
    /\ wanLink = [n \in Names |-> "None"]
    /\ missed = FALSE

-----------------------------------------------------------------------------
(* The data model dispatcher.  One handler runs at a time: none starts     *)
(* while the dispatcher is still inside Start_StateMachine.                *)

DispatcherFree == starting.at = "idle"

\* The assumption PatientWriter makes of the WAN manager.
MachineFreeFor(s) ==
    /\ smState = "EXIT" /\ pc = "select"
    /\ \A t \in Slots \ {s} : ~port[t].upstream

\* Upstream: an equal value is dropped; TRUE goes on to start the machine.
\* The DML copy and the table are only written here, so they never differ.
DmlSetUpstream(s, b) ==
    /\ DispatcherFree
    /\ port[s].upstream # b
    /\ (PatientWriter /\ b) => MachineFreeFor(s)
    /\ port' = [port EXCEPT ![s].upstream = b]
    /\ starting' = IF b THEN [at |-> "alloc", name |-> name[s]] ELSE Idle
    /\ UNCHANGED <<name, dmlVars, smName, smStarted, smVars, remote, missed>>

\* Start_StateMachine points the global pstInfo at fresh memory, whether or
\* not the machine is running on the old one ...
StartAlloc ==
    /\ starting.at = "alloc"
    /\ starting' = [starting EXCEPT !.at = "copy"]
    /\ smName' = NoName
    /\ UNCHANGED <<table, dmlVars, smStarted, smVars, remote, missed>>

\* ... copies the name into it, and creates the thread unless it exists.
StartCopy ==
    /\ starting.at = "copy"
    /\ starting' = Idle
    /\ smName' = starting.name
    /\ \/ smStarted' = TRUE /\ UNCHANGED missed
       \/ CallsMayFail /\ ~smStarted /\ smStarted' = FALSE /\ missed' = TRUE
    /\ UNCHANGED <<table, dmlVars, smVars, remote>>

\* WanStatus: compared with the data model's copy, not with the table.
DmlSetWanStatus(s, v) ==
    /\ DispatcherFree
    /\ acked' = acked \cup {s}
    /\ IF v = dmlWan[s]
       THEN UNCHANGED <<dmlWan, port>>
       ELSE /\ dmlWan' = [dmlWan EXCEPT ![s] = v]
            /\ port' = [port EXCEPT ![s].wan = v]
    /\ UNCHANGED <<name, validated, starting, smName, smStarted, smVars, remote, missed>>

\* Reading WanStatus refreshes the data model's copy from the table.
DmlGetWanStatus(s) ==
    /\ DispatcherFree
    /\ dmlWan' = [dmlWan EXCEPT ![s] = port[s].wan]
    /\ UNCHANGED <<table, validated, acked, starting, smName, smStarted, smVars, remote, missed>>

\* WanValidated: only the data model's copy changes.
DmlSetWanValidated(s, b) ==
    /\ DispatcherFree
    /\ (s \in validated) # b
    /\ validated' = IF b THEN validated \cup {s} ELSE validated \ {s}
    /\ UNCHANGED <<table, dmlWan, acked, starting, smName, smStarted, smVars, remote, missed>>

\* Name: refused when another row has it, the table and then the copy renamed.
DmlSetName(s, n) ==
    /\ DispatcherFree
    /\ ~HasRow(n)
    /\ name' = [name EXCEPT ![s] = n]
    /\ UNCHANGED <<port, dmlVars, starting, smName, smStarted, smVars, remote, missed>>

(* The HAL callback thread.  The message it also queues is EthLinkEvents'. *)
LinkStatusCallback(s, v) ==
    /\ port[s].link # v
    /\ port' = [port EXCEPT ![s].link = v]
    /\ UNCHANGED <<name, dmlVars, starting, smName, smStarted, smVars, remote, missed>>

-----------------------------------------------------------------------------
(* The state machine thread: one tick is a select() timeout, the handler   *)
(* of the current state and the copy of the row it decides on.             *)

Goto(position) == pc' = position /\ UNCHANGED smState
Return(state) == pc' = "select" /\ smState' = state

Tick ==
    /\ smStarted /\ pc = "select"
    /\ cur' = smName

State_Exit ==
    /\ Tick /\ smState = "EXIT"
    /\ Return(IF HasRow(smName) /\ port[RowOf(smName)].upstream
              THEN "DISCONNECTED" ELSE "EXIT")
    /\ UNCHANGED <<table, dmlVars, starting, smName, smStarted, remote, missed>>

FromDisconnected(row) ==
    \/ ~row.upstream /\ Goto("notifyDown")
    \/ row.upstream /\ row.link = "UP" /\ row.wan = "DOWN" /\ Return("VALIDATING_LINK")
    \/ row.upstream /\ row.link = "UP" /\ row.wan = "UP" /\ Goto("upName")
    \/ row.upstream /\ row.link = "DOWN" /\ Return("DISCONNECTED")

State_EthDisconnected ==
    /\ Tick /\ smState = "DISCONNECTED"
    /\ IF HasRow(smName) THEN FromDisconnected(port[RowOf(smName)])
       ELSE Return("DISCONNECTED")
    /\ UNCHANGED <<table, dmlVars, starting, smName, smStarted, remote, missed>>

\* The branch that waits for WanValidated cannot be taken, see WanValidated.
FromValidating(row) ==
    \/ (~row.upstream \/ row.link = "DOWN") /\ Goto("notifyDown")
    \/ row.upstream /\ row.link = "UP" /\ WanValidated(row) /\ Goto("found")

State_EthValidatingLink ==
    /\ Tick /\ smState = "VALIDATING_LINK"
    /\ IF HasRow(smName) THEN FromValidating(port[RowOf(smName)])
       ELSE Return("VALIDATING_LINK")
    /\ UNCHANGED <<table, dmlVars, starting, smName, smStarted, remote, missed>>

\* Mutant: the acknowledgement of the WAN is looked at before the link.
Bug_WanBeforeLink(row) ==
    \/ row.wan = "UP" /\ Goto("upName")
    \/ row.wan = "DOWN" /\ (~row.upstream \/ row.link = "DOWN") /\ Goto("phyDown")
    \/ row.wan = "DOWN" /\ row.upstream /\ row.link = "UP" /\ Return("VLAN_CONFIGURING")

FromConfiguring(row) ==
    \/ (~row.upstream \/ row.link = "DOWN") /\ Goto("phyDown")
    \/ row.upstream /\ row.link = "UP" /\ row.wan = "UP" /\ Goto("upName")
    \/ row.upstream /\ row.link = "UP" /\ row.wan = "DOWN" /\ Return("VLAN_CONFIGURING")

\* A row that is not found sends the machine back to validation: nothing is
\* torn down and nothing told, which missed records.
State_EthVLANConfiguring ==
    /\ Tick /\ smState = "VLAN_CONFIGURING"
    /\ IF HasRow(smName) THEN FromConfiguring(port[RowOf(smName)]) /\ UNCHANGED missed
       ELSE Return("VALIDATING_LINK") /\ missed' = TRUE
    /\ UNCHANGED <<table, dmlVars, starting, smName, smStarted, remote>>

FromUp(row) ==
    IF row.upstream /\ row.link = "UP" /\ row.wan = "UP"
    THEN Return("WAN_LINK_UP") ELSE Goto("phyDown")

State_EthWanLinkUp ==
    /\ Tick /\ smState = "WAN_LINK_UP"
    /\ IF HasRow(smName) THEN FromUp(port[RowOf(smName)]) /\ UNCHANGED missed
       ELSE Return("VALIDATING_LINK") /\ missed' = TRUE
    /\ UNCHANGED <<table, dmlVars, starting, smName, smStarted, remote>>

-----------------------------------------------------------------------------
(* The transitions, one table access or remote call at a time. *)

\* A remote write is lost when the row behind the name is gone (no WAN
\* instance is found for it) or when the call fails; no caller retries it.
Delivered(effect, unchanged) ==
    \/ effect /\ UNCHANGED missed
    \/ CallsMayFail /\ unchanged /\ missed' = TRUE

\* The machine's own write of WanStatus; the DML copy is not told.
SmSetWanStatus(v) ==
    IF HasRow(cur)
    THEN /\ port' = [port EXCEPT ![RowOf(cur)].wan = v]
         /\ acked' = acked \ {RowOf(cur)}
    ELSE UNCHANGED <<port, acked>>

\* Transition_EthWanLinkFound: its own copy of the row, then the branch; a
\* direct build that cannot read wan_physical_ifname takes the other one.
WanLinkFound ==
    /\ pc = "found"
    /\ \/ ~HasRow(cur) /\ Return("VALIDATING_LINK")
       \/ HasRow(cur) /\ DirectWan /\ Goto("setWanUp")
       \/ HasRow(cur) /\ (~DirectWan \/ CallsMayFail) /\ Goto("createLink")
    /\ UNCHANGED <<table, dmlVars, starting, smName, smStarted, cur, remote, missed>>

SetWanUp ==
    /\ pc = "setWanUp"
    /\ SmSetWanStatus("UP")
    /\ Goto("upName")
    /\ UNCHANGED <<name, dmlWan, validated, starting, smName, smStarted, cur, remote, missed>>

\* VLAN instance 2 is enabled whatever the interface.
CreateEthLink ==
    /\ pc = "createLink"
    /\ Delivered(vlan' = TRUE, UNCHANGED vlan)
    /\ Return("VLAN_CONFIGURING")
    /\ UNCHANGED <<table, dmlVars, starting, smName, smStarted, cur, wanNamed, wanLink>>

\* Transition_EthWanLinkUp: the WAN interface name, then LinkStatus "Up".
SetWanInterfaceName ==
    /\ pc = "upName"
    /\ IF HasRow(cur) THEN Delivered(wanNamed' = wanNamed \cup {cur}, UNCHANGED wanNamed)
       ELSE missed' = TRUE /\ UNCHANGED wanNamed
    /\ Goto("upLink")
    /\ UNCHANGED <<table, dmlVars, starting, smName, smStarted, cur, vlan, wanLink>>

SetWanLinkStatus(v) ==
    IF HasRow(cur)
    THEN Delivered(wanLink' = [wanLink EXCEPT ![cur] = v], UNCHANGED wanLink)
    ELSE missed' = TRUE /\ UNCHANGED wanLink

WanLinkUp ==
    /\ pc = "upLink"
    /\ SetWanLinkStatus("Up")
    /\ Return("WAN_LINK_UP")
    /\ UNCHANGED <<table, dmlVars, starting, smName, smStarted, cur, vlan, wanNamed>>

\* Mutant: the Ethernet link is not deleted.
Bug_KeepEthLink ==
    /\ pc = "phyDown"
    /\ IF ~HasRow(cur) THEN Return("VALIDATING_LINK") /\ missed' = TRUE
       ELSE Goto("notifyDown") /\ UNCHANGED missed
    /\ UNCHANGED <<table, dmlVars, starting, smName, smStarted, cur, remote>>

\* Transition_EthPhyInterfaceDown: its own copy, WanStatus, the VLAN, then
\* LinkStatus "Down"; TransitionExit is the last of these alone.
PhyInterfaceDown ==
    /\ pc = "phyDown"
    /\ IF ~HasRow(cur) THEN Return("VALIDATING_LINK") /\ missed' = TRUE
       ELSE Goto("setWanDown") /\ UNCHANGED missed
    /\ UNCHANGED <<table, dmlVars, starting, smName, smStarted, cur, remote>>

SetWanDown ==
    /\ pc = "setWanDown"
    /\ SmSetWanStatus("DOWN")
    /\ Goto("deleteLink")
    /\ UNCHANGED <<name, dmlWan, validated, starting, smName, smStarted, cur, remote, missed>>

\* Mutant: the machine goes back to STATE_EXIT without telling "Down".
Bug_DownNotTold ==
    /\ pc = "deleteLink"
    /\ Delivered(vlan' = FALSE, UNCHANGED vlan)
    /\ Return("EXIT")
    /\ UNCHANGED <<table, dmlVars, starting, smName, smStarted, cur, wanNamed, wanLink>>

DeleteEthLink ==
    /\ pc = "deleteLink"
    /\ Delivered(vlan' = FALSE, UNCHANGED vlan)
    /\ Goto("notifyDown")
    /\ UNCHANGED <<table, dmlVars, starting, smName, smStarted, cur, wanNamed, wanLink>>

NotifyDown ==
    /\ pc = "notifyDown"
    /\ SetWanLinkStatus("Down")
    /\ Return("EXIT")
    /\ UNCHANGED <<table, dmlVars, starting, smName, smStarted, cur, vlan, wanNamed>>

-----------------------------------------------------------------------------
Dispatcher ==
    \/ \E s \in Slots, b \in BOOLEAN : DmlSetUpstream(s, b) \/ DmlSetWanValidated(s, b)
    \/ \E s \in Slots, v \in Status : DmlSetWanStatus(s, v)
    \/ \E s \in Slots : DmlGetWanStatus(s)
    \/ \E s \in Slots, n \in Names : DmlSetName(s, n)

Starter == StartAlloc \/ StartCopy

Hal == \E s \in Slots, v \in Status : LinkStatusCallback(s, v)

Handler ==
    \/ State_Exit \/ State_EthDisconnected \/ State_EthValidatingLink
    \/ State_EthVLANConfiguring \/ State_EthWanLinkUp

Transition ==
    \/ WanLinkFound \/ SetWanUp \/ CreateEthLink
    \/ SetWanInterfaceName \/ WanLinkUp
    \/ PhyInterfaceDown \/ SetWanDown \/ DeleteEthLink \/ NotifyDown

Machine == Handler \/ Transition

Next == Dispatcher \/ Starter \/ Hal \/ Machine

Spec == Init /\ [][Next]_vars

\* The dispatcher finishes the handler it is in and the machine's select()
\* times out for ever; nobody has to write a parameter or change a link.
Fairness == WF_vars(Starter) /\ WF_vars(Machine)

FairSpec == Spec /\ Fairness
-----------------------------------------------------------------------------
(* Properties. *)

TypeOK ==
    /\ name \in [Slots -> Names]
    /\ port \in [Slots -> Row]
    /\ dmlWan \in [Slots -> Status]
    /\ validated \subseteq Slots /\ acked \subseteq Slots
    /\ starting \in Starting
    /\ smName \in Names \cup {NoName} /\ cur \in Names \cup {NoName}
    /\ smStarted \in BOOLEAN /\ missed \in BOOLEAN /\ vlan \in BOOLEAN
    /\ smState \in States /\ pc \in Positions
    /\ wanNamed \subseteq Names
    /\ wanLink \in [Names -> {"None", "Up", "Down"}]

\* Unless a step was missed, VLAN instance 2 is enabled while the machine waits
\* for the WAN in STATE_ETH_VLAN_CONFIGURING, and is never left enabled once
\* the machine has told the WAN manager "Down" and gone back to STATE_EXIT.
VlanFollowsState ==
    ~missed =>
        /\ (smState = "VLAN_CONFIGURING" /\ pc # "notifyDown") => vlan
        /\ vlan => /\ smState \in {"VLAN_CONFIGURING", "WAN_LINK_UP"}
                   /\ pc # "notifyDown"

\* With a patient writer, and unless a step was missed, an interface that the
\* WAN manager was told is "Up" had its WAN interface name set before, and is
\* the one the machine still watches, or is taking down at this moment: no
\* interface keeps a stale "Up" that nobody will ever correct.
UpIsServed ==
    (PatientWriter /\ ~missed) =>
        \A n \in Names : wanLink[n] = "Up" =>
            /\ n \in wanNamed
            /\ smState = "WAN_LINK_UP"
            /\ \/ pc = "select" /\ (smName = n \/ (starting.at = "copy" /\ starting.name = n))
               \/ pc \in DownChain /\ cur = n

\* The WAN is ready on an interface: what State_EthWanLinkUp requires to stay.
Ready(s) == port[s].upstream /\ port[s].link = "UP" /\ port[s].wan = "UP"

\* The machine seen as the reporter of one interface, n: whether n is ready,
\* and what the machine has decided about n and not told the WAN manager yet.
ReadyFor(n) == HasRow(n) /\ Ready(RowOf(n))
PendingFor(n) ==
    IF cur = n /\ pc \in UpChain THEN "Up"
    ELSE IF cur = n /\ pc \in DownChain THEN "Down" ELSE "None"

\* A WanStatus write that the data model accepted is what the table holds,
\* until the machine itself writes the table.
WriteTakesEffect == \A s \in acked : port[s].wan = dmlWan[s]
=============================================================================
