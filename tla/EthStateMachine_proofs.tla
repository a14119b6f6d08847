----------------------- MODULE EthStateMachine_proofs -----------------------
(***************************************************************************)
(* Proofs about the Ethernet WAN state machine, for any number of rows and *)
(* names, for both kinds of build and whether or not remote calls fail.    *)
(***************************************************************************)
EXTENDS EthStateMachine, TLAPS

\* A name that has a row is the name of a row of the table.
LEMMA RowOfName ==
    ASSUME NEW n, HasRow(n)
    PROVE  RowOf(n) \in Slots /\ name[RowOf(n)] = n
  BY DEF HasRow, RowOf

\* NoName has no row.
LEMMA NoRowForNoName ==
    ASSUME TypeOK
    PROVE  ~HasRow(NoName)
  BY NamesAssumption DEF TypeOK, HasRow

\* Every variable keeps its type: in particular the machine writes only known
\* words to the WAN manager and to the table.
THEOREM TypeCorrect == Spec => []TypeOK
<1>1. Init => TypeOK
  <2> SUFFICES ASSUME Init PROVE TypeOK
    OBVIOUS
  <2>1. name \in [Slots -> Names]
    BY Zenon DEF Init
  <2>2. port \in [Slots -> Row] /\ dmlWan \in [Slots -> Status]
    BY DEF Init, DefaultRow, Row, Status
  <2>3. starting \in Starting
    BY DEF Init, Starting, Idle
  <2>4. wanLink \in [Names -> {"None", "Up", "Down"}]
    BY DEF Init
  <2> QED
    BY <2>1, <2>2, <2>3, <2>4 DEF Init, TypeOK, States, Positions
<1>2. TypeOK /\ [Next]_vars => TypeOK'
  <2> SUFFICES ASSUME TypeOK, [Next]_vars PROVE TypeOK'
    OBVIOUS
  <2> USE DEF TypeOK
  <2>1. ASSUME NEW s \in Slots, NEW b \in BOOLEAN, DmlSetUpstream(s, b) PROVE TypeOK'
    BY <2>1 DEF DmlSetUpstream, dmlVars, smVars, remote, Row, Starting, Idle
  <2>2. ASSUME NEW s \in Slots, NEW b \in BOOLEAN, DmlSetWanValidated(s, b) PROVE TypeOK'
    BY <2>2 DEF DmlSetWanValidated, table, smVars, remote
  <2>3. ASSUME NEW s \in Slots, NEW v \in Status, DmlSetWanStatus(s, v) PROVE TypeOK'
    BY <2>3 DEF DmlSetWanStatus, smVars, remote, Row
  <2>4. ASSUME NEW s \in Slots, DmlGetWanStatus(s) PROVE TypeOK'
    <3>1. port[s].wan \in Status
      BY DEF Row
    <3> QED BY <2>4, <3>1 DEF DmlGetWanStatus, table, smVars, remote
  <2>5. ASSUME NEW s \in Slots, NEW n \in Names, DmlSetName(s, n) PROVE TypeOK'
    BY <2>5 DEF DmlSetName, dmlVars, smVars, remote
  <2>6. ASSUME Starter PROVE TypeOK'
    <3>1. CASE StartAlloc
      <4>1. [starting EXCEPT !.at = "copy"] \in Starting
        BY DEF Starting
      <4> QED BY <3>1, <4>1 DEF StartAlloc, table, dmlVars, smVars, remote
    <3>2. CASE StartCopy
      <4>1. Idle \in Starting /\ starting.name \in Names \cup {NoName}
        BY DEF Starting, Idle
      <4> QED BY <3>2, <4>1 DEF StartCopy, table, dmlVars, smVars, remote
    <3> QED BY <2>6, <3>1, <3>2 DEF Starter
  <2>7. ASSUME Hal PROVE TypeOK'
    BY <2>7 DEF Hal, LinkStatusCallback, dmlVars, smVars, remote, Row
  <2>8. ASSUME Handler PROVE TypeOK'
    <3>1. /\ UNCHANGED <<table, dmlVars, starting, smName, smStarted, remote>>
          /\ cur' = smName /\ missed' \in BOOLEAN
          /\ smState' \in States /\ pc' \in Positions
      BY <2>8 DEF Handler, Tick, State_Exit, State_EthDisconnected, State_EthValidatingLink,
           State_EthVLANConfiguring, State_EthWanLinkUp, FromDisconnected, FromValidating,
           FromConfiguring, FromUp, Goto, Return, States, Positions
    <3> QED BY <3>1 DEF table, dmlVars, remote
  <2>9. ASSUME Transition PROVE TypeOK'
    <3>1. /\ UNCHANGED <<name, dmlWan, validated, starting, smName, smStarted, cur>>
          /\ smState' \in States /\ pc' \in Positions /\ missed' \in BOOLEAN
      BY <2>9 DEF Transition, WanLinkFound, SetWanUp, CreateEthLink, SetWanInterfaceName,
           WanLinkUp, PhyInterfaceDown, SetWanDown, DeleteEthLink, NotifyDown, Goto, Return,
           States, Positions, Delivered, SetWanLinkStatus, SmSetWanStatus, table, dmlVars
    <3>2. port' \in [Slots -> Row] /\ acked' \subseteq Slots
      BY <2>9, RowOfName
      DEF Transition, WanLinkFound, SetWanUp, CreateEthLink, SetWanInterfaceName,
          WanLinkUp, PhyInterfaceDown, SetWanDown, DeleteEthLink, NotifyDown,
          SmSetWanStatus, table, dmlVars, Row, Status
    <3>3. vlan' \in BOOLEAN /\ wanNamed' \subseteq Names
          /\ wanLink' \in [Names -> {"None", "Up", "Down"}]
      BY <2>9, NoRowForNoName
      DEF Transition, WanLinkFound, SetWanUp, CreateEthLink, SetWanInterfaceName,
          WanLinkUp, PhyInterfaceDown, SetWanDown, DeleteEthLink, NotifyDown,
          Delivered, SetWanLinkStatus, remote
    <3> QED BY <3>1, <3>2, <3>3
  <2>10. CASE UNCHANGED vars
    BY <2>10 DEF vars
  <2> QED
    BY <2>1, <2>2, <2>3, <2>4, <2>5, <2>6, <2>7, <2>8, <2>9, <2>10
    DEF Next, Dispatcher, Machine
<1> QED BY <1>1, <1>2, PTL DEF Spec

-----------------------------------------------------------------------------
\* From which states the thread gets to which call.
Chains ==
    /\ pc \in {"found", "setWanUp", "createLink"} => smState = "VALIDATING_LINK"
    /\ pc \in UpChain => smState \in {"DISCONNECTED", "VALIDATING_LINK", "VLAN_CONFIGURING"}
    /\ pc \in {"phyDown", "setWanDown", "deleteLink"}
         => smState \in {"VLAN_CONFIGURING", "WAN_LINK_UP"}

\* Steps of the dispatcher and of the HAL leave the thread where it is.
LEMMA OthersKeepMachine ==
    ASSUME Dispatcher \/ Starter \/ Hal
    PROVE  UNCHANGED <<smState, pc, cur, vlan, wanNamed, wanLink>> /\ (~missed' => ~missed)
  BY DEF Dispatcher, Starter, Hal, DmlSetUpstream, DmlSetWanValidated, DmlSetWanStatus,
         DmlGetWanStatus, DmlSetName, StartAlloc, StartCopy, LinkStatusCallback, smVars, remote

\* The calls of a transition are made only from the states that lead to them.
THEOREM ChainsHold == Spec => []Chains
<1>1. Init => Chains
  BY DEF Init, Chains, UpChain
<1>2. Chains /\ [Next]_vars => Chains'
  <2> SUFFICES ASSUME Chains, [Next]_vars PROVE Chains'
    OBVIOUS
  <2> USE DEF Chains, UpChain, Goto, Return
  <2>1. CASE Dispatcher \/ Starter \/ Hal
    BY <2>1, OthersKeepMachine
  <2>2. CASE Handler
    BY <2>2 DEF Handler, Tick, State_Exit, State_EthDisconnected, State_EthValidatingLink,
         State_EthVLANConfiguring, State_EthWanLinkUp, FromDisconnected, FromValidating,
         FromConfiguring, FromUp
  <2>3. CASE Transition
    BY <2>3 DEF Transition, WanLinkFound, SetWanUp, CreateEthLink, SetWanInterfaceName,
         WanLinkUp, PhyInterfaceDown, SetWanDown, DeleteEthLink, NotifyDown
  <2>4. CASE UNCHANGED vars
    BY <2>4 DEF vars
  <2> QED BY <2>1, <2>2, <2>3, <2>4 DEF Next, Machine
<1> QED BY <1>1, <1>2, PTL DEF Spec

\* VlanFollowsState with what makes it inductive: the VLAN is disabled by the
\* time "Down" is told.
VlanInv ==
    VlanFollowsState /\ (~missed => (pc = "notifyDown" => ~vlan))

\* The VLAN is enabled while the machine configures it and off once it is back
\* in STATE_EXIT, whatever rows, links and parameters do, unless a step failed.
THEOREM VlanSafe == Spec => []VlanFollowsState
<1>1. Init => VlanInv
  BY DEF Init, VlanInv, VlanFollowsState
<1>2. TypeOK /\ Chains /\ VlanInv /\ [Next]_vars => VlanInv'
  <2> SUFFICES ASSUME TypeOK, Chains, VlanInv, [Next]_vars PROVE VlanInv'
    OBVIOUS
  <2> USE DEF VlanInv, VlanFollowsState, Chains, UpChain, Goto, Return
  <2>1. CASE Dispatcher \/ Starter \/ Hal
    BY <2>1, OthersKeepMachine DEF TypeOK
  <2>2. CASE Handler
    <3>1. UNCHANGED vlan
      BY <2>2 DEF Handler, State_Exit, State_EthDisconnected, State_EthValidatingLink,
           State_EthVLANConfiguring, State_EthWanLinkUp, remote
    <3> QED
      BY <2>2, <3>1
      DEF Handler, Tick, State_Exit, State_EthDisconnected, State_EthValidatingLink,
          State_EthVLANConfiguring, State_EthWanLinkUp, FromDisconnected, FromValidating,
          FromConfiguring, FromUp, TypeOK
  <2>3. CASE Transition
    BY <2>3 DEF Transition, WanLinkFound, SetWanUp, CreateEthLink, SetWanInterfaceName,
         WanLinkUp, PhyInterfaceDown, SetWanDown, DeleteEthLink, NotifyDown, Delivered,
         SetWanLinkStatus, remote, TypeOK
  <2>4. CASE UNCHANGED vars
    BY <2>4 DEF vars
  <2> QED BY <2>1, <2>2, <2>3, <2>4 DEF Next, Machine
<1>3. VlanInv => VlanFollowsState
  BY DEF VlanInv
<1> QED BY <1>1, <1>2, <1>3, TypeCorrect, ChainsHold, PTL DEF Spec

-----------------------------------------------------------------------------
\* The machine is at rest: in STATE_EXIT, waiting in select().
Resting == smState = "EXIT" /\ pc = "select"

\* While the dispatcher starts the machine for an interface, no other one is
\* upstream; so a machine that left STATE_EXIT meanwhile serves that one.
OnlyStarting ==
    (PatientWriter /\ starting.at # "idle") =>
        /\ \A s \in Slots : port[s].upstream => name[s] = starting.name
        /\ starting.at = "copy" => smName = NoName
        /\ (starting.at = "alloc" /\ ~Resting) => smName = starting.name

\* The interface a transition works on is still the machine's, or is being
\* given to it again.
ServesCur ==
    pc # "select" =>
        /\ cur # NoName
        /\ PatientWriter => smName = cur \/ (starting.at = "copy" /\ starting.name = cur)

\* The name is set before "Up" is told.
NamedFirst == (~missed /\ pc = "upLink") => cur \in wanNamed

ServedInv == OnlyStarting /\ ServesCur /\ NamedFirst /\ UpIsServed

\* A row that is upstream while the machine is started is the started one.
LEMMA ExitLeavesForStarting ==
    ASSUME TypeOK, OnlyStarting, PatientWriter, starting.at # "idle",
           HasRow(smName), port[RowOf(smName)].upstream
    PROVE  smName = starting.name /\ starting.at = "alloc"
  BY RowOfName, NoRowForNoName DEF OnlyStarting, TypeOK, Starting

LEMMA ServedInit == Init => ServedInv
  BY NamesAssumption
  DEF Init, ServedInv, OnlyStarting, ServesCur, NamedFirst, UpIsServed, Idle

LEMMA DispatcherKeepsServed ==
    ASSUME TypeOK, ServedInv, Dispatcher
    PROVE  ServedInv'
<1>1. UNCHANGED <<smState, pc, cur, smName, wanNamed, wanLink, missed>>
  BY DEF Dispatcher, DmlSetUpstream, DmlSetWanValidated, DmlSetWanStatus,
         DmlGetWanStatus, DmlSetName, smVars, remote
<1>2. starting.at = "idle" /\ (starting' = starting \/ starting' = Idle
        \/ (starting'.at = "alloc" /\ (PatientWriter => Resting)))
  BY DEF Dispatcher, DmlSetUpstream, DmlSetWanValidated, DmlSetWanStatus,
         DmlGetWanStatus, DmlSetName, DispatcherFree, MachineFreeFor, Resting
<1>3. starting'.at # "copy"
  BY <1>2 DEF Idle
<1>4. OnlyStarting'
  <2> SUFFICES ASSUME PatientWriter, starting'.at # "idle" PROVE OnlyStarting'
    BY DEF OnlyStarting
  <2>1. PICK s \in Slots : DmlSetUpstream(s, TRUE)
    <3>1. starting'.at # starting.at
      BY <1>2
    <3>2. PICK s \in Slots, b \in BOOLEAN : DmlSetUpstream(s, b)
      BY <3>1 DEF Dispatcher, DmlSetWanValidated, DmlSetWanStatus, DmlGetWanStatus, DmlSetName
    <3>3. b
      BY <3>2 DEF DmlSetUpstream, Idle
    <3> QED BY <3>2, <3>3
  <2>2. starting'.name = name[s] /\ name' = name /\ Resting'
    BY <2>1, <1>1 DEF DmlSetUpstream, MachineFreeFor, Resting
  <2>3. \A t \in Slots : port'[t].upstream => t = s
    BY <2>1 DEF DmlSetUpstream, MachineFreeFor, TypeOK, Row
  <2> QED BY <1>3, <2>2, <2>3 DEF OnlyStarting
<1>5. ServesCur'
  BY <1>1, <1>2, <1>3 DEF ServedInv, ServesCur
<1>6. NamedFirst'
  BY <1>1 DEF ServedInv, NamedFirst
<1>7. UpIsServed'
  BY <1>1, <1>2 DEF ServedInv, UpIsServed
<1> QED BY <1>4, <1>5, <1>6, <1>7 DEF ServedInv

LEMMA StarterKeepsServed ==
    ASSUME TypeOK, ServedInv, Starter
    PROVE  ServedInv'
<1>1. UNCHANGED <<name, port, smState, pc, cur, wanNamed, wanLink>> /\ (~missed' => ~missed)
  BY DEF Starter, StartAlloc, StartCopy, table, smVars, remote
<1>2. NamedFirst'
  BY <1>1 DEF ServedInv, NamedFirst
<1>3. CASE StartAlloc
  <2>1. starting.at = "alloc" /\ starting'.at = "copy" /\ starting'.name = starting.name
        /\ smName' = NoName
    BY <1>3 DEF StartAlloc, TypeOK, Starting
  <2>2. OnlyStarting'
    BY <1>1, <2>1 DEF ServedInv, OnlyStarting
  <2>3. ServesCur'
    BY <1>1, <2>1 DEF ServedInv, OnlyStarting, ServesCur, Resting
  <2>4. UpIsServed'
    BY <1>1, <2>1 DEF ServedInv, UpIsServed, OnlyStarting, Resting
  <2> QED BY <1>2, <2>2, <2>3, <2>4 DEF ServedInv
<1>4. CASE StartCopy
  <2>1. starting.at = "copy" /\ starting'.at = "idle" /\ smName' = starting.name
    BY <1>4 DEF StartCopy, Idle
  <2>2. OnlyStarting'
    BY <2>1 DEF OnlyStarting
  <2>3. ServesCur'
    <3> SUFFICES ASSUME pc # "select" PROVE cur # NoName /\ (PatientWriter => smName' = cur)
      BY <1>1 DEF ServesCur
    <3>1. PatientWriter => smName = NoName
      BY <2>1 DEF ServedInv, OnlyStarting
    <3> QED BY <2>1, <3>1 DEF ServedInv, ServesCur
  <2>4. UpIsServed'
    BY <1>1, <2>1, NamesAssumption DEF ServedInv, UpIsServed, OnlyStarting
  <2> QED BY <1>2, <2>2, <2>3, <2>4 DEF ServedInv
<1> QED BY <1>3, <1>4 DEF Starter
LEMMA HalKeepsServed ==
    ASSUME TypeOK, ServedInv, Hal
    PROVE  ServedInv'
<1>1. UNCHANGED <<name, starting, smName, smState, pc, cur, wanNamed, wanLink, missed>>
      /\ \A s \in Slots : port'[s].upstream = port[s].upstream
  BY DEF Hal, LinkStatusCallback, smVars, remote, TypeOK, Row
<1> QED
  BY <1>1 DEF ServedInv, OnlyStarting, ServesCur, NamedFirst, UpIsServed, Resting

LEMMA HandlerKeepsServed ==
    ASSUME TypeOK, Chains, ServedInv, Handler
    PROVE  ServedInv'
<1>1. UNCHANGED <<name, port, starting, smName, wanNamed, wanLink>>
      /\ (~missed' => ~missed) /\ cur' = smName /\ pc = "select"
  BY DEF Handler, Tick, State_Exit, State_EthDisconnected, State_EthValidatingLink,
         State_EthVLANConfiguring, State_EthWanLinkUp, table, remote, TypeOK
<1>2. /\ pc' # "select" => HasRow(smName)
      /\ smState = "EXIT" /\ ~Resting' => HasRow(smName) /\ port[RowOf(smName)].upstream
      /\ pc' # "upLink"
      /\ (smState = "WAN_LINK_UP" /\ ~missed')
           => HasRow(smName) /\ smState' = "WAN_LINK_UP" /\ pc' \in {"select", "phyDown"}
  BY DEF Handler, Tick, State_Exit, State_EthDisconnected, State_EthValidatingLink,
         State_EthVLANConfiguring, State_EthWanLinkUp, FromDisconnected, FromValidating,
         FromConfiguring, FromUp, Goto, Return, Resting
<1>3. OnlyStarting'
  <2> SUFFICES ASSUME PatientWriter, starting.at = "alloc", ~Resting' PROVE smName = starting.name
    BY <1>1 DEF ServedInv, OnlyStarting
  <2>1. CASE smState = "EXIT"
    BY <2>1, <1>2, ExitLeavesForStarting DEF ServedInv
  <2>2. CASE smState # "EXIT"
    BY <2>2 DEF ServedInv, OnlyStarting, Resting
  <2> QED BY <2>1, <2>2
<1>4. ServesCur'
  BY <1>1, <1>2, NoRowForNoName DEF ServesCur
<1>5. NamedFirst'
  BY <1>2 DEF NamedFirst
<1>6. UpIsServed'
  <2> SUFFICES ASSUME PatientWriter, ~missed', NEW n \in Names, wanLink[n] = "Up"
               PROVE  /\ n \in wanNamed /\ smState' = "WAN_LINK_UP"
                      /\ smName = n /\ pc' \in {"select", "phyDown"}
    BY <1>1 DEF UpIsServed, DownChain
  <2>1. n \in wanNamed /\ smState = "WAN_LINK_UP"
        /\ (smName = n \/ (starting.at = "copy" /\ starting.name = n))
    BY <1>1 DEF ServedInv, UpIsServed, DownChain
  <2>2. HasRow(smName) /\ smState' = "WAN_LINK_UP" /\ pc' \in {"select", "phyDown"}
    BY <1>2, <2>1
  <2>3. starting.at # "copy"
    BY <2>2, NoRowForNoName DEF ServedInv, OnlyStarting
  <2> QED BY <2>1, <2>2, <2>3
<1> QED BY <1>3, <1>4, <1>5, <1>6 DEF ServedInv

LEMMA TransitionKeepsServed ==
    ASSUME TypeOK, Chains, ServedInv, Transition
    PROVE  ServedInv'
<1> USE DEF Goto, Return
<1>1. /\ UNCHANGED <<name, starting, smName, cur>> /\ (~missed' => ~missed)
      /\ pc # "select"
      /\ ~Resting
      /\ wanNamed \subseteq wanNamed'
  BY DEF Transition, WanLinkFound, SetWanUp, CreateEthLink, SetWanInterfaceName, WanLinkUp,
         PhyInterfaceDown, SetWanDown, DeleteEthLink, NotifyDown, Delivered, SetWanLinkStatus,
         SmSetWanStatus, table, dmlVars, remote, Resting, TypeOK
<1>2. \A s \in Slots : port'[s].upstream = port[s].upstream
  BY RowOfName
  DEF Transition, WanLinkFound, SetWanUp, CreateEthLink, SetWanInterfaceName, WanLinkUp,
      PhyInterfaceDown, SetWanDown, DeleteEthLink, NotifyDown, SmSetWanStatus, table, TypeOK, Row
<1>3. OnlyStarting'
  BY <1>1, <1>2 DEF ServedInv, OnlyStarting
<1>4. ServesCur'
  BY <1>1 DEF ServedInv, ServesCur
<1>5. NamedFirst'
  BY <1>1 DEF NamedFirst, Transition, WanLinkFound, SetWanUp, CreateEthLink, SetWanInterfaceName,
      WanLinkUp, PhyInterfaceDown, SetWanDown, DeleteEthLink, NotifyDown, Delivered, TypeOK
<1>6. UpIsServed'
  <2> SUFFICES ASSUME PatientWriter, ~missed', NEW n \in Names, wanLink'[n] = "Up"
               PROVE  /\ n \in wanNamed' /\ smState' = "WAN_LINK_UP"
                      /\ \/ /\ pc' = "select"
                            /\ smName = n \/ (starting.at = "copy" /\ starting.name = n)
                         \/ pc' \in DownChain /\ cur = n
    BY <1>1 DEF UpIsServed
  <2>1. wanLink[n] = "Up" =>
          n \in wanNamed /\ smState = "WAN_LINK_UP" /\ pc \in DownChain /\ cur = n
    BY <1>1 DEF ServedInv, UpIsServed
  <2>2. CASE WanLinkUp
    <3>1. ~(wanLink[n] = "Up")
      BY <2>1, <2>2 DEF WanLinkUp, DownChain
    <3>2. n = cur /\ smState' = "WAN_LINK_UP" /\ pc' = "select" /\ pc = "upLink"
      BY <2>2, <3>1 DEF WanLinkUp, SetWanLinkStatus, Delivered, TypeOK
    <3> QED BY <1>1, <3>2 DEF ServedInv, ServesCur, NamedFirst
  <2>3. CASE NotifyDown
    <3>1. HasRow(cur) /\ wanLink' = [wanLink EXCEPT ![cur] = "Down"]
      BY <2>3, <1>1 DEF NotifyDown, SetWanLinkStatus, Delivered, TypeOK
    <3>2. n # cur /\ wanLink[n] = "Up"
      BY <3>1 DEF TypeOK
    <3> QED BY <2>1, <3>2
  <2>4. CASE ~WanLinkUp /\ ~NotifyDown
    <3>1. wanLink' = wanLink
      BY <2>4 DEF Transition, WanLinkFound, SetWanUp, CreateEthLink, SetWanInterfaceName,
           PhyInterfaceDown, SetWanDown, DeleteEthLink, remote
    <3>2. pc \in DownChain /\ smState = "WAN_LINK_UP" /\ cur = n /\ n \in wanNamed
      BY <2>1, <3>1
    <3>3. pc' \in DownChain /\ smState' = "WAN_LINK_UP"
      BY <2>4, <3>2
      DEF DownChain, Transition, WanLinkFound, SetWanUp, CreateEthLink, SetWanInterfaceName,
          PhyInterfaceDown, SetWanDown, DeleteEthLink, TypeOK
    <3> QED BY <1>1, <3>2, <3>3
  <2> QED BY <2>2, <2>3, <2>4
<1> QED BY <1>3, <1>4, <1>5, <1>6 DEF ServedInv

\* For a patient writer no interface is left "Up" in the WAN manager without the
\* machine watching it, unless a step failed: the start of the machine for the
\* next interface cannot take it away from one that is still up.
THEOREM UpServed == Spec => []UpIsServed
<1>1. TypeOK /\ Chains /\ ServedInv /\ [Next]_vars => ServedInv'
  <2>1. ASSUME TypeOK, ServedInv, UNCHANGED vars PROVE ServedInv'
    BY <2>1 DEF vars, ServedInv, OnlyStarting, ServesCur, NamedFirst, UpIsServed, Resting
  <2> QED
    BY <2>1, DispatcherKeepsServed, StarterKeepsServed, HalKeepsServed,
       HandlerKeepsServed, TransitionKeepsServed DEF Next, Machine
<1>2. ServedInv => UpIsServed
  BY DEF ServedInv
<1> QED BY <1>1, <1>2, ServedInit, TypeCorrect, ChainsHold, PTL DEF Spec
-----------------------------------------------------------------------------
\* The machine as the reporter of interface n: WanLinkReport, seen through the
\* row that has the name n and the transition that runs for it.
Told(n) == INSTANCE WanLinkReport WITH
    ready <- ReadyFor(n), pending <- PendingFor(n), view <- wanLink[n], blind <- missed

\* Only the builds that write WanStatus themselves get to that call.
NotDirect == ~DirectWan => pc # "setWanUp"

LEMMA NotDirectHolds == Spec => []NotDirect
<1>1. Init => NotDirect
  BY DEF Init, NotDirect
<1>2. NotDirect /\ [Next]_vars => NotDirect'
  <2> SUFFICES ASSUME NotDirect, [Next]_vars PROVE NotDirect'
    OBVIOUS
  <2> USE DEF NotDirect, Goto, Return
  <2>1. CASE Dispatcher \/ Starter \/ Hal
    BY <2>1, OthersKeepMachine
  <2>2. CASE Handler
    BY <2>2 DEF Handler, Tick, State_Exit, State_EthDisconnected, State_EthValidatingLink,
         State_EthVLANConfiguring, State_EthWanLinkUp, FromDisconnected, FromValidating,
         FromConfiguring, FromUp
  <2>3. CASE Transition
    BY <2>3 DEF Transition, WanLinkFound, SetWanUp, CreateEthLink, SetWanInterfaceName,
         WanLinkUp, PhyInterfaceDown, SetWanDown, DeleteEthLink, NotifyDown
  <2>4. CASE UNCHANGED vars
    BY <2>4 DEF vars
  <2> QED BY <2>1, <2>2, <2>3, <2>4 DEF Next, Machine
<1> QED BY <1>1, <1>2, PTL DEF Spec

LEMMA ReportTypes ==
    ASSUME TypeOK, NEW n \in Names
    PROVE  /\ ReadyFor(n) \in BOOLEAN
           /\ PendingFor(n) \in {"None", "Up", "Down"}
           /\ wanLink[n] \in {"None", "Up", "Down"}
  BY DEF ReadyFor, Ready, PendingFor, TypeOK

\* The dispatcher and the HAL change what is to be seen of n, and no more.
LEMMA OthersTell ==
    ASSUME TypeOK, TypeOK', NEW n \in Names, Dispatcher \/ Starter \/ Hal
    PROVE  Told(n)!Change \/ Told(n)!Blinded
<1>1. UNCHANGED <<pc, cur, wanLink>> /\ (missed' = missed \/ missed' = TRUE)
  BY OthersKeepMachine DEF TypeOK
<1>2. PendingFor(n)' = PendingFor(n) /\ wanLink[n]' = wanLink[n]
  BY <1>1 DEF PendingFor
<1>3. /\ ReadyFor(n)' \in BOOLEAN
      /\ PendingFor(n)' \in {"None", "Up", "Down"}
      /\ wanLink[n]' \in {"None", "Up", "Down"}
  BY DEF ReadyFor, Ready, PendingFor, TypeOK
<1> QED
  BY <1>1, <1>2, <1>3 DEF Told!Change, Told!Blinded, Told!Reports

\* A state handler decides on the row it has read.
LEMMA HandlerTells ==
    ASSUME TypeOK, TypeOK', NEW n \in Names, Handler
    PROVE  \/ Told(n)!DecideUp \/ Told(n)!DecideDown \/ Told(n)!Blinded
           \/ UNCHANGED Told(n)!vars
<1>1. /\ UNCHANGED <<name, port, wanLink>> /\ pc = "select" /\ cur' = smName
      /\ missed' = missed \/ missed' = TRUE
  BY DEF Handler, Tick, State_Exit, State_EthDisconnected, State_EthValidatingLink,
         State_EthVLANConfiguring, State_EthWanLinkUp, table, remote, TypeOK
<1>2. /\ ReadyFor(n)' = ReadyFor(n) /\ wanLink[n]' = wanLink[n]
      /\ PendingFor(n) = "None"
  BY <1>1 DEF ReadyFor, Ready, HasRow, RowOf, PendingFor, UpChain, DownChain
<1>3. missed' = missed =>
        /\ pc' \in UpChain => ReadyFor(smName)
        /\ pc' \in DownChain => ~ReadyFor(smName)
  BY RowOfName
  DEF Handler, Tick, State_Exit, State_EthDisconnected, State_EthValidatingLink,
      State_EthVLANConfiguring, State_EthWanLinkUp, FromDisconnected, FromValidating,
      FromConfiguring, FromUp, Goto, Return, UpChain, DownChain, ReadyFor, Ready, TypeOK, Row,
      Status
<1>4. CASE missed' = missed
  <2>1. PendingFor(n)' = "Up" => ReadyFor(n)
    BY <1>1, <1>3, <1>4 DEF PendingFor
  <2>2. PendingFor(n)' = "Down" => ~ReadyFor(n)
    BY <1>1, <1>3, <1>4 DEF PendingFor
  <2>3. PendingFor(n)' \in {"None", "Up", "Down"}
    BY DEF PendingFor
  <2> QED
    BY <1>2, <1>4, <2>1, <2>2, <2>3 DEF Told!DecideUp, Told!DecideDown, Told!vars
<1>5. CASE missed' = TRUE
  <2>1. /\ ReadyFor(n)' \in BOOLEAN
        /\ PendingFor(n)' \in {"None", "Up", "Down"}
        /\ wanLink[n]' \in {"None", "Up", "Down"}
    BY DEF ReadyFor, Ready, PendingFor, TypeOK
  <2> QED BY <1>5, <2>1 DEF Told!Blinded, Told!Reports
<1> QED BY <1>1, <1>4, <1>5

\* The calls of a transition lead to the report, or miss a step.
LEMMA TransitionTells ==
    ASSUME TypeOK, TypeOK', NotDirect, ~DirectWan, NEW n \in Names, Transition
    PROVE  Told(n)!Change \/ Told(n)!Report \/ Told(n)!Blinded
<1>1. UNCHANGED <<name, cur>> /\ (missed' = missed \/ missed' = TRUE)
  BY DEF Transition, WanLinkFound, SetWanUp, CreateEthLink, SetWanInterfaceName, WanLinkUp,
         PhyInterfaceDown, SetWanDown, DeleteEthLink, NotifyDown, Delivered, SetWanLinkStatus,
         table, TypeOK
<1>2. /\ ReadyFor(n)' \in BOOLEAN
      /\ PendingFor(n)' \in {"None", "Up", "Down"}
      /\ wanLink[n]' \in {"None", "Up", "Down"}
  BY DEF ReadyFor, Ready, PendingFor, TypeOK
<1>3. CASE missed' = TRUE
  BY <1>2, <1>3 DEF Told!Blinded, Told!Reports
<1>4. CASE missed' = missed /\ ~missed /\ (WanLinkUp \/ NotifyDown)
  <2> DEFINE word == IF pc = "upLink" THEN "Up" ELSE "Down"
  <2>1. /\ cur \in Names /\ wanLink' = [wanLink EXCEPT ![cur] = word]
        /\ pc \in {"upLink", "notifyDown"} /\ pc' = "select" /\ UNCHANGED port
    BY <1>4, NoRowForNoName
    DEF WanLinkUp, NotifyDown, SetWanLinkStatus, Delivered, Return, table, TypeOK
  <2>2. ReadyFor(n)' = ReadyFor(n) /\ PendingFor(n)' = "None"
    BY <1>1, <2>1 DEF ReadyFor, Ready, HasRow, RowOf, PendingFor, UpChain, DownChain
  <2>3. CASE n = cur
    <3>1. PendingFor(n) = word /\ wanLink[n]' = word
      BY <2>1, <2>3 DEF PendingFor, UpChain, DownChain, TypeOK
    <3> QED BY <1>4, <2>2, <3>1 DEF Told!Report
  <2>4. CASE n # cur
    <3>1. PendingFor(n) = "None" /\ wanLink[n]' = wanLink[n]
      BY <2>1, <2>4 DEF PendingFor, TypeOK
    <3> QED BY <1>2, <1>4, <2>2, <3>1 DEF Told!Change
  <2> QED BY <2>3, <2>4
<1>5. CASE missed' = missed /\ ~missed /\ ~WanLinkUp /\ ~NotifyDown
  <2>1. wanLink' = wanLink
    BY <1>5 DEF Transition, WanLinkFound, SetWanUp, CreateEthLink, SetWanInterfaceName,
         PhyInterfaceDown, SetWanDown, DeleteEthLink, remote
  <2>2. /\ pc \in UpChain => pc' \in UpChain
        /\ pc \in DownChain => pc' \in DownChain
        /\ pc \notin UpChain \cup DownChain => pc' \notin UpChain \cup DownChain
    BY <1>5 DEF Transition, WanLinkFound, SetWanUp, CreateEthLink, SetWanInterfaceName,
         PhyInterfaceDown, SetWanDown, DeleteEthLink, Goto, Return, UpChain, DownChain,
         NotDirect, TypeOK
  <2>3. PendingFor(n)' = PendingFor(n) /\ wanLink[n]' = wanLink[n]
    BY <1>1, <2>1, <2>2 DEF PendingFor, UpChain, DownChain
  <2> QED BY <1>2, <1>5, <2>3 DEF Told!Change
<1> QED BY <1>1, <1>3, <1>4, <1>5 DEF TypeOK

\* Whatever interfaces are given, taken or renamed, the machine is for each of
\* them a safe reporter: the WAN manager is told "Up" or "Down" only as the
\* machine saw the interface when it decided, and in the order of its decisions,
\* until a step is missed.  (A direct build writes WanStatus itself and then
\* reports without another look at the link, hence the assumption.)
THEOREM ReportsFollow ==
    ASSUME ~DirectWan, NEW n \in Names
    PROVE  Spec => Told(n)!Safety
<1>1. Init => Told(n)!Init
  BY RowOfName
  DEF Init, Told!Init, ReadyFor, Ready, PendingFor, DefaultRow, UpChain, DownChain
<1>2. TypeOK /\ TypeOK' /\ NotDirect /\ [Next]_vars => [Told(n)!Next]_(Told(n)!vars)
  <2> SUFFICES ASSUME TypeOK, TypeOK', NotDirect, [Next]_vars
               PROVE  Told(n)!Next \/ UNCHANGED Told(n)!vars
    OBVIOUS
  <2>1. CASE Dispatcher \/ Starter \/ Hal
    BY <2>1, OthersTell DEF Told!Next
  <2>2. CASE Handler
    BY <2>2, HandlerTells DEF Told!Next
  <2>3. CASE Transition
    BY <2>3, TransitionTells DEF Told!Next
  <2>4. CASE UNCHANGED vars
    BY <2>4 DEF vars, Told!vars, ReadyFor, Ready, HasRow, RowOf, PendingFor
  <2> QED BY <2>1, <2>2, <2>3, <2>4 DEF Next, Machine
<1> QED BY <1>1, <1>2, TypeCorrect, NotDirectHolds, PTL DEF Spec, Told!Safety
=============================================================================
