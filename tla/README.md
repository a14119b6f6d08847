# A model of the RDK-B Ethernet agent

TLA+ specifications of the Ethernet agent (`CcspEthAgent`), model-checked with
TLC on small instances, and theorems about them checked by TLAPS for every
instance. Line numbers refer to the source tree; `cosa_ethernet_apis.c`,
`cosa_ethernet_manager.c` and `eth_hal_interface.c` are in
`source/TR-181/board_sbapi`, the other `cosa_*.c` in
`source/TR-181/middle_layer_src`.

The build that is modelled has `FEATURE_RDKB_WAN_MANAGER` and not
`WAN_MANAGER_UNIFICATION_ENABLED`; where a platform differs
(`_PLATFORM_RASPBERRYPI_` and its like) the difference is a constant. `EthWanMode`
takes `ENABLE_WANMODECHANGE_NOREBOOT` and the layout of the bridges (Puma7's, or that of
the other platforms) as part of the initial state. `cosa_ethernet_apis_arm.c` is in
`source/TR-181/board_sbapi/source-arm`.

## 1. Inventory

| Part | State | Operations | Talks to | Hard because |
|---|---|---|---|---|
| **WAN state machine** (`cosa_ethernet_manager.c`) | `pstInfo`, `geCurrentState`, the thread's position | 5 state handlers, 6 transitions, `Start_StateMachine` | reads and writes the interface table; VLAN manager and WAN manager over the bus; started by a data model write | a thread that decides on a copy of a row which others write; `pstInfo` is a global that is replaced under it; bus calls fail and are not repeated |
| **Interface table** (`gpstEthGInfo`, `gTotal`) and `X_RDK_Interface` (`cosa_ethernet_apis.c` 3760-4571, `cosa_ethernet_dml.c` 1414-1952) | rows with names, the dispatcher's list of entries with copies of some fields | lookup by name, get, set, `AddEntry`, `DelEntry`, rename | used by every other part | one lock per access and not per lookup-and-use; deletion moves rows; names are keys and can be changed |
| **Link events and start-up** (`cosa_ethernet_apis.c` 3350-3700, 4405-4830; `cosa_ethernet_internal.c`) | a POSIX message queue, the event handler thread | callback of the HAL, of the simulation, of the dispatcher; delivery to the WAN manager; `CosaDmlEthInit` | table, WAN manager | row and message are written in two steps; the queue is bounded, outlives the agent and is made by its reader |
| **WAN failover simulation** (`cosa_ethernet_apis.c` 5835-5986, `cosa_rbus_handler_apis.c`) | `EWanLinkDown`, `EWanLinkDownTimeout`, a file, a mutex and a condition variable | rbus set and get, a thread per simulation, clean-up at start-up | link callback | a signal without lock and a wait without predicate; one condition variable initialised again by every thread; crash in between |
| **Associated devices** (`eth_hal_interface.c`) | two open-addressing hash tables, `isDeleteAllDone` | monitor loop (poll, compare, clean), `EthHost_Sync` | HAL, LMLite | deletion in open addressing; a table walked by two threads without a lock |
| **EthWAN mode change** (`cosa_ethernet_apis.c` 1213-2130, 2407-2576, 2600-3215; `cosa_ethernet_dml.c` 703-910) | the mode, in the HAL, a marker file, syscfg, `EthWanCfg` and the layout of the bridges; `wanOperState`, `PrevSelMode`, the port's MAC address | write of the selected mode, `ThreadConfigEthWan`, `CosaDmlConfigureEthWan`, `CosaDmlIfaceFinalize`, `ConfigureWan` and finalization by the WAN manager | WAN manager, HAL, kernel devices | a thread per write without mutual exclusion; a dozen steps any of which may fail; roll-back by the opposite change; restarts in between |
| **Boot inform** (`cosa_ethernet_apis.c` 2103-2306, 2381-2405) | the message, retry flag and counter | `ThreadBootInformMsg`, `ThreadUpdateInformMsg` | WAN manager | an old message repeated while the mode changes |
| **PHY monitor** (`cosa_ethernet_apis.c` 2079-2101, 2308-2379; `cosa_ethernet_dml.c` 836-866) | `wanInstanceNumber`, `MonitorPhyStatusAndNotify` | request, monitor thread | HAL, WAN manager | a flag set by one thread and reset by another, last of all |
| **rbus event provider** (`cosa_rbus_handler_apis.c`, callbacks at `cosa_ethernet_apis.c` 5529-5640) | `EWanLinkStatus`, `gSubscribersCount` | subscribe, get, publish, restart | rbus clients, link callbacks | written, counted and read again without a lock by three threads |
| **Logging and telemetry** (`cosa_ethernet_internal.c` 557-883, `cosa_ethernet_dml.c` 1069-1176) | settings in memory, syscfg and a file in `/tmp`; copies of the threads | two setters, file watch, telemetry thread, logger | syscfg, inotify | a file rewritten under its reader, a signal without predicate, a period that changes while a thread sleeps |
| **`Device.Ethernet.Interface`** (`cosa_ethernet_interface_dml.c`, `cosa_ethernet_internal.c` 128-218, `cosa_ethernet_apis_arm.c`) | objects with pending values, board rows, stored instance numbers | set, validate, commit, rollback, refreshing reads, statistics, client list, start-up | HAL, PSM, syscfg | two tables related by position one way and by number the other; reads between set and commit; partial failure |
| **LAN bridge membership** (`EthMgr_AddPortToLanBridge`) | none of its own | shell commands per port | bridge | - |
| **Process, bus, plugin** (`EthSsp/`, `plugin_main*.c`) | component state, a command loop | create, engage, cancel | CCSP bus | run once |

How they interact: the HAL (or the simulation, or a write of `Enable`) calls the
link callback, which writes `LinkStatus` into the interface table and queues a
message; the event handler delivers it to the WAN manager as `Phy.Status`. The
WAN manager answers by writing `Upstream` and `WanStatus` of an
`X_RDK_Interface`, which reach the table through the data model dispatcher; a
write of `Upstream = TRUE` starts the state machine, which reads the table every
500 ms, has the VLAN manager make or delete the Ethernet link and reports
`LinkStatus` to the WAN manager. The same callbacks publish the link's status on rbus
before they write the table. A write of the selected mode has a thread disable the WAN
manager, reconfigure the port, the HAL, the flags and the bridges, tell the WAN manager
the names and enable it again; the WAN manager records the mode it got up in syscfg,
where the next change looks for it.

What makes each part correct:

- state machine: the VLAN is there exactly while it is needed; an interface that
  the WAN manager takes for up is one somebody watches; a report follows what was
  seen; what is lost or ready for good is reported;
- table: rows of internal interfaces are never lost or confused; an entry reaches
  its own row; values move with rows; names are unique;
- link events: no event is lost unless something fails; the last one queued wins;
  nobody waits for ever;
- simulation: a link that is brought down comes up again, across crashes;
- associated devices: what LMLite takes for connected is what the switch reports;
- mode change: when nothing runs, every place that holds the mode holds the same one,
  the one selected, and devices, bridges and MAC address are as it wants them; a change
  ends, and the WAN manager is enabled again;
- PHY monitor, rbus status: who asked or subscribed ends up knowing;
- settings: the threads go by the last one;
- interfaces: an object speaks of its own device; what is committed is valid.

The hazards behind these, each at its line, are in `PROJECT.json`.

## 2. Modules

| Module | Models | State and actions |
|---|---|---|
| `EthStateMachine` | the WAN state machine and the data model handlers that feed it | `port`, `name` are rows; `pc` is the next call of a running transition, so every point where another thread can act is a state; one action per state handler (`State_...`), per remote call or table write of a transition, per data model handler (`Dml...`), two for `Start_StateMachine` (between its `malloc` and its `memcpy` the machine reads no name) |
| `WanLinkReport` | abstract: what the WAN manager may rely on about one interface | a decision follows what is seen, a report follows a decision, what is due is reported |
| `MCEthStateMachine` | the state machine for TLC | symmetry, constraint, and the refinement mapping to `WanLinkReport` |
| `EthLinkEvents` | callbacks, queue, event handler thread, the part of the start-up that concerns link events, crashes | `caller` is a thread between the row and the queue; `boot` the position of the start-up; with `AutoWan` a callback may return before it has done anything, and its event is lost |
| `EthWanFailover` | the simulation threads, the rbus dispatcher, the start-up (`initLinkStatus`, the signal function, the look at the file), crashes | a file may fail to be made or removed; `sim` has each thread's position, with `stale` for a waiter of an earlier initialisation of the condition variable |
| `EthHostTable`, `MCEthHostTable` | the monitor thread, both hash tables, `EthHost_Sync` | a step is one host or one slot of a loop; hashes are part of the initial state |
| `EthPortTable` | rows and entries that come and go | `access` is an index a thread has looked up and not used; `DelEntry` moves the last row into the hole |
| `EthWanMode` | write of the mode, the thread or the dispatcher that changes it, roll-back, boot inform and its update, the WAN manager, restarts of agent and device | `job` has where each worker is, one action per step that can fail or be seen; `faults` bounds failures, `damage` names what one leaves behind that only a later change can mend |
| `EthWanBridge` | the bridges: pure functions from a layout of devices to the next, one per platform, over `ip link` and `brctl` | used by `EthWanMode` |
| `EthInterfaceDml` | the interface objects and the board rows, of the static table or of PSM's | `phase` is where a set call is; `touched` the objects it has set; a restart may fail to read any one of the things it reads |
| `EthTelemetry` | settings, file, watcher, telemetry thread, logger | one action per access of what another thread writes |
| `EthPhyMonitor` | request and monitor thread | `monitor` with its round counter |
| `EthLinkStatus` | callbacks that publish, rbus clients, restart | `caller` is a thread between the write of the status and its event; the start-up that ends an interrupted simulation is one of them |
| `EthLinkReports` | `EthLinkStatus` and `EthPhyMonitor` over one link and one process | - |
| `EthStatusChannel` | abstract: what the WAN manager may rely on about the link events of all interfaces | `Phy.Status` changes by the messages queued, in order and once each, or by the start-up; what is skipped leaves a trace |
| `EthInterfaceStore` | abstract: what the table promises about rows that come and go | a set of cells, one per interface, without order and names; a step touches one |
| `EthStateMachine_proofs`, `EthLinkEvents_proofs`, `EthWanFailover_proofs`, `EthPortTable_proofs`, `EthHostTable_proofs`, `EthWanMode_proofs`, `EthLinkReports_proofs` | theorems and their proofs | - |
| `EthDataModel_proofs` | theorems about `EthInterfaceDml` and `EthTelemetry` | - |

Boundaries between modules: `EthStateMachine` has fixed rows, `EthPortTable` has
the rows that change and abstracts their fields to one value; `LinkStatus`
changes at any moment in the first, `EthLinkEvents` says who changes it;
`EthWanFailover` keeps only the last callback it made, `EthLinkEvents` has its
effect on table and queue, `EthLinkStatus` its effect on rbus.

Variables marked `history` in a module are not state of the program: they record
that something went wrong (a call failed, a crash, a requester that did not
wait), so that a property can say up to which point it holds. No action reads
them, except to write them.

What the models abstract from, besides names and payloads:

- a WAN manager write is one bus call; paths and instance numbers are not modelled,
  because they are functions of the name;
- `LinkDownTimeout` is zero or not zero; a timer that runs may expire at any time;
- in `EthHostTable` a host that is freed and added again at the same slot while
  `EthHost_Sync` holds its pointer counts as the same;
- `EthWanMode` has one Ethernet port; what the WAN manager does is reduced to what the
  agent sees of it: it records the mode that is up, tries modes when "auto" is selected
  and has the result finalized; LED, NTP and `sysevent` settings are left out;
- in `EthInterfaceDml` rates, duplex mode, MAC addresses and `LastChange` are left out,
  there is one client that moves between ports, and of the names in `/proc/net/dev` only
  those of a VLAN over the WAN device contain another's;
- in `EthLinkEvents` a callback of a build with `AUTOWAN_ENABLE` returns early or not by
  a free choice, for `isEthWanEnabled` reads the mode, which is not in that module;
- in `EthTelemetry` a tick of the logger is 60 seconds, the file has three states:
  absent, being written, written;
- in `EthLinkStatus` an rbus client subscribes first and then reads; after a restart of
  the agent it has to subscribe again; `EthLinkEvents` leaves rbus out;
- memory is always available; interface names are below 64 characters;
- `DelEntry` takes the parent's context for the entry's. What happens then depends
  on memory: the model has the two outcomes that can be told apart, an agent that
  crashes and starts again, and an entry that survives its row.

## 3. Runs

Passing runs:

| Run | Instance | What it shows |
|---|---|---|
| `SmPatient` | 2 rows, 3 names, direct build, calls may fail, patient WAN manager (2.9 million states) | `VlanFollowsState`: unless a step was missed, the VLAN is enabled in `STATE_ETH_VLAN_CONFIGURING` and gone in `STATE_EXIT`. `UpIsServed`: an interface told "Up" is the one the machine watches or is taking down. Includes renames and a direct build that cannot read `wan_physical_ifname` |
| `SmReport` | 1 row, WAN manager that writes at any moment, calls may fail, fairness | `ImplementsReport`: refinement of `WanLinkReport` with its fairness, from which it follows that an interface that is lost for good does not stay "Up" in the WAN manager, and one that is ready for good becomes "Up" there, unless a step was missed |
| `EvLinks` | 2 interfaces, 3 writers, the early return of AUTOWAN, a queue of 2, failures, 1 crash (2.8 million) | `LastQueuedWins`; `RestingStatesAgree`; `FullQueueIsServed`; `ChannelKept`: refinement of `EthStatusChannel`, where the message the handler thread has received and not delivered is still the oldest of those under way |
| `FoSims` | 2 overlapping simulations, failures also of the file's removal, 1 crash, fairness (164 thousand) | `DownIsMarked`, `FileIsRemoved`, both up to a removal that failed; `ReleaseUnderWay`: a link that is to come up again has somebody on the way who brings it up; `ReleaseEndsSimulation`, `TimeoutEndsSimulation`, `RequestBringsDown` |
| `HtHosts` | 2 hosts, 3 slots, all hash functions, lost notifications, `EthHost_Sync` at any moment | `ViewIsReport`, `NoFalseDisconnect`; `NoneForgotten`: a host that LMLite takes for connected is in the table, also when copies of the other one have filled it |
| `PtTable` | 1 internal row, 2 at start-up, up to 3 rows, 1 thread beside the dispatcher | `InternalKept`, `EntryReachesRow`, `RowsKeepValues`; `StoreKept`: refinement of `EthInterfaceStore` |
| `WmModes` | both bridge layouts, with and without a reboot for the change, 1 thread, any sequence of mode writes by a patient user, 1 fault or restart anywhere, fairness (227 thousand) | `FlagsAgree`, `SelectedIsServed`, `BridgeFollowsMode`, `EthNameFollowsMode`, `PortHasItsAddress`: at rest all copies of the mode agree and the devices are as it wants, roll-backs included; the name the WAN manager has is that of the mode unless an old start-up message arrived last. `ChangeUnderWay`: a change that disabled the WAN manager, or made writes be refused, has a thread behind it that will undo that. `ChangeCompletes`, `WanManagerResumes`, `BootInformEnds` |
| `IfObjects` | 2 interfaces, the static table or PSM's, restarts, 1 failing call or read (1.1 million) | `AliasesUnique`; `AnswersAreOwn`: status and counters; `ClientsInSync`: of interfaces whose HAL port has their number; `UpstreamKept`: but for rows that are upstream in the static table |
| `TlSettings` | 2 periods, 2 changes, failures, fairness (307 thousand) | `LoggerCountsDown`; `SettingsOnTheWay`: a setting the telemetry thread does not have is being written, or in the file with somebody still to look; `SettingsReachTelemetry` |
| `LkReports` | 1 rbus client, 2 interfaces to ask for, failures, any number of restarts and simulations, fairness (593 thousand) | `SubscribersKnowStatus`, `SubscribersLearnLink`; `RequestUnderWay`, `RequestAnswered`: what was asked for last has a monitor, and is answered |

Runs that find a disagreement between the code and what it says of itself (each is
an entry of `findings` in `PROJECT.json`, with the lines on both sides):

| Run | What TLC finds |
|---|---|
| `SmStaleCopy` | an acknowledged `WanStatus` write is dropped: it is compared with the data model's own copy, which the machine's write of DOWN does not reach |
| `WmOverlap` | a second write of the mode is accepted before the first one's thread has set the state that would refuse it: two threads configure the device at once |

Other disagreements met while modelling, which the models show (the properties that
would fail are left out, or say up to where they hold):

- "waits for Ethernet Link to be validated" (`cosa_ethernet_manager.c:64`): the setter of
  `WanValidated` ignores both arguments (`cosa_ethernet_apis.c:4082`) and rows are made
  with TRUE (4537), so the VLAN is configured of an interface that was never validated;
- the event handler thread is created before the HAL is initialised "to avoid any
  missing of Ethwan callback notification" (3397), but the queue is made by that thread
  (4737) and nobody waits for it: a callback in between drops its event (4674). The
  variable `lost` of `EthLinkEvents` becomes TRUE without any failure;
- `pthread_cond_signal` is called without the lock (5913) and `pthread_cond_wait` without
  a predicate (5958): `LinkDown = FALSE` written before the simulation waits is lost, and
  with `LinkDownTimeout = 0` the link stays down without a crash.
  `ReleaseEndsSimulation` excepts this case;
- "Free and assign a dummy item at deleted position" (`eth_hal_interface.c:328`) is not
  what happens: the slot becomes NULL and hides a host further on in the probe sequence,
  which is added twice and later told disconnected by the removal of one copy. Therefore
  `ViewIsReport` speaks of hosts with hashes of their own;
- `CosaDmlEthPortSetName` refuses a name another row has ("check newIfname already
  exists", `cosa_ethernet_apis.c:4242`), `AddEntry` names its row without that check
  (3930); `EntryReachesRow` excepts it by `mishaps`;
- every start sets the `Alias` of each interface to `Interface<n>` and stores it
  (`cosa_ethernet_internal.c:198`, `cosa_ethernet_apis_arm.c:448`), over one a client has
  committed;
- the name in the start-up message is computed once and sent in every round of its
  retries (`cosa_ethernet_apis.c` 2278-2295): a round after a change of the mode gives the
  WAN manager the old device again, over what `CosaDmlIfaceFinalize` wrote, though no call
  failed. `EthNameFollowsMode` excepts this (`"stale"` in `damage`) until the name is
  written again;
- the list of clients compares the HAL's port number with the instance number
  (`cosa_ethernet_apis_arm.c:625`), while the port of a row is its `hwid` (185,
  1243-1253): where a Linux device stands before a switch port, as with the rows 7 and 8
  of `INTEL_PUMA7` (246-247), the clients of another port are listed; and when the last
  client of all interfaces has gone the lists are not touched (699). `ClientsInSync` speaks
  of interfaces whose port has their number, while somebody is connected;
- a start takes a stored `Upstream` TRUE over and never clears what the static table has
  (`cosa_ethernet_apis_arm.c` 346-349): the rows that are TRUE there (141, 159) come back
  TRUE where a client has stored FALSE. `UpstreamKept` excepts them;
- the counters are those of the last line of `/proc/net/dev` that contains the name
  (`cosa_ethernet_apis_arm.c:1286`): with a VLAN over the WAN device its counters are
  the VLAN's. `AnswersAreOwn` excepts the WAN device's counters then;
- a start-up that finds the file of an interrupted simulation and cannot remove it does
  not bring the link up either (`cosa_ethernet_internal.c:391`, `cosa_ethernet_apis.c`
  5838-5853), although the comment there says "remove that file and bring up the EWan
  Link". `DownIsMarked` excepts it;
- the static tables for five and six ports refer to `g_EthIntSInfoStatic + 8` and `+ 9`
  (`cosa_ethernet_apis_arm.c` 216-217, 225-226), which has seven and eight entries there
  (outside of `INTEL_PUMA7`); the model has the rows those were meant to be;
- `Upstream` set on any row writes the global `Ethwan_Disable_Upstream`, and the setter
  answers TRUE when the change failed (`cosa_ethernet_interface_dml.c:567`).

### Bounds

Two rows (or interfaces) are enough for one to be served and another to be started
or left behind; a third name makes a rename possible in any state. Two simulations
overlap in every pair of positions, and no step of one looks at more than one
other. A queue of two has an order and is full after two messages; 100
(`MAX_QUEUE_LENGTH`) differs only in when. One crash at any point covers the
second start on what the first left; the state it leaves (queue, file, syscfg) is
again one that a first run can leave. Two hosts and three slots collide, wrap
around, leave a hole in a probe sequence and, with duplicates, fill the table (three
hosts in two slots, which also overfill the temporary one, were checked as well, and the
theorems are about any number). Three rows of which one is internal let a row move into a hole and a freed name be given
again. One thread of mode change suffices for a user who waits (a second one would need
the gap, which is proved), two show the overlap; one fault at any step covers every failing call,
roll-back and restart by itself (the invariants of `WmModes` were also checked with two
faults, 1.2 million states); `RetryMax = 0` makes the rounds of the start-up message run
out after one retry. Of the two interfaces the static table has the WAN device, a Linux device, and behind it
a switch port that is upstream by default, so that port and instance number differ; in
PSM's table the WAN row is a switch port and the other one a Linux device. A restart may fail to read the table, or any one flag, ID or `Upstream` of it. Two periods
make every change of the period one up or down. One client tells a missed event from a
delivered one (with two, 2.4 million states, the invariant holds as well, and it is
proved for any number); two interfaces let a request replace another. Where a theorem exists the bound only serves to find errors cheaply.

`SmPatient` does not continue past a missed step (`CONSTRAINT NothingMissed`): its
invariants promise nothing there, and the type invariant is proved for all states.
Symmetry is used for invariants and, in `HtHosts`, for an action property, never
with liveness; in `EthHostTable` it is sound because hashes are state, initially any
function. `EvLinks` does not check for deadlock: an agent whose handler thread has
ended may really stop; neither does `LkReports`, which could not deadlock, for the
link may always change. All other passing runs check it.

The constants that restrict the environment: `PatientWriter` (the WAN manager hands
`Upstream` to an interface only after it took it from the others and the machine is
at rest; without it `UpIsServed` is not promised, while `VlanFollowsState` is proved
without it), `CallsMayFail` and `MayFail` (bus calls, thread creation, files),
`Writers`, `MaxCrashes`; `Patient` in `EthWanMode` (the mode is written when the last
change is over and the WAN manager has recorded it, or is disabled and cannot),
`MaxFaults`.

### Fairness

- `EthStateMachine!Fairness`: the dispatcher finishes the handler it is in, and the
  machine's `select()` times out again and again. Nothing is assumed of who writes
  parameters or changes links.
- `EthWanFailover!FairSpec`: a started thread runs, a timer expires, the dispatcher
  finishes its call, the start-up goes on; strong fairness for the mutex, as threads
  compete for it and each holds it for a bounded time.
- `EthWanMode!Fairness`: the dispatcher finishes its call and the threads run.
- `EthTelemetry!LogFairness`: the same, and time passes for a thread that sleeps.
- `EthLinkReports`: the HAL calls back for a link that changed, a callback goes on, the
  monitor runs. Nothing is assumed of clients, simulations and restarts.

## 4. Theorems

| Theorem | Says | Argument |
|---|---|---|
| `EthStateMachine_proofs!TypeCorrect`, `VlanSafe`, `UpServed` | `TypeOK`, `VlanFollowsState`, `UpIsServed` for any rows, names and builds | `VlanFollowsState` speaks of states between calls only together with where a transition can be: the invariant `Chains` ties `pc` to `smState` (the calls of a transition belong to the state that took it). `UpIsServed` further needs that while a machine is being started the machine rests and the other rows are not upstream (`OnlyStarting`), that the running handler serves the name it was passed (`ServesCur`), and that "Up" comes after the name was set (`NamedFirst`) |
| `EthStateMachine_proofs!ReportsFollow` | the safety part of `WanLinkReport`, for every interface, in a build that is not direct | the refinement, step by step: handlers change what is seen (`ready`) or decide (`pending`), calls of a transition tell (`view`) or stutter. A handler decides for the interface it was passed, on a row that has its name (`TypeOK`), the calls of a transition lead to nothing but the report of that decision, and a transition of one interface is a stutter for all others. No transition gets to "Up" but by a handler's decision (`NotDirect`): a direct build writes `WanStatus` itself in the middle of one and goes on to "Up" without another look, hence the assumption |
| `EthLinkEvents_proofs!TypeCorrect`, `QueueServed`, `LastWins`, `StatesAgree` | `TypeOK`, `FullQueueIsServed`, `LastQueuedWins`, `RestingStatesAgree` for any number of interfaces, queue length and crashes | a start-up that has spawned the handler thread has one (`Made`) and sends only when it is over (`BootSendsLast`), so nobody waits for a thread that is yet to come. The status queued last is in the queue's last message about the interface, with the handler thread, or with the WAN manager (`Routed`); appending to and removing from a sequence keep that. Table and link agree because until something disturbs only one thread sends about an interface (`Alone`), nothing is queued before the start-up is over (`NothingYet`), which writes the WAN manager before the table (`InOrder`), and from then on the last message has what the table has (`Agreed`) |
| `EthLinkEvents_proofs!ChannelImplemented` | the queue, the handler thread and the start-up implement `EthStatusChannel`, for any interfaces, queue length and number of crashes | step by step: `mq_send` posts, a delivery tells, a failed delivery or a handler thread that dies with its message skips, `mq_receive` and everything else stutters. What has to be known of the states is only that a thread that delivers has a message and that the queue is not longer than its limit (`TypeOK`), and that a start-up past its end has a handler thread (`Made`) |
| `EthWanFailover_proofs!TypeCorrect`, `DownMarked`, `FileRemoved`, `LockGivenUp` | `TypeOK`, `DownIsMarked`, `FileIsRemoved`, `HolderRuns` for any number of threads and crashes, removals that fail included | `DownIsMarked` is not inductive: a thread that removes the file must know that nobody brought the link down since it brought it up. `Marked` adds that the lock excludes (`Excluded`) and that the link is up while a thread is about to remove the file (`UpBeforeRemove`) |
| `EthWanFailover_proofs!ReleaseNotMissed` | `ReleaseUnderWay` for the same constants, and for a requester who does not wait, up to the write that disturbs | until one disturbs, one simulation at most is on its way (`Alone`), none is to be started while `LinkDown` is FALSE (`NoneToStart`), none waits on a condition variable initialised again since (`NoneStale`), and when `LinkDown` is FALSE whoever waits is about to be signalled (`Ending`): together `InTurn`. No simulation is there before the signal function is registered (`NoneYet`). A link that is down has a simulation that has still to bring it up, or a start-up that finds the file (`InHand`, by `Marked`), and `InTurn` says in which place |
| `EthPortTable_proofs!TypeCorrect`, `InternalHeld` | `TypeOK`, `InternalWritten` (a part of `InternalKept`) for any number of rows and threads | internal rows stay in place with their instance and value (`Own`), all other rows belong to other instances (`OthersAfter`), and an index that was looked up leads to an internal row only for the instance whose row that is (`Apart`) |
| `EthPortTable_proofs!InternalNamed`, `InternalStays`, `EntriesReach`, `ValuesMoveAlong` | `InternalReached`, and so `InternalKept`; `EntryReachesRow`, `RowsKeepValues` for any number of rows and threads | none is inductive. An entry keeps leading to its row through the rename of another only if internal rows never share a name (`Reached`), which the refusal of a used name gives; without deletions and names given twice rows and entries are in one order (`InOrder`); a write changes one row only if no two rows are of one instance and instance numbers are not given again (`Issued`) |
| `EthPortTable_proofs!StoreImplemented` | the rows implement `EthInterfaceStore`, for any number of rows and threads | the mapping forgets the order and the names of the rows. With `Issued` a cell determines its row, so that writing a row puts one value and moving the last one into the hole takes exactly the deleted cell away; with `Kept` it is not an internal one |
| `EthHostTable_proofs!HostTypes`, `HostView` | `TypeOK`, `ViewIsReport` for any hosts and slots | when hashes keep the hosts apart a host has one slot it can be in (`Placed`, for both tables), LMLite knows exactly the hosts of the table but for those it could not be told of (`Known`), and in the course of an iteration what has been polled, compared and cleaned so far tells what the table holds (`Iteration`) |
| `EthHostTable_proofs!NoHostMissed` | `NoFalseDisconnect` for all hosts, hashes shared or not, as long as the valid ones of the report are not more than the slots | the temporary table is filled and never deleted from, so a search in it finds what was added (`Collected`): the first free slot of the probe sequence is past the host's. That there is a free slot for the next host is the pigeonhole principle for hosts in slots of their own (`Room`), from that bound. The same does not hold of the other table, which is deleted from |
| `EthHostTable_proofs!NobodyForgotten` | `NoneForgotten` for any hosts, hashes and table size, full or not | LMLite is told of a host only in the step that has put it into the table, and a host leaves the table only in the step that tells it gone. `EthHost_Sync` reads the table in one step and tells in the next; by then the host may have gone, and the notification counts as false |
| `EthWanMode_proofs!ModeTypesHold`, `CopiesAgree` | `TypeOK`; with a patient user `FlagsAgree`, for any number of threads, faults and retries | a patient user starts a change only when nothing runs, so one worker at most is busy (`Solo`); what it has written so far follows from where it is (`Written`), and before its first write and after its last the copies agree unless the damage says so (`Whole`); `Mended` says which faults leave a worker that will still put them right |
| `EthWanMode_proofs!OverlapNeedsGap` | `OneChangeAtATime` of any user, for any number of threads, faults and restarts, as long as no thread is created while another that was created has still to set "inprogress" (`KeepsOffGap`): two changes overlap through that gap, which `WmOverlap` shows, and in no other way | while one keeps off the gap, one thread at most is between its creation and its end (`Alone`), and from its first step on the state refuses every write of the mode (`Refusing`): together `InTurn`. Only the end of a change leaves that state, a roll-back does not; a restart ends the threads with it |
| `EthWanMode_proofs!ChangeNotForgotten` | `ChangeUnderWay` of any user, for the same constants: however many changes overlap | its two parts together are inductive over the types: a step within a change leads to another step of the same thread (`WorkGoesOn`), only the end of a change leaves "inprogress", for all threads at once, and only enabling the WAN manager, or a recorded failure to, ends the part before it |
| `EthWanMode_proofs!AddressComesBack`, `SelectionIsServed`, `BridgesFollow`, `NameFollows` | with a patient user `PortHasItsAddress` (its own address in the DOCSIS mode), `SelectedIsServed`, `BridgeFollowsMode`, `EthNameFollowsMode` (unless the name was last written by a failing call or an old start-up message), for the same constants as above; the bridges in both layouts | each uses the ones before. The port has the WAN address only while its own is remembered and somebody is under way who puts it back (`Remembered`, `Home`). A change leads from the mode recorded last to the selected one, a rolled-back one to where it came from (`Aim`), and the WAN manager has recorded what it got up (`Known`): `Serving`. The devices have one of the layouts `Shaped` describes, on which the functions of `EthWanBridge` are evaluated once per platform; until they are rearranged the layout is that of the mode recorded last (`UpIsLast`), so that the decision by `last_wan_mode` is right: `Bridged`. A change knows the right device by then and has told the WAN manager before it ends, and the update of the start-up message runs alone: `RightlyNamed`. The start-up message itself runs beside any change; what is shown of it is that it gives the WAN manager another name than that of the mode only by a delivery that is recorded as such |
| `EthDataModel_proofs!TypeCorrect`, `AnswersOwn`, `ClientsKnown`, `AliasesDiffer`, `UpstreamStored` | `TypeOK`, `AnswersAreOwn`, `ClientsInSync`, `AliasesUnique`, `UpstreamKept` for any number of interfaces, any static table, any tables PSM may hold and any aliases | `TypeOK` is not inductive: a refresh looks for the row with the object's number, so every object must have the number of its own row (`Numbered`), also after a restart that could not read a stored one. That the start-up's numbering ends there is a fact about the recursive function `NextNumbers`, shown with the least position at which it would fail. Switch ports are given out in the order of the rows (`Cabled`), so that no two rows have one device (`OwnDevice`); this is what status and counters need. The list of clients is filled and compared by number, which is right where the port has that number, and so for every switch port that no Linux device precedes (`PortsLead`, and with it `LeadingInSync`). The aliases need to differ in the objects at one phase of a call and in the rows at another (`NamesApart`), `Upstream` that a step leaves an object's as it was or makes it what is stored for its row, or the TRUE of the static table (`StoredOr`) |
| `EthDataModel_proofs!CountsDown` | `LoggerCountsDown` for any periods | the time left is relative to the period the logger saw last, at every step of its loop |
| `EthDataModel_proofs!SettingsNotStranded` | `SettingsOnTheWay` for any periods, changes and failures | it needs that the file, when the dispatcher is done with it, holds the present settings, and that an event is pending only for a watcher that has set its watch (`FileKept`): `WayInv` |
| `EthLinkReports_proofs!StatusKnown` | `SubscribersKnowStatus` for any number of clients and restarts | the count is the number of clients that have subscribed (`Counted`); unless something excuses it one thread at most is inside (`OneInside`), its event holds the present status (`EventIsCurrent`), and a client with old knowledge has an event coming (`OldKnowledgeEnds`): a thread that finds the count zero has nobody to tell |
| `EthLinkReports_proofs!RequestNotLost` | `RequestUnderWay` for any interfaces and any length of the wait | the flag stands for a running monitor or for one that could not be created (`FlagIsTrue`): a request that finds it set finds a monitor, which has either read the number already, and then the request counts as too late, or will read the new one |

Assumptions: only the named `ASSUME`s of the modules (non-empty sets of rows or
threads, values that differ, natural bounds with `Internal <= Initial <= MaxInst`,
finite sets of hosts and clients, at least one slot, Boolean flags), which TLC evaluates
in every run, and what a theorem's own statement assumes: `Patient` in all of `EthWanMode`
but `ModeTypesHold`, `ChangeNotForgotten` and `OverlapNeedsGap`, `KeepsOffGap` in
`OverlapNeedsGap` (`WmOverlap` shows that it is needed), and `~DirectWan` in
`ReportsFollow`.

Only model-checked: liveness (in `SmReport`, `FoSims`, `WmModes`, `TlSettings`,
`LkReports`), which the prover cannot treat, and with it the fairness of the refinement of
`WanLinkReport` (`ImplementsReport`). What is proved of it is its safety core: that there
is always somebody on the way who brings about what is awaited (`ReleaseUnderWay`,
`RequestUnderWay`, `ChangeUnderWay`, `SettingsOnTheWay`). The refinement
is not claimed of a direct build. Every invariant, every action property and every
refinement without fairness of the passing runs is stated by a theorem. The type invariants
and `HolderRuns` of `EthWanFailover` are proved and therefore not in the runs.

`SmReport` has one interface; for the two that `ReportsFollow` tells apart TLC found no
violation up to a depth of 23 steps either.

## 5. Plan

Done: `EthStateMachine` with `WanLinkReport`, `EthLinkEvents`, `EthWanFailover`,
`EthHostTable`, `EthPortTable`, `EthWanMode` with `EthWanBridge`, `EthInterfaceDml`,
`EthTelemetry`, `EthPhyMonitor` and `EthLinkStatus` with `EthLinkReports`. What would
come next:

1. Composition of `EthStateMachine` with `EthLinkEvents` through the WAN manager:
   `Phy.Status` up leads to `Upstream`, and that to "Up".
2. Liveness of callbacks in `EthLinkEvents` (a blocked sender returns), for which the
   handler thread and `mq_receive` would need fairness.
3. An abstract specification of the mode change (a device that is in one mode or between
   two), which `EthWanMode` with a patient user implements but for its damage; the
   invariants `Good`, `Serving` and `Bridged` would carry the proof.

## 6. Not modelled

- LAN bridge membership (`EthMgr_AddPortToLanBridge`, `AddToLanBridge`) and
  `PortCapability`: shell commands per port; the code keeps no state of them, and what
  the bridge holds is the kernel's.
- The utilities (`cosa_apis_util.c`, `cosa_apis_busutil.c`): string, network and bus
  helpers without state, hardly any of them called by this agent.
- Plugin loading and object construction: tables and calls made once, by one thread.
- `EthSsp`: the command loop and the bus registration of the CCSP framework, where the
  order of what happens is decided by code outside the repository.
- The parameters of `Device.Ethernet.Interface` that pass a value of the HAL on, and the
  getters of all objects that copy a field.
- The builds with `FEATURE_RDKB_WAN_AGENT` or `WAN_MANAGER_UNIFICATION_ENABLED`, which
  replace the state machine, and in the latter the thread of the mode change.
