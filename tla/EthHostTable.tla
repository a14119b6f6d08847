---------------------------- MODULE EthHostTable ----------------------------
(***************************************************************************)
(* The associated devices of the Ethernet switch (eth_hal_interface.c):    *)
(* a monitor thread polls the HAL, keeps the connected hosts in an open-   *)
(* addressing hash table, builds a second one of the hosts of this         *)
(* iteration, and tells LMLite of every host that comes or goes.  The data *)
(* model dispatcher may ask for all hosts to be told again                 *)
(* (X_RDKCENTRAL-COM_EthHost_Sync); no lock protects the table.            *)
(*                                                                         *)
(* A step is one host, or one slot, of the monitor's loops.                *)
(***************************************************************************)
EXTENDS Naturals, FiniteSets

CONSTANTS
    Macs,       \* hosts that may be connected
    Free,       \* an empty slot
    Size,       \* ETH_NODE_HASH_SIZE
    MayFail     \* TRUE: a notification may not reach LMLite (bus, bridge mode)

ASSUME MacsAssumption == IsFiniteSet(Macs) /\ Free \notin Macs
ASSUME SizeAssumption == Size \in Nat \ {0}
ASSUME FlagAssumption == MayFail \in BOOLEAN

VARIABLES
    hash,       \* mac_hash of every host
    table,      \* eth_device_hashArrayList
    temp,       \* eth_device_hashArrayTempList
    at,         \* the monitor: "poll", "host", "sweep" or "clean"
    todo,       \* reported hosts it has not come to
    slot,       \* the slot of the disconnection loop
    allGone,    \* isDeleteAllDone
    view,       \* hosts LMLite takes for connected
    wanted,     \* history: the valid hosts of this iteration, as far as handled
    untold,     \* history: hosts whose last notification was lost, or false
    sync        \* the dispatcher in SendNotificationForAllHosts

monitor == <<at, todo, slot, allGone, wanted>>
told == <<view, untold>>
vars == <<hash, table, temp, at, todo, slot, allGone, view, wanted, untold, sync>>

Slots == 0 .. Size - 1
NoHosts == [s \in Slots |-> Free]
Hosts(t) == {t[s] : s \in Slots} \ {Free}

NoSync == [at |-> "idle", slot |-> 0, host |-> Free]

Init ==
    /\ hash \in [Macs -> Slots]
    /\ table = NoHosts /\ temp = NoHosts
    /\ at = "poll" /\ todo = {} /\ slot = 0 /\ allGone = FALSE
    /\ view = {} /\ wanted = {} /\ untold = {}
    /\ sync = NoSync

-----------------------------------------------------------------------------
(* The hash table: linear probing that wraps around. *)

Probe(m, k) == (hash[m] + k) % Size

\* The search goes on until an empty slot, or once around.
Searched(t, m) == {k \in Slots : \A j \in 0..k : t[Probe(m, j)] # Free}
Hits(t, m) == {k \in Searched(t, m) : t[Probe(m, k)] = m}
Found(t, m) == Hits(t, m) # {}

Least(S) == CHOOSE k \in S : \A j \in S : k <= j
FindHost(t, m) == Probe(m, Least(Hits(t, m)))

\* A full table takes no more hosts.
AddHost(t, m) ==
    LET empty == {k \in Slots : t[Probe(m, k)] = Free}
    IN  IF empty = {} THEN t ELSE [t EXCEPT ![Probe(m, Least(empty))] = m]

\* The slot becomes empty: hosts that were put past it are no longer found.
DeleteHost(t, m) == IF Found(t, m) THEN [t EXCEPT ![FindHost(t, m)] = Free] ELSE t

\* CosaDmlEth_AssociatedDevice_callback for a set of hosts, all connected or
\* all disconnected.
Tell(ms, connected) ==
    \E lost \in SUBSET (IF MayFail THEN ms ELSE {}) :
        /\ view' = IF connected THEN view \cup (ms \ lost) ELSE view \ (ms \ lost)
        /\ untold' = (untold \ ms) \cup lost

-----------------------------------------------------------------------------
(* CcspHalExtSw_AssociatedDeviceMonitorThread. *)

\* The HAL reports some hosts; when it fails, the monitor waits for the next
\* period.
Poll(report) ==
    /\ at = "poll" /\ report # {}
    /\ at' = "host" /\ todo' = report /\ allGone' = FALSE /\ wanted' = {}
    /\ UNCHANGED <<hash, table, temp, slot, told, sync>>

\* No host is reported: the first time, all are deleted.
PollNone ==
    /\ at = "poll"
    /\ wanted' = {}
    /\ IF allGone THEN UNCHANGED <<table, allGone, told>>
       ELSE /\ table' = NoHosts /\ allGone' = TRUE
            /\ Tell(Hosts(table), FALSE)
    /\ UNCHANGED <<hash, temp, at, todo, slot, sync>>

\* A host that ValidateClient finds neither in the neighbour table nor in the
\* leases is deleted.
InvalidHost(m) ==
    /\ at = "host" /\ m \in todo
    /\ todo' = todo \ {m}
    /\ table' = DeleteHost(table, m)
    /\ IF Found(table, m) THEN Tell({m}, FALSE) ELSE UNCHANGED told
    /\ UNCHANGED <<hash, temp, at, slot, allGone, wanted, sync>>

\* Mutant: a host that is already known is not put into the second table.
Bug_KnownNotInTemp(m) ==
    /\ at = "host" /\ m \in todo
    /\ todo' = todo \ {m} /\ wanted' = wanted \cup {m}
    /\ IF Found(table, m) THEN UNCHANGED <<table, told, temp>>
       ELSE table' = AddHost(table, m) /\ temp' = AddHost(temp, m) /\ Tell({m}, TRUE)
    /\ UNCHANGED <<hash, at, slot, allGone, sync>>

\* Mutant: AddHost tells of a host whether or not there was room for it.
Bug_ToldWithoutRoom(m) ==
    /\ at = "host" /\ m \in todo
    /\ todo' = todo \ {m} /\ wanted' = wanted \cup {m}
    /\ IF Found(table, m) THEN UNCHANGED <<table, told>>
       ELSE table' = AddHost(table, m) /\ Tell({m}, TRUE)
    /\ temp' = AddHost(temp, m)
    /\ UNCHANGED <<hash, at, slot, allGone, sync>>

\* AddHost tells of a host only if there was room for it.
ValidHost(m) ==
    /\ at = "host" /\ m \in todo
    /\ todo' = todo \ {m} /\ wanted' = wanted \cup {m}
    /\ IF Found(table, m) THEN UNCHANGED <<table, told>>
       ELSE /\ table' = AddHost(table, m)
            /\ IF table' # table THEN Tell({m}, TRUE) ELSE UNCHANGED told
    /\ temp' = AddHost(temp, m)
    /\ UNCHANGED <<hash, at, slot, allGone, sync>>

HostsDone ==
    /\ at = "host" /\ todo = {}
    /\ at' = "sweep" /\ slot' = 0
    /\ UNCHANGED <<hash, table, temp, todo, allGone, told, wanted, sync>>

\* The disconnection loop, up to a last slot; it deletes by host, not by slot.
SweepTo(last) ==
    /\ at = "sweep"
    /\ LET m == table[slot] IN
         IF m # Free /\ ~Found(temp, m)
         THEN /\ table' = DeleteHost(table, m)
              /\ IF Found(table, m) THEN Tell({m}, FALSE) ELSE UNCHANGED told
         ELSE UNCHANGED <<table, told>>
    /\ IF slot = last THEN at' = "clean" /\ slot' = 0 ELSE slot' = slot + 1 /\ UNCHANGED at
    /\ UNCHANGED <<hash, temp, todo, allGone, wanted, sync>>

\* Mutant: the loop ends one slot early.
Bug_SweepShort == SweepTo(Size - 2)

Sweep == SweepTo(Size - 1)

Clean ==
    /\ at = "clean"
    /\ temp' = NoHosts
    /\ at' = "poll"
    /\ UNCHANGED <<hash, table, todo, slot, allGone, told, wanted, sync>>

-----------------------------------------------------------------------------
(* CcspHalExtSw_SendNotificationForAllHosts, on the dispatcher's thread. *)

SyncStart ==
    /\ sync.at = "idle"
    /\ sync' = [at |-> "read", slot |-> 0, host |-> Free]
    /\ UNCHANGED <<hash, table, temp, monitor, told>>

SyncNext(i) == IF i + 1 = Size THEN NoSync ELSE [at |-> "read", slot |-> i + 1, host |-> Free]

\* The pointer in the slot is read, and then used by the callback.
SyncRead ==
    /\ sync.at = "read"
    /\ sync' = IF table[sync.slot] = Free THEN SyncNext(sync.slot)
               ELSE [sync EXCEPT !.at = "tell", !.host = table[sync.slot]]
    /\ UNCHANGED <<hash, table, temp, monitor, told>>

\* What the callback tells when it reads a host that has been freed: anything.
TellFalsely ==
    \/ \E m \in Macs, connected \in BOOLEAN :
         /\ view' = IF connected THEN view \cup {m} ELSE view \ {m}
         /\ untold' = untold \cup {m}
    \/ UNCHANGED told

\* The monitor may have freed the host meanwhile; one that it freed and put
\* back into the same slot counts as the same.
SyncTell ==
    /\ sync.at = "tell"
    /\ \/ table[sync.slot] = sync.host /\ Tell({sync.host}, TRUE)
       \/ table[sync.slot] # sync.host /\ TellFalsely
    /\ sync' = SyncNext(sync.slot)
    /\ UNCHANGED <<hash, table, temp, monitor>>

-----------------------------------------------------------------------------
Monitor ==
    \/ \E report \in SUBSET Macs : Poll(report)
    \/ PollNone
    \/ \E m \in Macs : InvalidHost(m) \/ ValidHost(m)
    \/ HostsDone \/ Sweep \/ Clean

Sync == SyncStart \/ SyncRead \/ SyncTell

Next == Monitor \/ Sync

Spec == Init /\ [][Next]_vars

-----------------------------------------------------------------------------
(* Properties. *)

TypeOK ==
    /\ hash \in [Macs -> Slots]
    /\ table \in [Slots -> Macs \cup {Free}] /\ temp \in [Slots -> Macs \cup {Free}]
    /\ at \in {"poll", "host", "sweep", "clean"}
    /\ todo \subseteq Macs /\ wanted \subseteq Macs
    /\ view \subseteq Macs /\ untold \subseteq Macs
    /\ slot \in Slots /\ allGone \in BOOLEAN
    /\ sync \in [at : {"idle", "read", "tell"}, slot : Slots, host : Macs \cup {Free}]

Apart == \A m, n \in Macs : hash[m] = hash[n] => m = n

\* If no two hosts share a hash: between two iterations LMLite's view is the set
\* of hosts that the last report held and that were valid, except where its last
\* notification was lost or came from a host that EthHost_Sync found freed; a
\* later notification repairs that.
ViewIsReport ==
    (Apart /\ at = "poll") =>
        /\ Hosts(table) = wanted
        /\ \A m \in Macs \ untold : m \in view <=> m \in wanted

\* Even when hosts share a hash: a host that the report holds and that is valid
\* is not told disconnected by the comparison of the two tables, unless there
\* are more such hosts than slots.
NoFalseDisconnect ==
    [][at = "sweep" /\ sync' = sync /\ Cardinality(wanted) <= Size =>
         \A m \in wanted \ untold' : m \in view => m \in view']_vars

\* However many hosts there are, and whatever their hashes: LMLite takes no host
\* for connected that the table has lost or never had room for, and that nobody
\* would ever tell it was gone.
NoneForgotten == view \ untold \subseteq Hosts(table)
=============================================================================
