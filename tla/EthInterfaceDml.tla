--------------------------- MODULE EthInterfaceDml ---------------------------
(***************************************************************************)
(* The table Device.Ethernet.Interface: the rows of the board layer        *)
(* (g_EthEntries, over switch ports and Linux devices), the objects the    *)
(* data model keeps over them (EthernetPortFullTable) with the values a    *)
(* client has set and not yet committed, and what survives a restart in    *)
(* syscfg and PSM.  An object is found from its row by its position, a row *)
(* from its object by the instance number.  Calls come one at a time on    *)
(* the dispatcher; reads may come between a set and its commit.            *)
(***************************************************************************)
EXTENDS Naturals, FiniteSets

CONSTANTS
    N,              \* interfaces, in the table of PSM and in the static one
    Wan,            \* the row of the WAN routing device, in both
    StaticLinux,    \* rows of the static table that are Linux devices
    StaticUp,       \* and those that are upstream by default
    Tables,         \* tables PSM may hold: which of the rows are Linux devices
    Chosen,         \* numbers of the aliases a client chooses
    MaxFaults       \* bound on failing calls of the HAL, of syscfg and of PSM

ASSUME NAssumption == N \in Nat \ {0} /\ Wan \in 1 .. N
ASSUME TablesAssumption == \A linux \in Tables \cup {StaticLinux} : linux \subseteq 1 .. N
ASSUME MaxFaultsAssumption == MaxFaults \in Nat
ASSUME ChosenAssumption == Chosen \subseteq Nat \ {0}

VARIABLES
    psm,        \* the interface table and the Upstream values in PSM
    syscfg,     \* the stored IDs, and Ethwan_Disable_Upstream
    dev,        \* admin states, the HAL's port of the one client, a VLAN over the
                \* WAN device
    rows,       \* g_EthEntries
    table,      \* EthernetPortFullTable
    touched,    \* objects the open call has set and not yet committed or rolled back
    phase,      \* of the call: "set", "commit" or "rollback"
    faults,     \* so far
    synced      \* history: the object the last step synchronized, or 0

vars == <<psm, syscfg, dev, rows, table, touched, phase, faults, synced>>

Rows == 1 .. N
Interface(n) == <<"Interface", n>>
NoAlias == <<"", 0>>
Aliases == {<<"chosen", n>> : n \in Chosen} \cup {Interface(n) : n \in Rows}
NoId == [inst |-> 0, alias |-> NoAlias]

NoFault == UNCHANGED faults
Fault == faults < MaxFaults /\ faults' = faults + 1

-----------------------------------------------------------------------------
(* The board layer                                                         *)

\* What is read at a start, each of which may fail.
Reads == {<<"table", 0>>} \cup ({"IsLinuxAPI", "ID", "Upstream"} \X Rows)

\* Without a table in PSM that can be read to its end, the static one is used.
TableRead(unread) == psm.use /\ <<"table", 0>> \notin unread

\* Rows of PSM are switch ports unless it says IsLinuxAPI TRUE.
loadInterfaceTable(unread) ==
    LET linux == IF TableRead(unread) THEN {i \in psm.linux : <<"IsLinuxAPI", i>> \notin unread}
                 ELSE StaticLinux
    IN  [i \in Rows |-> IF i \in linux THEN "linux" ELSE "switch"]

\* The switch ports are given out in the order of the rows.
HwId(control, i) == Cardinality({k \in 1 .. i : control[k] = "switch"})

Devices == ({"port"} \X Rows) \cup ({"linux"} \X Rows)
Device(r, i) == IF r[i].control = "switch" THEN <<"port", r[i].hwid>> ELSE <<"linux", i>>

\* The first row with the number, 0 if there is none.
getIF(inst) ==
    LET found == {i \in Rows : rows[i].inst = inst}
    IN  IF found = {} THEN 0 ELSE CHOOSE i \in found : \A j \in found : i <= j

\* A failing read of a switch port's admin state counts as enabled.
puma6_getSwitchCfg(r, i, c, fails) ==
    [c EXCEPT !.enabled = fails \/ dev.admin[Device(r, i)]]

getIfCfg(r, i, c) == [c EXCEPT !.enabled = dev.admin[Device(r, i)]]

getCfg(r, i, c, fails) ==
    IF r[i].control = "switch" THEN puma6_getSwitchCfg(r, i, c, fails) ELSE getIfCfg(r, i, c)

Reading(fails) == IF fails THEN Fault ELSE NoFault

\* Alias and number come from the row.
CosaDmlEthPortGetCfg(c, fails) ==
    LET i == getIF(c.inst)
    IN  IF i = 0 THEN c
        ELSE [getCfg(rows, i, c, fails) EXCEPT !.alias = rows[i].alias, !.inst = rows[i].inst]

\* The row of the WAN routing device goes by the switch of the feature; the
\* others by PSM, whose TRUE is taken over and whose FALSE does not clear what
\* the static table has.
StartUpstream(i, unread) ==
    LET read == <<"Upstream", i>> \notin unread
    IN  IF i = Wan THEN ~(read /\ syscfg.disableUpstream)
        ELSE (read /\ psm.up[i]) \/ (~TableRead(unread) /\ i \in StaticUp)

\* After the table is loaded, the stored IDs are taken over into the rows,
\* where they can be read.
CosaDmlEthInterfaceInit(unread) ==
    LET control == loadInterfaceTable(unread)
        id(i) == IF <<"ID", i>> \in unread THEN NoId ELSE syscfg.id[i]
    IN  [i \in Rows |-> [control |-> control[i], hwid |-> HwId(control, i),
                         inst |-> id(i).inst, alias |-> id(i).alias]]

-----------------------------------------------------------------------------
(* The start                                                               *)

\* A fresh object: its configuration from the device, and neither the number
\* nor the Alias of the row.
CosaDmlEthPortGetEntry(r, i, up) ==
    getCfg(r, i, [inst |-> 0, alias |-> NoAlias, enabled |-> FALSE, up |-> up,
                  listed |-> FALSE], FALSE)

\* MUTANT of CosaDmlEthPortSetValues: the row keeps the number it was loaded with.
Bug_RowKeepsNumber(row, entry) == [row EXCEPT !.alias = entry.alias]

\* The row takes the number and the Alias of its object.
CosaDmlEthPortSetValues(row, entry) ==
    [row EXCEPT !.inst = entry.inst, !.alias = entry.alias]

\* The number for the next object without one, after the first i objects.
NextNumbers(entries) ==
    LET next[i \in 0 .. N] ==
            IF i = 0 THEN 1
            ELSE IF entries[i].inst = 0 THEN next[i - 1] + 1 ELSE entries[i].inst + 1
    IN  next

\* Objects without a number are numbered and get the default Alias, which goes
\* into the row and is stored; a number that is there is left alone.
CosaEthInterfaceInitialize(r, entries) ==
    LET next == NextNumbers(entries)
        new(i) == entries[i].inst = 0
        full(i) == [entries[i] EXCEPT !.inst = next[i - 1], !.alias = Interface(next[i - 1])]
    IN  /\ table' = [i \in Rows |-> IF new(i) THEN full(i) ELSE entries[i]]
        /\ rows' = [i \in Rows |-> IF new(i) THEN CosaDmlEthPortSetValues(r[i], table'[i])
                                   ELSE r[i]]
        /\ syscfg' = [syscfg EXCEPT !.id = [i \in Rows |->
                         IF new(i) THEN [inst |-> table'[i].inst, alias |-> table'[i].alias]
                         ELSE @[i]]]

\* Devices keep their admin states over a restart of the agent.
Starts(unread) ==
    /\ \E r \in {CosaDmlEthInterfaceInit(unread)} :
       \E entries \in {[i \in Rows |-> CosaDmlEthPortGetEntry(r, i, StartUpstream(i, unread))]} :
          CosaEthInterfaceInitialize(r, entries)
    /\ touched' = {} /\ phase' = "set" /\ synced' = 0

Restart ==
    /\ \/ Starts({}) /\ NoFault
       \/ \E read \in Reads : Starts({read}) /\ Fault
    /\ UNCHANGED <<psm, dev>>

\* The first start of the agent on the device.
Init ==
    /\ \E linux \in Tables \cup {{}}, use \in BOOLEAN :
           /\ IF use THEN linux \in Tables ELSE linux = {}
           /\ psm = [use |-> use, linux |-> linux, up |-> [i \in Rows \ {Wan} |-> FALSE]]
    /\ dev = [admin |-> [d \in Devices |-> TRUE], client |-> 0, vlan |-> ~psm.use]
    /\ LET control == loadInterfaceTable({})
       IN  rows = [i \in Rows |-> [control |-> control[i], hwid |-> HwId(control, i),
                                   inst |-> i, alias |-> Interface(i)]]
    /\ syscfg = [disableUpstream |-> FALSE,
                 id |-> [i \in Rows |-> [inst |-> i, alias |-> Interface(i)]]]
    /\ table = [i \in Rows |-> [inst |-> i, alias |-> Interface(i), enabled |-> TRUE,
                                up |-> StartUpstream(i, {}), listed |-> FALSE]]
    /\ touched = {} /\ phase = "set" /\ faults = 0 /\ synced = 0

-----------------------------------------------------------------------------
(* Reading                                                                 *)

\* Enable is read from the device, and with it the Alias: what was set of this
\* object and not committed is gone.  MaxBitRate does the same.
Interface_GetParamBoolValue(i) ==
    /\ phase = "set"
    /\ \E fails \in BOOLEAN :
          /\ table' = [table EXCEPT ![i] = CosaDmlEthPortGetCfg(@, fails)]
          /\ Reading(fails)
    /\ synced' = 0 /\ UNCHANGED <<psm, syscfg, dev, rows, touched, phase>>

\* Status and bit rate are those of this device.
Interface_GetParamUlongValue(i) ==
    LET k == getIF(table[i].inst) IN IF k = 0 THEN <<"none", 0>> ELSE Device(rows, k)

\* Of the lines of /proc/net/dev that contain the name, the last one counts:
\* the line of a VLAN over the device, if there is one.
getIfStats2(i) == IF i = Wan /\ dev.vlan THEN <<"vlan", i>> ELSE <<"linux", i>>

puma6_getSwitchStats(i) == <<"port", rows[i].hwid>>

\* The counters are those of this device.
CosaDmlEthPortGetStats(inst) ==
    LET k == getIF(inst)
    IN  IF k = 0 THEN <<"none", 0>>
        ELSE IF rows[k].control = "linux" THEN getIfStats2(k) ELSE puma6_getSwitchStats(k)

Stats_GetParamUlongValue(i) == CosaDmlEthPortGetStats(table[i].inst)

\* MUTANT of ethGetClientsCount: the clients of every port are counted.
Bug_CountsAllPorts(inst) == dev.client # 0

\* Whether the client is on the HAL's port with this number: the number of the
\* object is compared, and not the port of its row.
ethGetClientsCount(inst) == dev.client = inst

\* The list of an object is looked for by its number and filled by its number;
\* when nobody is connected anywhere the lists stay as they are.
AssociatedDevice1_Synchronize(i) ==
    LET k == table[i].inst
    IN  /\ phase = "set"
        /\ \/ /\ table' = IF dev.client = 0 THEN table
                          ELSE [table EXCEPT ![k].listed = ethGetClientsCount(k)]
              /\ synced' = i /\ NoFault
           \/ Fault /\ synced' = 0 /\ UNCHANGED table
        /\ UNCHANGED <<psm, syscfg, dev, rows, touched, phase>>

AssociatedDevice1_GetEntryCount(i) == table[table[i].inst].listed

-----------------------------------------------------------------------------
(* Writing                                                                 *)

Sets(i, t) ==
    /\ phase = "set"
    /\ table' = t /\ touched' = touched \cup {i}
    /\ NoFault
    /\ synced' = 0 /\ UNCHANGED <<psm, syscfg, dev, rows, phase>>

Interface_SetEnable(i) ==
    \E v \in BOOLEAN : Sets(i, [table EXCEPT ![i].enabled = v])

Interface_SetAlias(i) ==
    \E a \in Aliases : Sets(i, [table EXCEPT ![i].alias = a])

\* MUTANT of StoreUpstream: the number is taken for an index.
Bug_NumberAsIndex(inst, v) ==
    [psm EXCEPT !.up = [i \in Rows \ {Wan} |-> IF i = inst + 1 THEN v ELSE @[i]]]

\* What is stored for the row of the WAN routing device is never read.
StoreUpstream(inst, v) ==
    [psm EXCEPT !.up = [i \in Rows \ {Wan} |-> IF i = inst THEN v ELSE @[i]]]

\* Upstream is not committed but done at once: by the HAL, then in syscfg, for
\* the feature as a whole, then in PSM under the object's number.  The object
\* keeps the value whatever fails, and the set succeeds.  A failing HAL or
\* syscfg ends it there; nobody looks whether PSM took the value.
Interface_SetUpstream(i) ==
    \E v \in BOOLEAN :
        /\ phase = "set"
        /\ table' = [table EXCEPT ![i].up = v]
        /\ \/ /\ syscfg' = [syscfg EXCEPT !.disableUpstream = ~v]
              /\ \/ psm' = StoreUpstream(table[i].inst, v) /\ NoFault
                 \/ Fault /\ UNCHANGED psm
           \/ Fault /\ UNCHANGED <<psm, syscfg>>
        /\ synced' = 0 /\ UNCHANGED <<dev, rows, touched, phase>>

\* MUTANT of Interface_Validate: only the objects behind this one are compared.
Bug_ComparesLaterOnly(i) == \A j \in Rows : j > i => table[j].alias # table[i].alias

\* The Alias differs from those of all other objects.
Interface_Validate(i) == \A j \in Rows \ {i} : table[j].alias # table[i].alias

\* Only the admin state goes to the device, and nobody looks whether it does.
puma6_setSwitchCfg(d, i, c) == [d EXCEPT !.admin[Device(rows, i)] = c.enabled]

\* What a commit makes of a row: a new Alias is taken over.
CosaDmlEthPortSetCfg(i, c) == [rows[i] EXCEPT !.alias = c.alias]

\* Alias and number are stored when the Alias changed.
saveID(i, c) ==
    IF c.alias = rows[i].alias THEN syscfg
    ELSE [syscfg EXCEPT !.id[i] = [inst |-> c.inst, alias |-> c.alias]]

\* The sets of a call are over: its objects are committed if all are valid,
\* and rolled back otherwise or when another part of the call was refused.
EndSets ==
    /\ phase = "set" /\ touched # {}
    /\ \/ phase' = "rollback"
       \/ phase' = "commit" /\ \A i \in touched : Interface_Validate(i)
    /\ NoFault
    /\ synced' = 0 /\ UNCHANGED <<psm, syscfg, dev, rows, table, touched>>

Finished(i) ==
    /\ touched' = touched \ {i}
    /\ phase' = IF touched' = {} THEN "set" ELSE phase

Interface_Commit(i) ==
    LET c == table[i]
        k == getIF(c.inst)
    IN  /\ phase = "commit" /\ i \in touched /\ Finished(i)
        /\ IF k = 0 THEN NoFault /\ UNCHANGED <<syscfg, dev, rows>>
           ELSE \E fails \in {"none", "write", "save"} :
                   /\ Reading(fails # "none")
                   /\ rows' = [rows EXCEPT ![k] = CosaDmlEthPortSetCfg(k, c)]
                   /\ dev' = IF fails = "write" THEN dev ELSE puma6_setSwitchCfg(dev, k, c)
                   /\ syscfg' = IF fails = "save" THEN syscfg ELSE saveID(k, c)
        /\ synced' = 0 /\ UNCHANGED <<psm, table>>

Interface_Rollback(i) ==
    /\ phase = "rollback" /\ i \in touched /\ Finished(i)
    /\ \E fails \in BOOLEAN :
          table' = [table EXCEPT ![i] = CosaDmlEthPortGetCfg(@, fails)] /\ Reading(fails)
    /\ synced' = 0 /\ UNCHANGED <<psm, syscfg, dev, rows>>

-----------------------------------------------------------------------------
\* The client is plugged in, pulled out or moved.
ClientMoves ==
    /\ \E p \in {0} \cup Rows : dev' = [dev EXCEPT !.client = p]
    /\ synced' = 0
    /\ UNCHANGED <<psm, syscfg, rows, table, touched, phase, faults>>

Next ==
    \/ \E i \in Rows :
          \/ Interface_GetParamBoolValue(i) \/ AssociatedDevice1_Synchronize(i)
          \/ Interface_SetEnable(i) \/ Interface_SetAlias(i) \/ Interface_SetUpstream(i)
          \/ Interface_Commit(i) \/ Interface_Rollback(i)
    \/ EndSets
    \/ Restart
    \/ ClientMoves

Spec == Init /\ [][Next]_vars

-----------------------------------------------------------------------------
(* Properties                                                              *)

RowType == [control : {"switch", "linux"}, hwid : 0 .. N, inst : 0 .. N,
            alias : Aliases \cup {NoAlias}]
ObjectType == [inst : Rows, alias : Aliases, enabled : BOOLEAN, up : BOOLEAN, listed : BOOLEAN]

TypeOK ==
    /\ psm \in [use : BOOLEAN, linux : SUBSET Rows, up : [Rows \ {Wan} -> BOOLEAN]]
    /\ syscfg \in [disableUpstream : BOOLEAN, id : [Rows -> [inst : Rows, alias : Aliases]]]
    /\ dev \in [admin : [Devices -> BOOLEAN], client : 0 .. N, vlan : BOOLEAN]
    /\ rows \in [Rows -> RowType]
    /\ table \in [Rows -> ObjectType]
    /\ touched \subseteq Rows /\ phase \in {"set", "commit", "rollback"}
    /\ faults \in 0 .. MaxFaults
    /\ synced \in 0 .. N

\* Status and counters of an object are those of the device of its own row,
\* whatever IDs were stored, lost or taken over and whichever table a restart
\* could read: numbers and positions stay in step, and no two rows have one
\* device.  Only the WAN routing device answers with the counters of a VLAN
\* over it, whose line in /proc/net/dev contains its name.
AnswersAreOwn ==
    \A i \in Rows :
        /\ Interface_GetParamUlongValue(i) = Device(rows, i)
        /\ Stats_GetParamUlongValue(i) = Device(rows, i) \/ (i = Wan /\ dev.vlan)
        /\ \A j \in Rows \ {i} : Device(rows, j) # Device(rows, i)

\* No two interfaces have one alias once a call is over, whatever was set,
\* refused, re-read in the middle or rolled back, and the rows have the aliases
\* of the objects.
AliasesUnique ==
    touched = {} =>
        \A i \in Rows : /\ rows[i].alias = table[i].alias
                        /\ \A j \in Rows \ {i} : table[j].alias # table[i].alias

\* A row of the static table that is upstream whatever is stored for it.
UpAnyway(i) == ~psm.use /\ i \in StaticUp

\* The Upstream of an interface only changes to what is stored for it, by a set
\* as by a restart that can read it.  Rows that are upstream in the static
\* table come back as such, even where FALSE was stored; the WAN routing device
\* shares its Upstream with the feature.
UpstreamKept ==
    [][\A i \in Rows \ {Wan} : faults' = 0 /\ table'[i].up # table[i].up =>
            psm'.up[i] = table'[i].up \/ (table'[i].up /\ UpAnyway(i))]_vars

\* Where the device of an interface is the HAL's port of the same number, its
\* list holds the clients of that port after AssociatedDevice1_Synchronize;
\* only when the last client of all interfaces has gone it does not.  It is so
\* for all switch ports that no Linux device precedes in the table; behind one,
\* the clients of another port are listed.
ClientsInSync ==
    synced # 0 /\ dev.client # 0 /\ Device(rows, synced) = <<"port", synced>> =>
        AssociatedDevice1_GetEntryCount(synced) = (Device(rows, synced) = <<"port", dev.client>>)
=============================================================================
