------------------------- MODULE EthDataModel_proofs -------------------------
(***************************************************************************)
(* What the data model keeps: the objects of Device.Ethernet.Interface, of *)
(* EthInterfaceDml, for any number of rows and any interface table, and    *)
(* the log settings, of EthTelemetry, for any periods.                     *)
(*                                                                         *)
(* Objects are found from rows by position and rows from objects by the    *)
(* instance number.  All the proofs about them rest on one invariant, Inv: *)
(* the two agree, the ports were given out in the order of the rows, and   *)
(* no row has an alias that is not one.  That the numbers agree at start   *)
(* is a fact about the recursive function NextNumbers, shown with the      *)
(* least position at which it would fail.                                  *)
(***************************************************************************)
EXTENDS EthInterfaceDml, EthTelemetry, FiniteSetTheorems, WellFoundedInduction, TLAPS

-----------------------------------------------------------------------------
(* Numbers and devices *)

\* A set of numbers that is not empty has a least one.
LEMMA LeastNumber ==
    ASSUME NEW S \in SUBSET Nat, S # {}
    PROVE  \E k \in S : \A j \in S : k <= j
<1> DEFINE Less == {ss \in Nat \X Nat : ss[1] < ss[2]}
<1>1. OpToRel(<, Nat) = Less
  BY Zenon DEF OpToRel
<1>2. IsWellFoundedOn(Less, Nat)
  BY <1>1, NatLessThanWellFounded
<1>3. PICK k \in S : \A j \in S : ~ (<<j, k>> \in Less)
  <2> HIDE DEF Less
  <2> QED BY <1>2, WFMin
<1>4. ASSUME NEW j \in S PROVE k <= j
  <2>1. <<j, k>> \in Nat \X Nat /\ <<j, k>>[1] = j /\ <<j, k>>[2] = k
    OBVIOUS
  <2> QED BY <1>3, <2>1
<1> QED BY <1>4

\* Objects without a number are numbered by their positions.
LEMMA NumberedInOrder ==
    ASSUME NEW entries, \A i \in Rows : entries[i].inst = 0
    PROVE  \A i \in 0 .. N : NextNumbers(entries)[i] = i + 1
<1> DEFINE G(g) == [i \in 0 .. N |-> IF i = 0 THEN 1
                        ELSE IF entries[i].inst = 0 THEN g[i - 1] + 1 ELSE entries[i].inst + 1]
           next == NextNumbers(entries)
           Wrong == {i \in 0 .. N : next[i] # i + 1}
<1>1. next = CHOOSE g : g = G(g)
  BY DEF NextNumbers
<1>2. G([i \in 0 .. N |-> i + 1]) = [i \in 0 .. N |-> i + 1]
  BY NAssumption DEF Rows
<1>3. next = G(next)
  <2> HIDE DEF G
  <2> QED BY <1>1, <1>2
<1>4. \A i \in 0 .. N : next[i] = IF i = 0 THEN 1 ELSE next[i - 1] + 1
  <2> HIDE DEF next
  <2> QED BY <1>3, NAssumption DEF Rows
<1> HIDE DEF next
<1>5. Wrong = {}
  <2> SUFFICES ASSUME Wrong # {} PROVE FALSE
    OBVIOUS
  <2>1. PICK i \in Wrong : \A j \in Wrong : i <= j
    <3>1. Wrong \in SUBSET Nat
      BY NAssumption
    <3> HIDE DEF Wrong
    <3> QED BY <3>1, LeastNumber
  <2>2. i # 0 /\ i - 1 \in 0 .. N /\ next[i - 1] # i - 1 + 1
    BY <1>4, NAssumption
  <2> QED BY <2>1, <2>2, NAssumption
<1> QED BY <1>5 DEF next

\* The ports up to a row, and how many they are.
Ports(control, i) == {k \in 1 .. i : control[k] = "switch"}

LEMMA PortsCounted ==
    ASSUME NEW control, NEW i \in Rows
    PROVE  /\ IsFiniteSet(Ports(control, i)) /\ HwId(control, i) \in 0 .. N
           /\ control[i] = "switch" => HwId(control, i) \in Rows
<1>1. IsFiniteSet(1 .. i) /\ Cardinality(1 .. i) = i /\ Ports(control, i) \in SUBSET (1 .. i)
  BY NAssumption, FS_Interval DEF Rows, Ports
<1>2. IsFiniteSet(Ports(control, i)) /\ HwId(control, i) <= i /\ HwId(control, i) \in Nat
  BY <1>1, FS_Subset, FS_CardinalityType DEF Ports, HwId
<1>3. control[i] = "switch" => HwId(control, i) # 0
  <2>1. control[i] = "switch" => i \in Ports(control, i)
    BY NAssumption DEF Ports, Rows
  <2> QED BY <1>2, <2>1, FS_EmptySet DEF HwId, Ports
<1> QED BY <1>2, <1>3, NAssumption DEF Rows

\* A later port has a later number.
LEMMA PortsGrow ==
    ASSUME NEW control, NEW i \in Rows, NEW j \in Rows, i < j, control[j] = "switch"
    PROVE  HwId(control, i) < HwId(control, j)
<1>1. /\ Ports(control, i) \in SUBSET Ports(control, j)
      /\ j \in Ports(control, j) /\ j \notin Ports(control, i)
  BY NAssumption DEF Ports, Rows
<1>2. /\ Cardinality(Ports(control, i)) <= Cardinality(Ports(control, j))
      /\ Cardinality(Ports(control, i)) # Cardinality(Ports(control, j))
  BY <1>1, PortsCounted, FS_Subset
<1>3. HwId(control, i) = Cardinality(Ports(control, i))
      /\ HwId(control, j) = Cardinality(Ports(control, j))
  BY DEF HwId, Ports
<1>4. HwId(control, i) \in Nat /\ HwId(control, j) \in Nat
  BY PortsCounted, NAssumption
<1> QED BY <1>2, <1>3, <1>4

\* Rows whose ports are given out in order have a device each.
Numbers(r) == \A i \in Rows : r[i].inst = i
Cabled(r, control) ==
    \A i \in Rows : r[i].control = control[i] /\ r[i].hwid = HwId(control, i)
Control == [i \in Rows |-> rows[i].control]

LEMMA OwnDevice ==
    ASSUME NEW r, NEW control, Cabled(r, control)
    PROVE  /\ \A i \in Rows : Device(r, i) \in Devices
           /\ \A i, j \in Rows : Device(r, i) = Device(r, j) => i = j
<1>1. ASSUME NEW i \in Rows PROVE Device(r, i) \in Devices
  BY PortsCounted DEF Cabled, Device, Devices
<1>2. ASSUME NEW i \in Rows, NEW j \in Rows, i < j, Device(r, i) = Device(r, j) PROVE FALSE
  <2>1. CASE control[j] = "switch" /\ control[i] = "switch"
    <3>1. HwId(control, i) < HwId(control, j)
      BY <1>2, <2>1, PortsGrow
    <3>2. HwId(control, i) = HwId(control, j) /\ HwId(control, i) \in 0 .. N
      BY <1>2, <2>1, PortsCounted DEF Cabled, Device
    <3> QED BY <3>1, <3>2, NAssumption
  <2>2. CASE ~ (control[j] = "switch" /\ control[i] = "switch")
    <3>1. /\ Device(r, i)[1] = (IF control[i] = "switch" THEN "port" ELSE "linux")
          /\ Device(r, j)[1] = (IF control[j] = "switch" THEN "port" ELSE "linux")
          /\ control[i] # "switch" => Device(r, i)[2] = i
          /\ control[j] # "switch" => Device(r, j)[2] = j
      BY DEF Cabled, Device
    <3>2. i # j
      BY <1>2, NAssumption DEF Rows
    <3> QED BY <1>2, <2>2, <3>1, <3>2
  <2> QED BY <2>1, <2>2
<1> QED
  <2>1. \A i, j \in Rows : i = j \/ i < j \/ j < i
    BY NAssumption DEF Rows
  <2> QED BY <1>1, <1>2, <2>1

\* A row is found by its number.
LEMMA RowFound ==
    ASSUME Numbers(rows), NEW i \in Rows
    PROVE  getIF(i) = i
<1>1. {k \in Rows : rows[k].inst = i} = {i}
  BY DEF Numbers
<1>2. i # 0 /\ i <= i
  BY NAssumption DEF Rows
<1> QED BY <1>1, <1>2 DEF getIF

\* Interfaces have default aliases of their own.
LEMMA DefaultAliases ==
    /\ \A i \in Rows : Interface(i) \in Aliases
    /\ \A i, j \in Rows : Interface(i) = Interface(j) => i = j
<1>1. \A i, j \in Rows : Interface(i)[2] = i /\ Interface(j)[2] = j
  BY DEF Interface
<1> QED BY <1>1 DEF Aliases

-----------------------------------------------------------------------------
(* Types, numbers and cables *)

\* TypeOK is not inductive: an object can only be refreshed to something of its
\* type when its number leads to a row, which is then its own, and that row has an
\* alias.
Numbered ==
    /\ Numbers(rows)
    /\ \A i \in Rows : table[i].inst = i /\ syscfg.id[i].inst = i
RowsNamed == \A i \in Rows : rows[i].alias \in Aliases

Inv == TypeOK /\ Numbered /\ Cabled(rows, Control) /\ RowsNamed

\* A set changes one field of one object.
LEMMA EnabledSet ==
    ASSUME NEW t \in [Rows -> ObjectType], NEW i \in Rows, NEW v \in BOOLEAN,
           NEW u, u = [t EXCEPT ![i].enabled = v]
    PROVE  /\ u \in [Rows -> ObjectType]
           /\ \A j \in Rows : u[j].inst = t[j].inst /\ u[j].up = t[j].up /\ u[j].alias = t[j].alias
<1> DEFINE c == [t[i] EXCEPT !.enabled = v]
<1>1. t[i] \in ObjectType
  OBVIOUS
<1>2. c \in ObjectType /\ c.inst = t[i].inst /\ c.up = t[i].up /\ c.alias = t[i].alias
  BY <1>1 DEF ObjectType
<1>3. u = [j \in Rows |-> IF j = i THEN c ELSE t[j]]
  OBVIOUS
<1> HIDE DEF c
<1> QED BY <1>2, <1>3

LEMMA ListedSet ==
    ASSUME NEW t \in [Rows -> ObjectType], NEW i \in Rows, NEW v \in BOOLEAN,
           NEW u, u = [t EXCEPT ![i].listed = v]
    PROVE  /\ u \in [Rows -> ObjectType] /\ u[i].listed = v
           /\ \A j \in Rows : u[j].inst = t[j].inst /\ u[j].up = t[j].up /\ u[j].alias = t[j].alias
<1> DEFINE c == [t[i] EXCEPT !.listed = v]
<1>1. t[i] \in ObjectType
  OBVIOUS
<1>2. /\ c \in ObjectType /\ c.inst = t[i].inst /\ c.up = t[i].up
      /\ c.alias = t[i].alias /\ c.listed = v
  BY <1>1 DEF ObjectType
<1>3. u = [j \in Rows |-> IF j = i THEN c ELSE t[j]]
  OBVIOUS
<1> HIDE DEF c
<1> QED BY <1>2, <1>3

LEMMA UpSet ==
    ASSUME NEW t \in [Rows -> ObjectType], NEW i \in Rows, NEW v \in BOOLEAN,
           NEW u, u = [t EXCEPT ![i].up = v]
    PROVE  /\ u \in [Rows -> ObjectType]
           /\ \A j \in Rows : u[j].inst = t[j].inst /\ u[j].alias = t[j].alias
                           /\ u[j].up = IF j = i THEN v ELSE t[j].up
<1> DEFINE c == [t[i] EXCEPT !.up = v]
<1>1. t[i] \in ObjectType
  OBVIOUS
<1>2. c \in ObjectType /\ c.inst = t[i].inst /\ c.up = v /\ c.alias = t[i].alias
  BY <1>1 DEF ObjectType
<1>3. u = [j \in Rows |-> IF j = i THEN c ELSE t[j]]
  OBVIOUS
<1> HIDE DEF c
<1> QED BY <1>2, <1>3

LEMMA AliasSet ==
    ASSUME NEW t \in [Rows -> ObjectType], NEW i \in Rows, NEW v \in Aliases,
           NEW u, u = [t EXCEPT ![i].alias = v]
    PROVE  /\ u \in [Rows -> ObjectType]
           /\ \A j \in Rows : u[j].inst = t[j].inst /\ u[j].up = t[j].up
                           /\ (j # i => u[j].alias = t[j].alias)
<1> DEFINE c == [t[i] EXCEPT !.alias = v]
<1>1. t[i] \in ObjectType
  OBVIOUS
<1>2. c \in ObjectType /\ c.inst = t[i].inst /\ c.up = t[i].up /\ c.alias = v
  BY <1>1 DEF ObjectType
<1>3. u = [j \in Rows |-> IF j = i THEN c ELSE t[j]]
  OBVIOUS
<1> HIDE DEF c
<1> QED BY <1>2, <1>3

\* A refreshed object has the alias of its row, and what is not the device's is
\* what it was.
LEMMA Refreshed ==
    ASSUME Inv, NEW i \in Rows, NEW fails \in BOOLEAN
    PROVE  LET c == CosaDmlEthPortGetCfg(table[i], fails)
           IN  /\ c \in ObjectType /\ c.inst = i /\ c.alias = rows[i].alias
               /\ c.up = table[i].up /\ c.listed = table[i].listed
<1>1. getIF(table[i].inst) = i /\ i # 0
  BY RowFound, NAssumption DEF Inv, Numbered, Rows
<1>2. dev.admin[Device(rows, i)] \in BOOLEAN
  BY OwnDevice DEF Inv, TypeOK
<1>3. table[i] \in ObjectType /\ rows[i].alias \in Aliases /\ rows[i].inst = i
  BY DEF Inv, TypeOK, Numbered, Numbers, RowsNamed
<1>4. PICK b \in BOOLEAN : getCfg(rows, i, table[i], fails) = [table[i] EXCEPT !.enabled = b]
  BY <1>2, <1>3 DEF getCfg, puma6_getSwitchCfg, getIfCfg
<1> QED
  BY <1>1, <1>3, <1>4 DEF CosaDmlEthPortGetCfg, ObjectType

\* A start gives every interface its number and its default alias, whatever was
\* stored or could not be read, and gives out the ports in the order of the rows.
LEMMA Started ==
    ASSUME Inv, NEW unread \in SUBSET Reads, Starts(unread), UNCHANGED <<psm, dev>>
    PROVE  /\ rows' \in [Rows -> RowType] /\ table' \in [Rows -> ObjectType]
           /\ syscfg' \in [disableUpstream : BOOLEAN,
                           id : [Rows -> [inst : Rows, alias : Aliases]]]
           /\ syscfg'.disableUpstream = syscfg.disableUpstream
           /\ Cabled(rows', Control') /\ Numbers(rows')
           /\ \A i \in Rows :
                 /\ table'[i].inst = i /\ syscfg'.id[i].inst = i
                 /\ rows'[i].alias = Interface(i) /\ table'[i].alias = Interface(i)
                 /\ table'[i].up = StartUpstream(i, unread)
<1> DEFINE r == CosaDmlEthInterfaceInit(unread)
           control == loadInterfaceTable(unread)
           entries == [i \in Rows |-> CosaDmlEthPortGetEntry(r, i, StartUpstream(i, unread))]
           id == [i \in Rows |-> IF <<"ID", i>> \in unread THEN NoId ELSE syscfg.id[i]]
<1>1. CosaEthInterfaceInitialize(r, entries)
  BY DEF Starts
<1>2. /\ r \in [Rows -> [control : {"switch", "linux"}, hwid : 0 .. N, inst : 0 .. N,
                         alias : Aliases \cup {NoAlias}]]
      /\ Cabled(r, control)
  <2>1. r = [i \in Rows |->
               [control |-> control[i], hwid |-> HwId(control, i), inst |-> id[i].inst,
                alias |-> id[i].alias]]
    BY DEF CosaDmlEthInterfaceInit
  <2>2. \A i \in Rows : control[i] \in {"switch", "linux"} /\ HwId(control, i) \in 0 .. N
    BY PortsCounted DEF loadInterfaceTable
  <2>3. \A i \in Rows : id[i].inst \in 0 .. N /\ id[i].alias \in Aliases \cup {NoAlias}
    <3>1. ASSUME NEW i \in Rows
          PROVE  syscfg.id[i].inst \in Rows /\ syscfg.id[i].alias \in Aliases
      BY DEF Inv, TypeOK
    <3>2. \A i \in Rows : id[i] = NoId \/ id[i] = syscfg.id[i]
      OBVIOUS
    <3>3. NoId.inst = 0 /\ NoId.alias = NoAlias
      BY DEF NoId
    <3> HIDE DEF id
    <3> QED BY <3>1, <3>2, <3>3, NAssumption DEF Rows
  <2> HIDE DEF r, control, id
  <2> QED BY <2>1, <2>2, <2>3 DEF Cabled
<1> HIDE DEF r
<1>3. \A i \in Rows :
         /\ entries[i].inst = 0 /\ entries[i].alias = NoAlias
         /\ entries[i] \in [inst : {0}, alias : {NoAlias}, enabled : BOOLEAN,
                            up : BOOLEAN, listed : BOOLEAN]
         /\ entries[i].up = StartUpstream(i, unread)
  <2> SUFFICES ASSUME NEW i \in Rows
               PROVE  /\ entries[i].inst = 0 /\ entries[i].alias = NoAlias
                      /\ entries[i] \in [inst : {0}, alias : {NoAlias}, enabled : BOOLEAN,
                                         up : BOOLEAN, listed : BOOLEAN]
                      /\ entries[i].up = StartUpstream(i, unread)
    OBVIOUS
  <2>1. dev.admin[Device(r, i)] \in BOOLEAN
    BY <1>2, OwnDevice DEF Inv, TypeOK
  <2> DEFINE up == StartUpstream(i, unread)
  <2>2. up \in BOOLEAN
    BY DEF StartUpstream, Inv, TypeOK
  <2>3. entries[i] = [inst |-> 0, alias |-> NoAlias, enabled |-> dev.admin[Device(r, i)],
                      up |-> up, listed |-> FALSE]
    <3> DEFINE fresh == [inst |-> 0, alias |-> NoAlias, enabled |-> FALSE, up |-> up,
                         listed |-> FALSE]
    <3>1. entries[i] = getCfg(r, i, fresh, FALSE)
      BY DEF CosaDmlEthPortGetEntry
    <3>2. getCfg(r, i, fresh, FALSE) = [fresh EXCEPT !.enabled = dev.admin[Device(r, i)]]
      <4> HIDE DEF fresh
      <4> QED BY <2>1 DEF getCfg, puma6_getSwitchCfg, getIfCfg
    <3> HIDE DEF up
    <3> QED BY <3>1, <3>2
  <2> HIDE DEF entries, up
  <2> QED BY <2>1, <2>2, <2>3 DEF up
<1> HIDE DEF entries
<1>4. \A i \in Rows : NextNumbers(entries)[i - 1] = i
  <2>1. \A i \in Rows : i - 1 \in 0 .. N /\ i - 1 + 1 = i
    BY NAssumption DEF Rows
  <2> QED BY <1>3, <2>1, NumberedInOrder
<1>5. /\ table' = [i \in Rows |-> [entries[i] EXCEPT !.inst = i, !.alias = Interface(i)]]
      /\ rows' = [i \in Rows |-> [r[i] EXCEPT !.inst = i, !.alias = Interface(i)]]
      /\ syscfg' = [syscfg EXCEPT !.id = [i \in Rows |-> [inst |-> i, alias |-> Interface(i)]]]
  <2>1. table' = [i \in Rows |-> [entries[i] EXCEPT !.inst = i, !.alias = Interface(i)]]
    <3> DEFINE Given(i) == [entries[i] EXCEPT !.inst = NextNumbers(entries)[i - 1],
                                        !.alias = Interface(NextNumbers(entries)[i - 1])]
               Full(i) == [entries[i] EXCEPT !.inst = i, !.alias = Interface(i)]
    <3>1. \A i \in Rows : entries[i].inst = 0 /\ Given(i) = Full(i)
      BY <1>3, <1>4
    <3>2. table' = [i \in Rows |-> IF entries[i].inst = 0 THEN Given(i) ELSE entries[i]]
      BY <1>1 DEF CosaEthInterfaceInitialize
    <3> HIDE DEF Given, Full
    <3>3. table' = [i \in Rows |-> Full(i)]
      BY <3>1, <3>2
    <3> QED BY <3>3 DEF Full
  <2>2. \A i \in Rows : table'[i].inst = i /\ table'[i].alias = Interface(i)
    BY <1>3, <2>1
  <2>3. rows' = [i \in Rows |-> [r[i] EXCEPT !.inst = i, !.alias = Interface(i)]]
    <3> DEFINE Given(i) == CosaDmlEthPortSetValues(r[i], table'[i])
               Full(i) == [r[i] EXCEPT !.inst = i, !.alias = Interface(i)]
    <3>1. \A i \in Rows : entries[i].inst = 0 /\ Given(i) = Full(i)
      BY <1>3, <2>2 DEF CosaDmlEthPortSetValues
    <3>2. rows' = [i \in Rows |-> IF entries[i].inst = 0 THEN Given(i) ELSE r[i]]
      BY <1>1 DEF CosaEthInterfaceInitialize
    <3> HIDE DEF Given, Full
    <3>3. rows' = [i \in Rows |-> Full(i)]
      BY <3>1, <3>2
    <3> QED BY <3>3 DEF Full
  <2>4. syscfg' = [syscfg EXCEPT !.id = [i \in Rows |-> [inst |-> i, alias |-> Interface(i)]]]
    BY <1>1, <1>3, <2>2 DEF CosaEthInterfaceInitialize
  <2> QED BY <2>1, <2>3, <2>4
<1>6. /\ table' \in [Rows -> ObjectType]
      /\ \A i \in Rows : /\ table'[i].inst = i /\ table'[i].alias = Interface(i)
                         /\ table'[i].up = StartUpstream(i, unread)
  <2>1. ASSUME NEW i \in Rows
        PROVE  /\ table'[i] \in ObjectType
               /\ table'[i].inst = i /\ table'[i].alias = Interface(i)
               /\ table'[i].up = StartUpstream(i, unread)
    <3>1. /\ table'[i] = [entries[i] EXCEPT !.inst = i, !.alias = Interface(i)]
          /\ entries[i] \in [inst : {0}, alias : {NoAlias}, enabled : BOOLEAN,
                             up : BOOLEAN, listed : BOOLEAN]
          /\ entries[i].up = StartUpstream(i, unread)
          /\ Interface(i) \in Aliases
      BY <1>3, <1>5, DefaultAliases
    <3> QED BY <3>1 DEF ObjectType
  <2> QED BY <1>5, <2>1
<1>7. /\ rows' \in [Rows -> RowType] /\ Cabled(rows', Control') /\ Numbers(rows')
      /\ \A i \in Rows : rows'[i].alias = Interface(i)
  <2>1. Rows \subseteq 0 .. N
    BY NAssumption DEF Rows
  <2>2. \A i \in Rows :
          /\ rows'[i].inst = i /\ rows'[i].alias = Interface(i)
          /\ rows'[i].control = r[i].control /\ rows'[i].hwid = r[i].hwid
    BY <1>2, <1>5
  <2>3. rows' \in [Rows -> RowType]
    <3>1. ASSUME NEW i \in Rows
          PROVE  [r[i] EXCEPT !.inst = i, !.alias = Interface(i)] \in RowType
      <4>1. r[i] \in RowType
        BY <1>2 DEF RowType
      <4>2. i \in 0 .. N /\ Interface(i) \in Aliases \cup {NoAlias}
        BY <2>1, DefaultAliases
      <4> HIDE DEF entries
      <4> QED BY <4>1, <4>2 DEF RowType
    <3> QED BY <1>5, <3>1
  <2>4. Control' = control
    <3>1. \A i \in Rows : rows'[i].control = control[i]
      <4> HIDE DEF control
      <4> QED BY <1>2, <2>2 DEF Cabled
    <3>2. control = [i \in Rows |-> control[i]]
      BY DEF loadInterfaceTable
    <3> HIDE DEF control
    <3> QED BY <3>1, <3>2 DEF Control
  <2>5. Cabled(rows', control) /\ Numbers(rows')
    <3> HIDE DEF control
    <3> QED BY <1>2, <2>2 DEF Cabled, Numbers
  <2> QED
    BY <2>2, <2>3, <2>4, <2>5
<1>8. /\ syscfg' \in [disableUpstream : BOOLEAN, id : [Rows -> [inst : Rows, alias : Aliases]]]
      /\ syscfg'.disableUpstream = syscfg.disableUpstream
      /\ \A i \in Rows : syscfg'.id[i].inst = i
  BY <1>5, DefaultAliases DEF Inv, TypeOK
<1> QED BY <1>2, <1>6, <1>7, <1>8

\* A commit writes its own row, its own device and its own stored number.
LEMMA Committed ==
    ASSUME Inv, NEW i \in Rows, Interface_Commit(i)
    PROVE  /\ rows' \in [Rows -> RowType]
           /\ \A j \in Rows :
                 /\ rows'[j].inst = rows[j].inst
                 /\ rows'[j].control = rows[j].control /\ rows'[j].hwid = rows[j].hwid
                 /\ rows'[j].alias = (IF j = i THEN table[i].alias ELSE rows[j].alias)
           /\ \/ dev' = dev
              \/ dev' = [dev EXCEPT !.admin[Device(rows, i)] = table[i].enabled]
           /\ \/ syscfg' = syscfg
              \/ syscfg' = [syscfg EXCEPT !.id[i] = [inst |-> i, alias |-> table[i].alias]]
           /\ faults' \in {faults, faults + 1} /\ faults' \in 0 .. MaxFaults
<1>1. getIF(table[i].inst) = i /\ table[i].inst = i /\ i # 0
  BY RowFound, NAssumption DEF Inv, Numbered, Rows
<1>2. PICK fails \in {"none", "write", "save"} :
         /\ Reading(fails # "none")
         /\ rows' = [rows EXCEPT ![i] = CosaDmlEthPortSetCfg(i, table[i])]
         /\ dev' = IF fails = "write" THEN dev ELSE puma6_setSwitchCfg(dev, i, table[i])
         /\ syscfg' = IF fails = "save" THEN syscfg ELSE saveID(i, table[i])
  BY <1>1 DEF Interface_Commit
<1>3. faults' \in {faults, faults + 1} /\ faults' \in 0 .. MaxFaults
  BY <1>2, MaxFaultsAssumption DEF Reading, Fault, NoFault, Inv, TypeOK
<1>4. rows \in [Rows -> RowType] /\ table[i].alias \in Aliases
  BY DEF Inv, TypeOK, ObjectType
<1>5. /\ rows' \in [Rows -> RowType]
      /\ \A j \in Rows :
            /\ rows'[j].inst = rows[j].inst
            /\ rows'[j].control = rows[j].control /\ rows'[j].hwid = rows[j].hwid
            /\ rows'[j].alias = (IF j = i THEN table[i].alias ELSE rows[j].alias)
  <2> DEFINE c == CosaDmlEthPortSetCfg(i, table[i])
  <2>1. /\ c \in RowType /\ c.inst = rows[i].inst /\ c.control = rows[i].control
        /\ c.hwid = rows[i].hwid /\ c.alias = table[i].alias
    BY <1>4 DEF CosaDmlEthPortSetCfg, RowType
  <2>2. rows' = [j \in Rows |-> IF j = i THEN c ELSE rows[j]]
    <3> HIDE DEF c
    <3> QED BY <1>2, <1>4 DEF c
  <2> HIDE DEF c
  <2> QED BY <1>4, <2>1, <2>2
<1>6. \/ dev' = dev
      \/ dev' = [dev EXCEPT !.admin[Device(rows, i)] = table[i].enabled]
  BY <1>2 DEF puma6_setSwitchCfg
<1>7. \/ syscfg' = syscfg
      \/ syscfg' = [syscfg EXCEPT !.id[i] = [inst |-> i, alias |-> table[i].alias]]
  BY <1>1, <1>2 DEF saveID
<1> QED BY <1>3, <1>5, <1>6, <1>7

LEMMA InitInv == Init => Inv
<1> SUFFICES ASSUME Init PROVE Inv
  OBVIOUS
<1>1. /\ psm \in [use : BOOLEAN, linux : SUBSET Rows, up : [Rows \ {Wan} -> BOOLEAN]]
      /\ dev \in [admin : [Devices -> BOOLEAN], client : 0 .. N, vlan : BOOLEAN]
  <2>1. \A linux \in Tables \cup {{}} : linux \in SUBSET Rows
    BY TablesAssumption DEF Rows
  <2>2. 0 \in 0 .. N
    BY NAssumption
  <2>3. PICK linux \in Tables \cup {{}}, use \in BOOLEAN :
           psm = [use |-> use, linux |-> linux, up |-> [i \in Rows \ {Wan} |-> FALSE]]
    BY DEF Init
  <2>4. dev = [admin |-> [d \in Devices |-> TRUE], client |-> 0, vlan |-> ~psm.use]
    BY DEF Init
  <2>5. psm \in [use : BOOLEAN, linux : SUBSET Rows, up : [Rows \ {Wan} -> BOOLEAN]]
    BY <2>1, <2>3
  <2> QED BY <2>2, <2>4, <2>5
<1>2. /\ rows \in [Rows -> RowType] /\ Cabled(rows, Control) /\ Numbers(rows) /\ RowsNamed
  <2> DEFINE control == loadInterfaceTable({})
  <2>1. rows = [i \in Rows |-> [control |-> control[i], hwid |-> HwId(control, i),
                                inst |-> i, alias |-> Interface(i)]]
    BY DEF Init
  <2>2. \A i \in Rows : control[i] \in {"switch", "linux"} /\ HwId(control, i) \in 0 .. N
    BY PortsCounted DEF loadInterfaceTable
  <2>3. Rows \subseteq 0 .. N
    BY NAssumption DEF Rows
  <2>4. control = [i \in Rows |-> control[i]]
    BY DEF loadInterfaceTable
  <2> HIDE DEF control
  <2>5. Control = control
    BY <2>1, <2>4 DEF Control
  <2> QED BY <2>1, <2>2, <2>3, <2>5, DefaultAliases DEF RowType, Cabled, Numbers, RowsNamed
<1>3. table \in [Rows -> ObjectType] /\ \A i \in Rows : table[i].inst = i
  <2>1. \A i \in Rows : StartUpstream(i, {}) \in BOOLEAN
    BY DEF Init, StartUpstream
  <2> QED BY <2>1, DefaultAliases DEF Init, ObjectType
<1>4. /\ syscfg \in [disableUpstream : BOOLEAN, id : [Rows -> [inst : Rows, alias : Aliases]]]
      /\ \A i \in Rows : syscfg.id[i].inst = i
  BY DefaultAliases DEF Init
<1>5. /\ touched \subseteq Rows /\ phase \in {"set", "commit", "rollback"}
      /\ faults \in 0 .. MaxFaults /\ synced \in 0 .. N
  BY NAssumption, MaxFaultsAssumption DEF Init
<1> QED BY <1>1, <1>2, <1>3, <1>4, <1>5 DEF Inv, TypeOK, Numbered

\* Failures are counted.
LEMMA FaultsCounted ==
    ASSUME TypeOK, Fault \/ NoFault
    PROVE  faults' \in 0 .. MaxFaults /\ (faults' = 0 => faults = 0)
BY MaxFaultsAssumption DEF TypeOK, Fault, NoFault

\* A step that leaves the rows and what was stored where they are, and gives each
\* object a value of its type with its own number.
LEMMA ObjectsChange ==
    ASSUME Inv, UNCHANGED rows, psm'.use = psm.use, psm'.linux = psm.linux,
           table' \in [Rows -> ObjectType], \A i \in Rows : table'[i].inst = i,
           psm' \in [use : BOOLEAN, linux : SUBSET Rows, up : [Rows \ {Wan} -> BOOLEAN]],
           syscfg' \in [disableUpstream : BOOLEAN,
                        id : [Rows -> [inst : Rows, alias : Aliases]]],
           syscfg'.id = syscfg.id,
           dev' \in [admin : [Devices -> BOOLEAN], client : 0 .. N, vlan : BOOLEAN],
           touched' \subseteq Rows, phase' \in {"set", "commit", "rollback"},
           faults' \in 0 .. MaxFaults, synced' \in 0 .. N
    PROVE  Inv'
<1>1. Control' = Control
  BY DEF Control
<1>2. Cabled(rows', Control') /\ Numbered' /\ RowsNamed'
  BY <1>1 DEF Inv, Numbered, RowsNamed, Numbers
<1>3. TypeOK'
  BY DEF Inv, TypeOK
<1> QED BY <1>2, <1>3 DEF Inv

\* Setting the admin state of a device.
LEMMA AdminSet ==
    ASSUME NEW D, NEW C, NEW d \in [admin : [D -> BOOLEAN], client : C, vlan : BOOLEAN],
           NEW x, NEW v \in BOOLEAN
    PROVE  [d EXCEPT !.admin[x] = v] \in [admin : [D -> BOOLEAN], client : C, vlan : BOOLEAN]
<1>1. [d.admin EXCEPT ![x] = v] \in [D -> BOOLEAN]
  OBVIOUS
<1> QED BY <1>1

LEMMA NextKeepsInv ==
    ASSUME Inv, [Next]_vars
    PROVE  Inv'
<1> USE DEF Inv
<1>0. 0 \in 0 .. N /\ Rows \subseteq 0 .. N
  BY NAssumption DEF Rows
<1>1. ASSUME NEW i \in Rows, Interface_GetParamBoolValue(i) PROVE Inv'
  <2>1. PICK fails \in BOOLEAN :
          table' = [table EXCEPT ![i] = CosaDmlEthPortGetCfg(table[i], fails)] /\ Reading(fails)
    BY <1>1 DEF Interface_GetParamBoolValue, TypeOK
  <2>2. table' \in [Rows -> ObjectType] /\ \A j \in Rows : table'[j].inst = j
    BY <2>1, Refreshed DEF TypeOK, Numbered
  <2>3. faults' \in 0 .. MaxFaults
    BY <2>1, FaultsCounted DEF Reading
  <2> QED
    BY <1>0, <1>1, <2>2, <2>3, ObjectsChange DEF Interface_GetParamBoolValue, TypeOK
<1>2. ASSUME NEW i \in Rows, AssociatedDevice1_Synchronize(i) PROVE Inv'
  <2>0. table \in [Rows -> ObjectType] /\ ethGetClientsCount(i) \in BOOLEAN
    BY DEF TypeOK, ethGetClientsCount
  <2>1. table' = table \/ table' = [table EXCEPT ![i].listed = ethGetClientsCount(i)]
    BY <1>2 DEF AssociatedDevice1_Synchronize, Numbered
  <2>2. table' \in [Rows -> ObjectType] /\ \A j \in Rows : table'[j].inst = j
    BY <2>1, <2>0, ListedSet DEF Numbered
  <2>3. faults' \in 0 .. MaxFaults /\ synced' \in 0 .. N
    BY <1>0, <1>2, FaultsCounted DEF AssociatedDevice1_Synchronize
  <2> QED
    BY <1>2, <2>2, <2>3, ObjectsChange DEF AssociatedDevice1_Synchronize, TypeOK
<1>3. ASSUME NEW i \in Rows, Interface_SetEnable(i) \/ Interface_SetAlias(i) PROVE Inv'
  <2>0. table \in [Rows -> ObjectType]
    BY DEF TypeOK
  <2>1. PICK t : /\ Sets(i, t)
                 /\ \/ \E v \in BOOLEAN : t = [table EXCEPT ![i].enabled = v]
                    \/ \E a \in Aliases : t = [table EXCEPT ![i].alias = a]
    BY <1>3 DEF Interface_SetEnable, Interface_SetAlias
  <2>2. t \in [Rows -> ObjectType] /\ \A j \in Rows : t[j].inst = j
    BY <2>0, <2>1, EnabledSet, AliasSet DEF Numbered
  <2> QED
    BY <1>0, <2>1, <2>2, FaultsCounted, ObjectsChange DEF Sets, TypeOK
<1>4. ASSUME NEW i \in Rows, Interface_SetUpstream(i) PROVE Inv'
  <2>0. table \in [Rows -> ObjectType]
    BY DEF TypeOK
  <2>1. PICK v \in BOOLEAN :
          /\ table' = [table EXCEPT ![i].up = v]
          /\ syscfg' = [syscfg EXCEPT !.disableUpstream = ~v] \/ UNCHANGED syscfg
          /\ psm' = StoreUpstream(table[i].inst, v) \/ UNCHANGED psm
          /\ NoFault \/ Fault
          /\ synced' = 0 /\ UNCHANGED <<dev, rows, touched, phase>>
    BY <1>4 DEF Interface_SetUpstream
  <2>2. table' \in [Rows -> ObjectType] /\ \A j \in Rows : table'[j].inst = j
    BY <2>0, <2>1, UpSet DEF Numbered
  <2>3. /\ psm' \in [use : BOOLEAN, linux : SUBSET Rows, up : [Rows \ {Wan} -> BOOLEAN]]
        /\ psm'.use = psm.use /\ psm'.linux = psm.linux
    BY <2>1 DEF StoreUpstream, TypeOK
  <2>4. /\ syscfg' \in [disableUpstream : BOOLEAN,
                        id : [Rows -> [inst : Rows, alias : Aliases]]]
        /\ syscfg'.id = syscfg.id
    BY <2>1 DEF TypeOK
  <2> QED
    BY <1>0, <2>1, <2>2, <2>3, <2>4, FaultsCounted, ObjectsChange DEF TypeOK
<1>5. ASSUME NEW i \in Rows, Interface_Commit(i) PROVE Inv'
  <2>1. /\ rows' \in [Rows -> RowType]
        /\ \A j \in Rows :
              /\ rows'[j].inst = rows[j].inst
              /\ rows'[j].control = rows[j].control /\ rows'[j].hwid = rows[j].hwid
              /\ rows'[j].alias = (IF j = i THEN table[i].alias ELSE rows[j].alias)
    BY <1>5, Committed
  <2>2. RowsNamed' /\ Numbers(rows') /\ Cabled(rows', Control)
    <3>1. table[i].alias \in Aliases
      BY DEF TypeOK, ObjectType
    <3> QED
      BY <2>1, <3>1 DEF RowsNamed, Numbers, Numbered, Cabled
  <2>3. /\ syscfg' \in [disableUpstream : BOOLEAN,
                        id : [Rows -> [inst : Rows, alias : Aliases]]]
        /\ \A j \in Rows : syscfg'.id[j].inst = j
    <3>1. table[i].alias \in Aliases
      BY DEF TypeOK, ObjectType
    <3>2. \/ syscfg' = syscfg
          \/ syscfg' = [syscfg EXCEPT !.id[i] = [inst |-> i, alias |-> table[i].alias]]
      BY <1>5, Committed
    <3> QED BY <3>1, <3>2 DEF TypeOK, Numbered
  <2>4. dev' \in [admin : [Devices -> BOOLEAN], client : 0 .. N, vlan : BOOLEAN]
    <3>1. table[i].enabled \in BOOLEAN
      BY DEF TypeOK, ObjectType
    <3>2. dev' = dev \/ dev' = [dev EXCEPT !.admin[Device(rows, i)] = table[i].enabled]
      BY <1>5, Committed
    <3>3. dev \in [admin : [Devices -> BOOLEAN], client : 0 .. N, vlan : BOOLEAN]
      BY DEF TypeOK
    <3> QED BY <3>1, <3>2, <3>3, AdminSet
  <2>5. UNCHANGED <<psm, table>> /\ Control' = Control
        /\ touched' \subseteq Rows /\ phase' \in {"set", "commit", "rollback"} /\ synced' = 0
        /\ faults' \in 0 .. MaxFaults
    BY <1>5, <2>1, Committed DEF Interface_Commit, Finished, TypeOK, Control
  <2> QED
    BY <1>0, <2>1, <2>2, <2>3, <2>4, <2>5 DEF TypeOK, Numbered
<1>6. ASSUME NEW i \in Rows, Interface_Rollback(i) PROVE Inv'
  <2>1. PICK fails \in BOOLEAN :
          table' = [table EXCEPT ![i] = CosaDmlEthPortGetCfg(table[i], fails)] /\ Reading(fails)
    BY <1>6 DEF Interface_Rollback, TypeOK
  <2>2. table' \in [Rows -> ObjectType] /\ \A j \in Rows : table'[j].inst = j
    BY <2>1, Refreshed DEF TypeOK, Numbered
  <2>3. faults' \in 0 .. MaxFaults
    BY <2>1, FaultsCounted DEF Reading
  <2>4. touched' \subseteq Rows /\ phase' \in {"set", "commit", "rollback"}
    BY <1>6 DEF Interface_Rollback, Finished, TypeOK
  <2> QED
    BY <1>0, <1>6, <2>2, <2>3, <2>4, ObjectsChange DEF Interface_Rollback, TypeOK
<1>7. CASE EndSets
  BY <1>0, <1>7, FaultsCounted, ObjectsChange DEF EndSets, TypeOK, Numbered
<1>8. CASE Restart
  <2>1. PICK unread \in SUBSET Reads : Starts(unread)
    BY <1>8 DEF Restart
  <2>2. UNCHANGED <<psm, dev>>
    BY <1>8 DEF Restart
  <2>3. /\ rows' \in [Rows -> RowType] /\ table' \in [Rows -> ObjectType]
        /\ syscfg' \in [disableUpstream : BOOLEAN,
                        id : [Rows -> [inst : Rows, alias : Aliases]]]
        /\ Cabled(rows', Control') /\ Numbers(rows')
        /\ \A i \in Rows : /\ table'[i].inst = i /\ syscfg'.id[i].inst = i
                           /\ rows'[i].alias = Interface(i)
    BY <2>1, <2>2, Started
  <2>4. touched' = {} /\ phase' = "set" /\ synced' = 0
    BY <2>1 DEF Starts
  <2>5. faults' \in 0 .. MaxFaults
    BY <1>8, FaultsCounted DEF Restart
  <2> QED
    BY <1>0, <2>2, <2>3, <2>4, <2>5, DefaultAliases DEF TypeOK, Numbered, RowsNamed
<1>9. CASE ClientMoves
  <2>1. dev' \in [admin : [Devices -> BOOLEAN], client : 0 .. N, vlan : BOOLEAN]
    BY <1>0, <1>9 DEF ClientMoves, TypeOK
  <2> QED
    BY <1>0, <1>9, <2>1, ObjectsChange DEF ClientMoves, TypeOK, Numbered
<1>10. CASE UNCHANGED vars
  BY <1>10, ObjectsChange DEF vars, TypeOK, Numbered
<1> QED
  BY <1>1, <1>2, <1>3, <1>4, <1>5, <1>6, <1>7, <1>8, <1>9, <1>10 DEF Next

\* Every variable keeps its type: in particular every object has the number of a
\* row and an alias, whatever was stored or could not be read at a restart.
THEOREM TypeCorrect == Spec => []TypeOK
<1>1. Inv => TypeOK
  BY DEF Inv
<1> QED BY <1>1, InitInv, NextKeepsInv, PTL DEF Spec

-----------------------------------------------------------------------------
(* What the objects answer *)

\* For any number of interfaces, any static table and any in PSM, and any restarts
\* that can read one or the other, an object's status, bit rate and counters are those
\* of the device of its row and of no other row's; only the counters of the WAN routing
\* device may be those of a VLAN over it.
THEOREM AnswersOwn == Spec => []AnswersAreOwn
<1>1. Inv => AnswersAreOwn
  <2> SUFFICES ASSUME Inv, NEW i \in Rows
               PROVE  /\ Interface_GetParamUlongValue(i) = Device(rows, i)
                      /\ Stats_GetParamUlongValue(i) = Device(rows, i) \/ (i = Wan /\ dev.vlan)
                      /\ \A j \in Rows \ {i} : Device(rows, j) # Device(rows, i)
    BY DEF AnswersAreOwn
  <2>1. getIF(table[i].inst) = i /\ i # 0
    BY RowFound, NAssumption DEF Inv, Numbered, Rows
  <2>2. Interface_GetParamUlongValue(i) = Device(rows, i)
    BY <2>1 DEF Interface_GetParamUlongValue
  <2>3. Stats_GetParamUlongValue(i) = Device(rows, i) \/ (i = Wan /\ dev.vlan)
    <3>1. rows[i].control \in {"switch", "linux"}
      BY DEF Inv, TypeOK, RowType
    <3> QED
      BY <2>1, <3>1 DEF Stats_GetParamUlongValue, CosaDmlEthPortGetStats, getIfStats2,
           puma6_getSwitchStats, Device
  <2>4. \A j \in Rows \ {i} : Device(rows, j) # Device(rows, i)
    BY OwnDevice DEF Inv
  <2> QED BY <2>2, <2>3, <2>4
<1> QED BY <1>1, InitInv, NextKeepsInv, PTL DEF Spec

\* An interface none but switch ports precede has the HAL's port of its own number.
LEMMA PortsLead ==
    ASSUME Inv, NEW i \in Rows, \A j \in 1 .. i : rows[j].control = "switch"
    PROVE  Device(rows, i) = <<"port", i>>
<1>1. i \in 1 .. i /\ 1 .. i \subseteq Rows
  BY NAssumption DEF Rows
<1>2. {k \in 1 .. i : Control[k] = "switch"} = 1 .. i
  BY <1>1 DEF Control
<1>3. Cardinality(1 .. i) = i
  BY FS_Interval, NAssumption DEF Rows
<1>4. HwId(Control, i) = i
  BY <1>2, <1>3 DEF HwId
<1> QED BY <1>1, <1>4 DEF Inv, Cabled, Device

\* After a synchronization the list of an interface says whether a client is on its
\* port, for any number of interfaces, where the port has the interface's number.
LEMMA ClientsOfPort == Spec => []ClientsInSync
<1>1. Init => ClientsInSync
  BY DEF Init, ClientsInSync
<1>2. Inv /\ ClientsInSync /\ [Next]_vars => ClientsInSync'
  <2> SUFFICES ASSUME Inv, ClientsInSync, [Next]_vars, synced' # 0, dev'.client # 0,
                      Device(rows', synced') = <<"port", synced'>>
               PROVE  table'[table'[synced'].inst].listed
                        = (Device(rows', synced') = <<"port", dev'.client>>)
    BY DEF ClientsInSync, AssociatedDevice1_GetEntryCount
  <2>1. ASSUME NEW i \in Rows, AssociatedDevice1_Synchronize(i)
        PROVE  table'[table'[synced'].inst].listed
                 = (Device(rows', synced') = <<"port", dev'.client>>)
    <3>1. table \in [Rows -> ObjectType] /\ table[i].inst = i /\ dev' = dev
      BY <2>1 DEF AssociatedDevice1_Synchronize, Inv, TypeOK, Numbered
    <3>2. synced' = i /\ table' = [table EXCEPT ![i].listed = ethGetClientsCount(i)]
      BY <2>1, <3>1 DEF AssociatedDevice1_Synchronize
    <3>3. ethGetClientsCount(i) \in BOOLEAN
      BY DEF ethGetClientsCount
    <3>4. table'[i].inst = i /\ table'[i].listed = ethGetClientsCount(i)
      BY <3>1, <3>2, <3>3, ListedSet
    <3>5. (Device(rows', i) = <<"port", dev'.client>>) = (dev.client = i)
      BY <3>1, <3>2
    <3> QED BY <3>2, <3>4, <3>5 DEF ethGetClientsCount
  <2>2. CASE UNCHANGED vars
    BY <2>2 DEF vars, ClientsInSync, AssociatedDevice1_GetEntryCount
  <2>3. ASSUME Next, \A i \in Rows : ~AssociatedDevice1_Synchronize(i)
        PROVE  synced' = 0
    BY <2>3 DEF Next, Interface_GetParamBoolValue, Interface_SetEnable, Interface_SetAlias,
         Interface_SetUpstream, Interface_Commit, Interface_Rollback, EndSets, Restart,
         ClientMoves, Starts, Sets
  <2> QED BY <2>1, <2>2, <2>3
<1> QED BY <1>1, <1>2, InitInv, NextKeepsInv, PTL DEF Spec

\* What that means for a table: the interfaces before the first Linux device list
\* the clients of their own ports.
Leading(i) == \A j \in 1 .. i : rows[j].control = "switch"
LeadingInSync ==
    synced # 0 /\ dev.client # 0 /\ Leading(synced) =>
        AssociatedDevice1_GetEntryCount(synced) = (Device(rows, synced) = <<"port", dev.client>>)

\* The list of an interface is looked for by number, filled by number, and compared
\* with the numbers of ports: for any number of interfaces and any tables this is
\* right for those whose port has their number, and so for all switch ports that no
\* Linux device precedes.
THEOREM ClientsKnown == Spec => []ClientsInSync /\ []LeadingInSync
<1>1. Inv /\ ClientsInSync => LeadingInSync
  <2> SUFFICES ASSUME Inv, ClientsInSync, synced # 0, dev.client # 0, Leading(synced)
               PROVE  AssociatedDevice1_GetEntryCount(synced)
                        = (Device(rows, synced) = <<"port", dev.client>>)
    BY DEF LeadingInSync
  <2>1. synced \in Rows
    BY NAssumption DEF Inv, TypeOK, Rows
  <2>2. Device(rows, synced) = <<"port", synced>>
    BY <2>1, PortsLead DEF Leading
  <2> QED BY <2>2 DEF ClientsInSync
<1> QED BY <1>1, InitInv, NextKeepsInv, ClientsOfPort, PTL DEF Spec

-----------------------------------------------------------------------------
(* Aliases *)

\* AliasesUnique is not inductive: while a call is under way an object that the call
\* has not touched has the alias of its row; the rows' aliases differ until the
\* commits begin, and then the objects' do, for each that is committed was compared
\* with all others.
NamesApart ==
    /\ touched = {} => phase = "set"
    /\ \A i \in Rows \ touched : rows[i].alias = table[i].alias
    /\ phase = "commit" =>
          \A i, j \in Rows : table[i].alias = table[j].alias => i = j
    /\ phase # "commit" =>
          \A i, j \in Rows : rows[i].alias = rows[j].alias => i = j

LEMMA NextNames ==
    ASSUME Inv, NamesApart, [Next]_vars
    PROVE  NamesApart'
<1>0. table \in [Rows -> ObjectType] /\ touched \subseteq Rows
  BY DEF Inv, TypeOK
<1>1. ASSUME NEW i \in Rows, Interface_GetParamBoolValue(i) PROVE NamesApart'
  <2>1. PICK fails \in BOOLEAN : table' = [table EXCEPT ![i] = CosaDmlEthPortGetCfg(table[i], fails)]
    BY <1>0, <1>1 DEF Interface_GetParamBoolValue
  <2>2. CosaDmlEthPortGetCfg(table[i], fails).alias = rows[i].alias
    BY Refreshed
  <2>3. \A j \in Rows : table'[j].alias = IF j = i THEN rows[i].alias ELSE table[j].alias
    BY <1>0, <2>1, <2>2
  <2>4. UNCHANGED <<rows, touched, phase>> /\ phase = "set"
    BY <1>1 DEF Interface_GetParamBoolValue
  <2> QED BY <2>3, <2>4 DEF NamesApart
<1>2. ASSUME NEW i \in Rows, AssociatedDevice1_Synchronize(i) PROVE NamesApart'
  <2>1. UNCHANGED <<rows, touched, phase>> /\ phase = "set"
        /\ (table' = table \/ table' = [table EXCEPT ![i].listed = ethGetClientsCount(i)])
    BY <1>2 DEF AssociatedDevice1_Synchronize, Inv, Numbered
  <2>2. ethGetClientsCount(i) \in BOOLEAN
    BY DEF ethGetClientsCount
  <2>3. \A j \in Rows : table'[j].alias = table[j].alias
    BY <1>0, <2>1, <2>2, ListedSet
  <2> QED BY <2>1, <2>3 DEF NamesApart
<1>3. ASSUME NEW i \in Rows, Interface_SetEnable(i) \/ Interface_SetAlias(i) PROVE NamesApart'
  <2>1. PICK t : /\ Sets(i, t)
                 /\ \/ \E v \in BOOLEAN : t = [table EXCEPT ![i].enabled = v]
                    \/ \E a \in Aliases : t = [table EXCEPT ![i].alias = a]
    BY <1>3 DEF Interface_SetEnable, Interface_SetAlias
  <2>2. \A j \in Rows \ {i} : t[j].alias = table[j].alias
    BY <1>0, <2>1, EnabledSet, AliasSet
  <2>3. UNCHANGED <<rows, phase>> /\ phase = "set" /\ table' = t /\ touched' = touched \cup {i}
    BY <2>1 DEF Sets
  <2> QED BY <2>2, <2>3 DEF NamesApart
<1>4. ASSUME NEW i \in Rows, Interface_SetUpstream(i) PROVE NamesApart'
  <2>1. PICK v \in BOOLEAN : table' = [table EXCEPT ![i].up = v]
    BY <1>4 DEF Interface_SetUpstream
  <2>2. \A j \in Rows : table'[j].alias = table[j].alias
    BY <1>0, <2>1, UpSet
  <2>3. UNCHANGED <<rows, touched, phase>> /\ phase = "set"
    BY <1>4 DEF Interface_SetUpstream
  <2> QED BY <2>2, <2>3 DEF NamesApart
<1>5. CASE EndSets
  <2>1. /\ UNCHANGED <<rows, table, touched>> /\ phase = "set" /\ touched # {}
        /\ phase' # "set"
        /\ phase' = "commit" => \A i \in touched : Interface_Validate(i)
    BY <1>5 DEF EndSets
  <2>2. ASSUME phase' = "commit", NEW i \in Rows, NEW j \in Rows, table[i].alias = table[j].alias
        PROVE  i = j
    <3>1. CASE i \in touched \/ j \in touched
      BY <2>1, <2>2, <3>1 DEF Interface_Validate
    <3>2. CASE i \notin touched /\ j \notin touched
      BY <2>1, <2>2, <3>2 DEF NamesApart
    <3> QED BY <3>1, <3>2
  <2> QED BY <2>1, <2>2 DEF NamesApart
<1>6. ASSUME NEW i \in Rows, Interface_Commit(i) PROVE NamesApart'
  <2>1. \A j \in Rows : rows'[j].alias = IF j = i THEN table[i].alias ELSE rows[j].alias
    BY <1>6, Committed
  <2>2. /\ UNCHANGED table /\ phase = "commit" /\ touched' = touched \ {i}
        /\ phase' = IF touched' = {} THEN "set" ELSE phase
    BY <1>6 DEF Interface_Commit, Finished
  <2>3. \A j \in Rows \ touched' : rows'[j].alias = table[j].alias
    BY <2>1, <2>2 DEF NamesApart
  <2> QED BY <2>2, <2>3 DEF NamesApart
<1>7. ASSUME NEW i \in Rows, Interface_Rollback(i) PROVE NamesApart'
  <2>1. PICK fails \in BOOLEAN : table' = [table EXCEPT ![i] = CosaDmlEthPortGetCfg(table[i], fails)]
    BY <1>0, <1>7 DEF Interface_Rollback
  <2>2. CosaDmlEthPortGetCfg(table[i], fails).alias = rows[i].alias
    BY Refreshed
  <2>3. \A j \in Rows : table'[j].alias = IF j = i THEN rows[i].alias ELSE table[j].alias
    BY <1>0, <2>1, <2>2
  <2>4. /\ UNCHANGED rows /\ phase = "rollback" /\ touched' = touched \ {i}
        /\ phase' = IF touched' = {} THEN "set" ELSE phase
    BY <1>7 DEF Interface_Rollback, Finished
  <2> QED BY <2>3, <2>4 DEF NamesApart
<1>8. CASE Restart
  <2>1. PICK unread \in SUBSET Reads : Starts(unread) /\ UNCHANGED <<psm, dev>>
    BY <1>8 DEF Restart
  <2>2. \A i \in Rows : rows'[i].alias = Interface(i) /\ table'[i].alias = Interface(i)
    BY <2>1, Started
  <2>3. touched' = {} /\ phase' = "set"
    BY <2>1 DEF Starts
  <2> QED BY <2>2, <2>3, DefaultAliases DEF NamesApart
<1>9. CASE ClientMoves \/ UNCHANGED vars
  BY <1>9 DEF ClientMoves, vars, NamesApart
<1> QED
  BY <1>1, <1>2, <1>3, <1>4, <1>5, <1>6, <1>7, <1>8, <1>9 DEF Next

\* No two interfaces have one alias once a call is over, for any number of them and
\* any aliases: not after a call that swaps aliases, is refused, has a failing
\* commit, or is mixed with reads that take back what was set.
THEOREM AliasesDiffer == Spec => []AliasesUnique
<1>1. Init => NamesApart
  <2> SUFFICES ASSUME Init PROVE NamesApart
    OBVIOUS
  <2>1. \A i \in Rows : rows[i].alias = Interface(i) /\ table[i].alias = Interface(i)
    BY DEF Init
  <2> QED BY <2>1, DefaultAliases DEF Init, NamesApart
<1>2. NamesApart => AliasesUnique
  BY DEF NamesApart, AliasesUnique
<1> QED BY <1>1, <1>2, InitInv, NextKeepsInv, NextNames, PTL DEF Spec

-----------------------------------------------------------------------------
(* Upstream *)

\* Where a restart leaves the Upstream of an interface: at what PSM holds for it, or
\* upstream anyway.
StoredOr(t, i) == t[i].up = psm.up[i] \/ (t[i].up /\ UpAnyway(i))

\* An object keeps its Upstream in every step but its own set, which stores it under
\* the object's number, and a restart, which reads it from there.
LEMMA NextUpstream ==
    ASSUME Inv, [Next]_vars
    PROVE  \/ \E i \in Rows, v \in BOOLEAN :
                /\ table' = [table EXCEPT ![i].up = v]
                /\ \/ Fault
                   \/ psm' = StoreUpstream(i, v) /\ UNCHANGED faults
           \/ /\ psm' = psm /\ (faults' = 0 => faults = 0)
              /\ faults' = 0 => \A j \in Rows \ {Wan} : table'[j].up = table[j].up \/ StoredOr(table', j)
<1>0. table \in [Rows -> ObjectType] /\ TypeOK /\ \A i \in Rows : table[i].inst = i
  BY DEF Inv, TypeOK, Numbered
<1> DEFINE Kept == faults' = 0 => \A j \in Rows \ {Wan} : table'[j].up = table[j].up \/ StoredOr(table', j)
<1>1. ASSUME NEW i \in Rows, Interface_GetParamBoolValue(i) \/ Interface_Rollback(i)
      PROVE  psm' = psm /\ (faults' = 0 => faults = 0) /\ Kept
  <2>1. PICK fails \in BOOLEAN :
          table' = [table EXCEPT ![i] = CosaDmlEthPortGetCfg(table[i], fails)] /\ Reading(fails)
    BY <1>0, <1>1 DEF Interface_GetParamBoolValue, Interface_Rollback
  <2>2. CosaDmlEthPortGetCfg(table[i], fails).up = table[i].up
    BY Refreshed
  <2>3. Kept
    BY <1>0, <2>1, <2>2
  <2> QED
    BY <1>0, <1>1, <2>1, <2>3, FaultsCounted
    DEF Interface_GetParamBoolValue, Interface_Rollback, Reading
<1>2. ASSUME NEW i \in Rows, AssociatedDevice1_Synchronize(i)
      PROVE  psm' = psm /\ (faults' = 0 => faults = 0) /\ Kept
  <2>1. /\ UNCHANGED psm /\ (Fault \/ NoFault)
        /\ table' = table \/ table' = [table EXCEPT ![i].listed = ethGetClientsCount(i)]
    BY <1>0, <1>2 DEF AssociatedDevice1_Synchronize
  <2>2. ethGetClientsCount(i) \in BOOLEAN
    BY DEF ethGetClientsCount
  <2>3. Kept
    BY <1>0, <2>1, <2>2, ListedSet
  <2> QED BY <1>0, <2>1, <2>3, FaultsCounted
<1>3. ASSUME NEW i \in Rows, Interface_SetEnable(i) \/ Interface_SetAlias(i)
      PROVE  psm' = psm /\ (faults' = 0 => faults = 0) /\ Kept
  <2>1. PICK t : /\ Sets(i, t)
                 /\ \/ \E v \in BOOLEAN : t = [table EXCEPT ![i].enabled = v]
                    \/ \E a \in Aliases : t = [table EXCEPT ![i].alias = a]
    BY <1>3 DEF Interface_SetEnable, Interface_SetAlias
  <2>2. \A j \in Rows : t[j].up = table[j].up
    BY <1>0, <2>1, EnabledSet, AliasSet
  <2> QED BY <2>1, <2>2 DEF Sets, NoFault
<1>4. ASSUME NEW i \in Rows, Interface_SetUpstream(i)
      PROVE  \E v \in BOOLEAN :
                /\ table' = [table EXCEPT ![i].up = v]
                /\ \/ Fault
                   \/ psm' = StoreUpstream(i, v) /\ UNCHANGED faults
  <2>1. PICK v \in BOOLEAN :
          /\ table' = [table EXCEPT ![i].up = v]
          /\ \/ psm' = StoreUpstream(table[i].inst, v) /\ NoFault
             \/ Fault
    BY <1>4 DEF Interface_SetUpstream
  <2>2. table[i].inst = i
    BY <1>0
  <2> QED BY <2>1, <2>2 DEF NoFault
<1>5. ASSUME NEW i \in Rows, Interface_Commit(i)
      PROVE  psm' = psm /\ (faults' = 0 => faults = 0) /\ Kept
  <2>1. UNCHANGED <<psm, table>>
    BY <1>5 DEF Interface_Commit
  <2>2. faults' \in {faults, faults + 1} /\ faults \in 0 .. MaxFaults
    BY <1>0, <1>5, Committed DEF TypeOK
  <2> QED BY <2>1, <2>2, MaxFaultsAssumption
<1>6. CASE Restart
  <2>1. PICK unread \in SUBSET Reads :
          /\ Starts(unread) /\ UNCHANGED <<psm, dev>>
          /\ Fault \/ (NoFault /\ unread = {})
    BY <1>6 DEF Restart
  <2>2. CASE Fault
    <3>1. faults' # 0
      BY <1>0, <2>2, MaxFaultsAssumption DEF Fault, TypeOK
    <3> QED BY <2>1, <3>1
  <2>3. CASE NoFault /\ unread = {}
    <3>1. ASSUME NEW j \in Rows \ {Wan} PROVE StoredOr(table', j)
      <4>1. table'[j].up = StartUpstream(j, {}) /\ psm.up[j] \in BOOLEAN
        BY <1>0, <2>1, <2>3, Started DEF TypeOK
      <4>2. StartUpstream(j, {}) = (psm.up[j] \/ (~psm.use /\ j \in StaticUp))
        BY <4>1 DEF StartUpstream, TableRead
      <4> QED BY <4>1, <4>2 DEF StoredOr, UpAnyway
    <3> QED BY <2>1, <2>3, <3>1 DEF NoFault
  <2> QED BY <2>1, <2>2, <2>3
<1>7. CASE EndSets \/ ClientMoves \/ UNCHANGED vars
  BY <1>7 DEF EndSets, ClientMoves, vars, NoFault
<1> QED
  BY <1>1, <1>2, <1>3, <1>4, <1>5, <1>6, <1>7 DEF Next

\* Until something fails the Upstream of an interface changes only to what is stored
\* for it, for any number of interfaces and any tables: a restart brings back what was
\* set, but for a FALSE of a row that is upstream in the static table.
THEOREM UpstreamStored == Spec => UpstreamKept
<1> DEFINE Step == \A i \in Rows \ {Wan} : faults' = 0 /\ table'[i].up # table[i].up =>
                       psm'.up[i] = table'[i].up \/ (table'[i].up /\ UpAnyway(i))
<1>1. Inv /\ [Next]_vars => Step
  <2> SUFFICES ASSUME Inv, [Next]_vars PROVE Step
    OBVIOUS
  <2>0. /\ table \in [Rows -> ObjectType] /\ faults \in 0 .. MaxFaults
        /\ psm \in [use : BOOLEAN, linux : SUBSET Rows, up : [Rows \ {Wan} -> BOOLEAN]]
    BY DEF Inv, TypeOK
  <2>1. ASSUME NEW i \in Rows, NEW v \in BOOLEAN, table' = [table EXCEPT ![i].up = v],
               Fault \/ (psm' = StoreUpstream(i, v) /\ UNCHANGED faults)
        PROVE  Step
    <3>1. \A j \in Rows : table'[j].up = IF j = i THEN v ELSE table[j].up
      BY <2>0, <2>1, UpSet
    <3>2. CASE Fault
      <4>1. faults' # 0
        BY <2>0, <3>2, MaxFaultsAssumption DEF Fault
      <4> QED BY <4>1
    <3>3. CASE psm' = StoreUpstream(i, v) /\ UNCHANGED faults
      <4>1. \A j \in Rows \ {Wan} : psm'.up[j] = IF j = i THEN v ELSE psm.up[j]
        BY <2>0, <3>3 DEF StoreUpstream
      <4> QED BY <3>1, <4>1
    <3> QED BY <2>1, <3>2, <3>3
  <2>2. ASSUME psm' = psm,
               faults' = 0 => \A j \in Rows \ {Wan} :
                                  table'[j].up = table[j].up \/ StoredOr(table', j)
        PROVE  Step
    BY <2>2 DEF StoredOr
  <2> QED BY <2>1, <2>2, NextUpstream
<1> QED BY <1>1, InitInv, NextKeepsInv, PTL DEF Spec, UpstreamKept

-----------------------------------------------------------------------------
(* The period of the logger *)

\* Where the logger can be.
Loggers == [at : {"top", "check", "adjust"}, left : Int, old : Int, slept : Int]

LogTyped ==
    /\ settings \in Settings
    /\ raced \in BOOLEAN
    /\ logger \in Loggers

\* While it sleeps the logger remembers the period it last looked at, and has
\* counted down that one.
CountsOld ==
    logger.at = "adjust" /\ ~raced => logger.left = logger.old - logger.slept + 1

LogInv == LogTyped /\ LoggerCountsDown /\ CountsOld

\* The logger reads settings and nothing else that changes.
LEMMA LogInitInv == LogInit => LogInv
  <1> SUFFICES ASSUME LogInit
               PROVE  LogInv
    OBVIOUS
  <1>1. settings \in Settings /\ raced = FALSE
    BY DEF LogInit
  <1>2. logger = [at |-> "top", left |-> 0, old |-> 0, slept |-> 0]
    BY DEF LogInit
  <1>3. logger \in Loggers
    BY <1>2 DEF Loggers
  <1>4. LogTyped
    BY <1>1, <1>3 DEF LogTyped
  <1> QED
    BY <1>2, <1>4 DEF LogInv, LoggerCountsDown, CountsOld

\* A change that falls between the two looks of the logger is recorded as such.
LEMMA SetKeepsLogInv ==
    ASSUME LogInv, NEW new \in Settings, Set(new)
    PROVE  LogInv'
  <1>1. LogTyped'
    BY DEF LogInv, LogTyped, Set
  <1>2. LoggerCountsDown'
    <2> SUFFICES ASSUME (logger.at = "check" /\ ~raced)'
                 PROVE  logger'.left = settings'.period - logger'.slept
      BY DEF LoggerCountsDown
    <2>1. logger' = logger
      BY DEF Set
    <2>2. CASE settings' = new /\ raced' = (raced \/ (logger.at = "check" /\ new.period # settings.period))
      <3>1. ~raced /\ new.period = settings.period
        BY <2>1, <2>2
      <3> QED
        BY <2>1, <2>2, <3>1 DEF LogInv, LoggerCountsDown
    <2>3. CASE UNCHANGED <<settings, raced>>
      BY <2>1, <2>3 DEF LogInv, LoggerCountsDown
    <2> QED
      BY <2>2, <2>3 DEF Set
  <1>3. CountsOld'
    BY DEF LogInv, LogTyped, CountsOld, Set
  <1> QED
    BY <1>1, <1>2, <1>3 DEF LogInv

\* A tick that is over, and any change of the period during it, count once.
LEMMA LoggerKeepsLogInv ==
    ASSUME LogInv, Ethernet_Logger_Thread
    PROVE  LogInv'
  <1> DEFINE p == settings.period
  <1>1. settings' = settings /\ logger \in Loggers /\ raced \in BOOLEAN /\ settings \in Settings
    BY DEF LogInv, LogTyped, Ethernet_Logger_Thread, Ethernet_Log, Sleep, Adjust, Elsewhere,
           settingsVars
  <1>2. p \in Int
    <2>1. p \in Periods
      BY <1>1 DEF Settings
    <2>2. p \in Nat
      BY <2>1, PeriodsAssumption
    <2> QED
      BY <2>2
  <1> HIDE DEF p
  <1>3. CASE Ethernet_Log
    <2>1. raced' = FALSE /\ logger' = [at |-> "check", left |-> p, old |-> logger.old, slept |-> 0]
      BY <1>3 DEF Ethernet_Log, p
    <2>2. logger' \in Loggers
      BY <1>1, <1>2, <2>1 DEF Loggers
    <2>3. LogTyped'
      BY <1>1, <2>1, <2>2 DEF LogTyped
    <2>4. LoggerCountsDown'
      BY <1>1, <1>2, <2>1 DEF LoggerCountsDown, p
    <2> QED
      BY <2>1, <2>3, <2>4 DEF LogInv, CountsOld
  <1>4. CASE Sleep
    <2>1. raced' = raced /\ logger.at = "check"
      BY <1>4 DEF Sleep
    <2>2. CASE logger' = [logger EXCEPT !.at = "adjust", !.old = p, !.slept = @ + 1]
      <3>1. logger' \in Loggers
        <4>1. logger.slept + 1 \in Int
          BY <1>1 DEF Loggers
        <4> QED
          BY <1>1, <1>2, <2>2, <4>1, Zenon DEF Loggers
      <3>2. ~raced => logger.left = p - logger.slept
        BY <2>1 DEF LogInv, LoggerCountsDown, p
      <3>3. CountsOld'
        BY <1>1, <1>2, <2>1, <2>2, <3>2 DEF CountsOld, Loggers
      <3>4. LoggerCountsDown'
        BY <1>1, <2>2 DEF LoggerCountsDown, Loggers
      <3> QED
        BY <1>1, <2>1, <3>1, <3>3, <3>4 DEF LogInv, LogTyped
    <2>3. CASE logger' = [logger EXCEPT !.at = "top"]
      <3>1. logger' \in Loggers /\ logger'.at = "top"
        BY <1>1, <2>3 DEF Loggers
      <3> QED
        BY <1>1, <2>1, <3>1 DEF LogInv, LogTyped, LoggerCountsDown, CountsOld
    <2> QED
      BY <1>4, <2>2, <2>3 DEF Sleep, p
  <1>5. CASE Adjust
    <2>1. raced' = raced /\ logger.at = "adjust"
          /\ logger' = [logger EXCEPT !.at = "check", !.left = @ - 1 + p - logger.old]
      BY <1>5 DEF Adjust, p
    <2>2. logger' \in Loggers
      <3>1. logger.left - 1 + p - logger.old \in Int
        BY <1>1, <1>2 DEF Loggers
      <3> QED
        BY <1>1, <2>1, <3>1, Zenon DEF Loggers
    <2>3. ~raced => logger.left = logger.old - logger.slept + 1
      BY <2>1 DEF LogInv, CountsOld
    <2>4. ~raced => logger'.left = p - logger'.slept
      BY <1>1, <1>2, <2>1, <2>3 DEF Loggers
    <2>5. LoggerCountsDown'
      BY <1>1, <2>1, <2>4 DEF LoggerCountsDown, p
    <2>6. CountsOld'
      BY <1>1, <2>1 DEF CountsOld, Loggers
    <2> QED
      BY <1>1, <2>1, <2>2, <2>5, <2>6 DEF LogInv, LogTyped
  <1> QED
    BY <1>3, <1>4, <1>5 DEF Ethernet_Logger_Thread

\* All other steps leave the logger and what it reads alone.
Unread == <<settings, logger, raced>>

LEMMA UnreadKeepsLogInv ==
    ASSUME LogInv, UNCHANGED Unread
    PROVE  LogInv'
  BY DEF LogInv, LogTyped, LoggerCountsDown, CountsOld, Unread

LEMMA NextKeepsLogInv == LogInv /\ [LogNext]_logVars => LogInv'
  <1> SUFFICES ASSUME LogInv, [LogNext]_logVars
               PROVE  LogInv'
    OBVIOUS
  <1>1. CASE \E v \in BOOLEAN : EthLogging_SetParamBoolValue(v)
    <2>1. PICK v \in BOOLEAN : EthLogging_SetParamBoolValue(v)
      BY <1>1
    <2>2. [settings EXCEPT !.enable = v] \in Settings
      BY DEF LogInv, LogTyped, Settings
    <2> QED
      BY <2>1, <2>2, SetKeepsLogInv DEF EthLogging_SetParamBoolValue
  <1>2. CASE \E p \in Periods : EthLogging_SetParamUlongValue(p)
    <2>1. PICK p \in Periods : EthLogging_SetParamUlongValue(p)
      BY <1>2
    <2>2. [settings EXCEPT !.period = p] \in Settings
      BY DEF LogInv, LogTyped, Settings
    <2> QED
      BY <2>1, <2>2, SetKeepsLogInv DEF EthLogging_SetParamUlongValue
  <1>3. CASE CosaEthTelemetryxOpsLogSettingsSync
    BY <1>3, UnreadKeepsLogInv
    DEF CosaEthTelemetryxOpsLogSettingsSync, OpenFile, CloseFile, Unread
  <1>4. CASE EthTelemetryxOpsLogSettingsEventThread
    BY <1>4, UnreadKeepsLogInv
    DEF EthTelemetryxOpsLogSettingsEventThread, FindFile, ReadFirst,
        AddWatch, GetEvent, ReadAgain, Signal, settingsVars, Unread
  <1>5. CASE EthTelemetryLoggingThread
    BY <1>5, UnreadKeepsLogInv
    DEF EthTelemetryLoggingThread, ReadInterval, StartWait,
        TimeOut, EthTelemetryPush, settingsVars, Unread
  <1>6. CASE Ethernet_Logger_Thread
    BY <1>6, LoggerKeepsLogInv
  <1>7. CASE UNCHANGED logVars
    BY <1>7, UnreadKeepsLogInv DEF logVars, Unread
  <1> QED
    BY <1>1, <1>2, <1>3, <1>4, <1>5, <1>6, <1>7 DEF LogNext

\* Whatever the periods, the logger counts down the one that holds now, but
\* for a change between its two looks at the period.
THEOREM CountsDown == LogSpec => []LoggerCountsDown
  <1>1. LogInit => LogInv
    BY LogInitInv
  <1>2. LogInv /\ [LogNext]_logVars => LogInv'
    BY NextKeepsLogInv
  <1>3. LogInv => LoggerCountsDown
    BY DEF LogInv
  <1> QED
    BY <1>1, <1>2, <1>3, PTL DEF LogSpec

-----------------------------------------------------------------------------
(* The way of the settings to the telemetry *)

\* An event is kept until the thread waits again, and once the dispatcher is
\* done the file has the settings, unless it could not be opened.
FileKept ==
    /\ sync \in {"open", "write", "done"}
    /\ watcher \in {"poll", "read", "watch", "wait", "reread", "signal"}
    /\ modified => watcher \in {"wait", "reread", "signal"}
    /\ sync = "done" /\ ~missed => file = [at |-> "full", is |-> settings]

WayInv == FileKept /\ SettingsOnTheWay

LEMMA InitWayInv == LogInit => WayInv
  BY DEF LogInit, WayInv, FileKept, SettingsOnTheWay

\* A new setting is the dispatcher's to write.
LEMMA SetKeepsWayInv ==
    ASSUME WayInv, NEW new, Set(new)
    PROVE  WayInv'
  <1>1. UNCHANGED <<file, modified, copy, watcher, missed>>
    BY DEF Set, telemetryVars
  <1>2. CASE settings' = new /\ sync' = "open"
    BY <1>1, <1>2 DEF WayInv, FileKept, SettingsOnTheWay
  <1>3. CASE UNCHANGED <<settings, sync>>
    BY <1>1, <1>3 DEF WayInv, FileKept, SettingsOnTheWay
  <1> QED
    BY <1>2, <1>3 DEF Set

\* The file that is written last is seen by whoever waits or is at work, and
\* will be found by who still looks for it.
LEMMA SyncKeepsWayInv ==
    ASSUME WayInv, CosaEthTelemetryxOpsLogSettingsSync
    PROVE  WayInv'
  <1>1. CASE OpenFile
    <2>1. UNCHANGED <<settings, copy, watcher>> /\ sync = "open"
      BY <1>1 DEF OpenFile
    <2>2. CASE sync' = "write" /\ Notify
      <3>1. FileKept'
        BY <2>1, <2>2 DEF WayInv, FileKept, Notify
      <3> QED
        BY <2>2, <3>1 DEF WayInv, SettingsOnTheWay
    <2>3. CASE sync' = "done" /\ missed' = TRUE /\ UNCHANGED <<file, modified>>
      BY <2>1, <2>3 DEF WayInv, FileKept, SettingsOnTheWay
    <2> QED
      BY <1>1, <2>2, <2>3 DEF OpenFile
  <1>2. CASE CloseFile
    <2>1. /\ UNCHANGED <<settings, copy, watcher>>
          /\ sync' = "done" /\ file' = [at |-> "full", is |-> settings]
          /\ modified' = (modified \/ watcher \in {"wait", "reread", "signal"})
          /\ missed' = (watcher = "watch")
      BY <1>2 DEF CloseFile, Notify
    <2>2. FileKept'
      BY <2>1 DEF WayInv, FileKept
    <2>3. SettingsOnTheWay'
      BY <2>1 DEF WayInv, FileKept, SettingsOnTheWay
    <2> QED
      BY <2>2, <2>3 DEF WayInv
  <1> QED
    BY <1>1, <1>2 DEF CosaEthTelemetryxOpsLogSettingsSync

\* The thread that reads after the dispatcher is done reads the settings.
LEMMA WatcherKeepsWayInv ==
    ASSUME WayInv, EthTelemetryxOpsLogSettingsEventThread
    PROVE  WayInv'
  <1>1. UNCHANGED <<settings, file, sync, missed>>
    BY DEF EthTelemetryxOpsLogSettingsEventThread, FindFile, ReadFirst, AddWatch, GetEvent,
           ReadAgain, Signal, settingsVars
  <1>2. CASE \/ At("poll", "read") /\ UNCHANGED <<modified, copy>>
             \/ At("watch", "wait") /\ UNCHANGED <<modified, copy>>
             \/ At("signal", "wait") /\ UNCHANGED <<modified, copy>>
             \/ At("wait", "reread") /\ modified /\ modified' = FALSE /\ UNCHANGED copy
    BY <1>1, <1>2 DEF WayInv, FileKept, SettingsOnTheWay, At
  <1>3. CASE /\ At("read", "watch") \/ At("reread", "signal")
             /\ read_updated_log_interval /\ UNCHANGED modified
    <2>1. FileKept'
      BY <1>1, <1>3 DEF WayInv, FileKept, At
    <2>2. sync = "done" /\ ~missed => copy' = settings
      BY <1>3 DEF WayInv, FileKept, read_updated_log_interval
    <2> QED
      BY <1>1, <2>1, <2>2 DEF WayInv, FileKept, SettingsOnTheWay
  <1> QED
    BY <1>2, <1>3
    DEF EthTelemetryxOpsLogSettingsEventThread, FindFile, ReadFirst, AddWatch, GetEvent,
        ReadAgain, Signal

\* All other steps leave the way of the settings alone.
Way == <<settings, file, sync, modified, copy, watcher, missed>>

LEMMA OffTheWayKeepsWayInv ==
    ASSUME WayInv, UNCHANGED Way
    PROVE  WayInv'
  BY DEF WayInv, FileKept, SettingsOnTheWay, Way

LEMMA NextKeepsWayInv == WayInv /\ [LogNext]_logVars => WayInv'
  <1> SUFFICES ASSUME WayInv, [LogNext]_logVars
               PROVE  WayInv'
    OBVIOUS
  <1>1. ASSUME NEW v \in BOOLEAN, EthLogging_SetParamBoolValue(v) PROVE WayInv'
    BY <1>1, SetKeepsWayInv DEF EthLogging_SetParamBoolValue
  <1>2. ASSUME NEW p \in Periods, EthLogging_SetParamUlongValue(p) PROVE WayInv'
    BY <1>2, SetKeepsWayInv DEF EthLogging_SetParamUlongValue
  <1>3. CASE CosaEthTelemetryxOpsLogSettingsSync
    BY <1>3, SyncKeepsWayInv
  <1>4. CASE EthTelemetryxOpsLogSettingsEventThread
    BY <1>4, WatcherKeepsWayInv
  <1>5. CASE EthTelemetryLoggingThread
    BY <1>5, OffTheWayKeepsWayInv
    DEF EthTelemetryLoggingThread, ReadInterval, StartWait, TimeOut, EthTelemetryPush,
        settingsVars, Way
  <1>6. CASE Ethernet_Logger_Thread
    BY <1>6, OffTheWayKeepsWayInv
    DEF Ethernet_Logger_Thread, Ethernet_Log, Sleep, Adjust, Elsewhere, settingsVars,
        telemetryVars, Way
  <1>7. CASE UNCHANGED logVars
    BY <1>7, OffTheWayKeepsWayInv DEF logVars, Way
  <1> QED
    BY <1>1, <1>2, <1>3, <1>4, <1>5, <1>6, <1>7 DEF LogNext

\* No change of the settings is stranded on its way to the telemetry, unless
\* the file was missed: what SettingsReachTelemetry waits for is under way.
THEOREM SettingsNotStranded == LogSpec => []SettingsOnTheWay
  <1>1. WayInv => SettingsOnTheWay
    BY DEF WayInv
  <1> QED
    BY <1>1, InitWayInv, NextKeepsWayInv, PTL DEF LogSpec
=============================================================================
