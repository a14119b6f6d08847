---------------------------- MODULE EthPortTable ----------------------------
(***************************************************************************)
(* The interfaces that come and go: the rows of gpstEthGInfo and the data  *)
(* model's list of X_RDK_Interface instances.  AddEntry and DelEntry       *)
(* change both, DelEntry by moving the last row into the hole.  Whoever    *)
(* wants a row looks its index up by name under the table lock, releases   *)
(* it, and takes it again to use the index.                                *)
(*                                                                         *)
(* The data model dispatcher does that in the thread that adds and deletes *)
(* rows; the HAL's callback and the state machine do it in threads of      *)
(* their own.  The fields of a row are independent: val stands for         *)
(* LinkStatus, which the callback writes, or for WanStatus, which the      *)
(* state machine writes; the dispatcher writes both.                       *)
(*                                                                         *)
(* The name k stands for the string "eth<k>" that rows are given when they *)
(* are made.  Memory is always available.  Rows count from 1.              *)
(***************************************************************************)
EXTENDS Naturals

CONSTANTS
    Threads,    \* threads other than the dispatcher that write rows
    Internal,   \* TOTAL_NUMBER_OF_INTERNAL_INTERFACES: rows never deleted
    Initial,    \* rows made by the start-up
    MaxInst,    \* bound on instance numbers, so on AddEntry
    PsmNames,   \* names PSM may hold for the first rows
    Renames     \* names somebody may write

ASSUME CountsAssumption ==
    Internal \in Nat \ {0} /\ Initial \in Nat /\ MaxInst \in Nat
    /\ Internal <= Initial /\ Initial <= MaxInst
ASSUME NamesAssumption == PsmNames \subseteq Nat /\ Renames \subseteq Nat

VARIABLES
    psm,        \* names in PSM
    total,      \* gTotal and ulTotalNoofEthInterfaces
    rows,       \* gpstEthGInfo[1 .. total]; past it, memory that is not its own
    listed,     \* instance numbers in Q_EthList
    dmlName,    \* Name in the entry of each instance
    enabled,    \* instances whose entry has Enable = TRUE
    nextInst,   \* ulPtNextInstanceNumber
    access,     \* an index that a thread has looked up and not used yet
    written,    \* history: what was last written for each instance
    mishaps     \* history: which of Mishaps happened

list == <<listed, dmlName, enabled, nextInst>>
vars == <<psm, total, rows, listed, dmlName, enabled, nextInst, access, written, mishaps>>

Status == {"UP", "DOWN"}
Instances == 1 .. MaxInst

\* A write through an index reached another interface's row, or none; AddEntry
\* gave a row a name that another one had; an entry renamed a row not its own.
Mishaps == {"strayWrite", "sameName", "foreignRename"}
Row == [name : Nat, inst : Instances, val : Status]

\* inst: whose row it was when it was looked up.
Access == [busy : BOOLEAN, index : Instances, inst : Instances, status : Status]
NoAccess == [busy |-> FALSE, index |-> 1, inst |-> 1, status |-> "DOWN"]

NewRow(n, i) == [name |-> n, inst |-> i, val |-> "DOWN"]
Unused == NewRow(0, 1)

\* PortInit and PrepareGlobalInfo for the names f.
FirstRows(f) == [k \in Instances |-> IF k <= Initial THEN NewRow(f[k], k) ELSE Unused]
FirstNames(f) == [i \in Instances |-> IF i <= Initial THEN f[i] ELSE 0]

Init ==
    /\ psm \in {f \in [1..Initial -> PsmNames] : \A i, j \in 1..Initial : f[i] = f[j] => i = j}
    /\ total = Initial
    /\ rows = FirstRows(psm)
    /\ listed = 1..Initial
    /\ dmlName = FirstNames(psm)
    /\ enabled = {}
    /\ nextInst = Initial + 1
    /\ access = [t \in Threads |-> NoAccess]
    /\ written = [i \in Instances |-> "DOWN"]
    /\ mishaps = {}

-----------------------------------------------------------------------------
(* CosaDmlEthPortGetIndexFromIfName: the first row of that name. *)

RowsNamed(n) == {k \in 1..total : rows[k].name = n}
HasRow(n) == RowsNamed(n) # {}
Index(n) == CHOOSE k \in RowsNamed(n) : \A j \in RowsNamed(n) : k <= j

Note(mishap, happened) == mishaps' = IF happened THEN mishaps \cup {mishap} ELSE mishaps

\* A write for instance i to row k, as far as the table reaches.
WriteRow(k, i, v) ==
    /\ rows' = IF k <= total THEN [rows EXCEPT ![k].val = v] ELSE rows
    /\ written' = [written EXCEPT ![i] = v]
    /\ Note("strayWrite", ~(k <= total /\ rows[k].inst = i))

Lookup(t, n, v) ==
    /\ ~access[t].busy
    /\ HasRow(n)
    /\ access' = [access EXCEPT ![t] = [busy |-> TRUE, index |-> Index(n),
                                        inst |-> rows[Index(n)].inst, status |-> v]]
    /\ UNCHANGED <<psm, total, rows, list, written, mishaps>>

Write(t) ==
    /\ access[t].busy
    /\ access' = [access EXCEPT ![t] = NoAccess]
    /\ WriteRow(access[t].index, access[t].inst, access[t].status)
    /\ UNCHANGED <<psm, total, list>>

-----------------------------------------------------------------------------
(* The dispatcher: nothing of its own comes between lookup and use. *)

\* WanStatus of an entry.
DmlSetWanStatus(i, v) ==
    /\ i \in listed
    /\ HasRow(dmlName[i])
    /\ WriteRow(Index(dmlName[i]), rows[Index(dmlName[i])].inst, v)
    /\ UNCHANGED <<psm, total, list, access>>

\* Enable of an entry: the link of an external interface follows it; the entry
\* takes the value whether or not that succeeds.
DmlSetEnable(i, b) ==
    /\ i \in listed
    /\ (i \in enabled) # b
    /\ enabled' = IF b THEN enabled \cup {i} ELSE enabled \ {i}
    /\ IF HasRow(dmlName[i]) /\ Index(dmlName[i]) > Internal
       THEN WriteRow(Index(dmlName[i]), rows[Index(dmlName[i])].inst,
                     IF b THEN "UP" ELSE "DOWN")
       ELSE UNCHANGED <<rows, written, mishaps>>
    /\ UNCHANGED <<psm, total, listed, dmlName, nextInst, access>>

\* Mutant: the new name is not looked for.
Bug_SetAnyName(i, n) ==
    /\ i \in listed
    /\ HasRow(dmlName[i])
    /\ rows' = [rows EXCEPT ![Index(dmlName[i])].name = n]
    /\ dmlName' = [dmlName EXCEPT ![i] = n]
    /\ Note("foreignRename", rows[Index(dmlName[i])].inst # i)
    /\ UNCHANGED <<psm, total, listed, enabled, nextInst, access, written>>

\* Name of an entry, refused when some row has it.
DmlSetName(i, n) ==
    /\ i \in listed
    /\ ~HasRow(n)
    /\ HasRow(dmlName[i])
    /\ rows' = [rows EXCEPT ![Index(dmlName[i])].name = n]
    /\ dmlName' = [dmlName EXCEPT ![i] = n]
    /\ Note("foreignRename", rows[Index(dmlName[i])].inst # i)
    /\ UNCHANGED <<psm, total, listed, enabled, nextInst, access, written>>

\* The entry is named after its instance number, the row after its index.
AddEntry ==
    /\ nextInst <= MaxInst
    /\ nextInst' = nextInst + 1
    /\ listed' = listed \cup {nextInst}
    /\ dmlName' = [dmlName EXCEPT ![nextInst] = nextInst - 1]
    /\ total' = total + 1
    /\ rows' = [rows EXCEPT ![total + 1] = NewRow(total, nextInst)]
    /\ Note("sameName", HasRow(total))
    /\ UNCHANGED <<psm, enabled, access, written>>

\* Mutant: the last row takes the place of row k, but not its values.
Bug_ValuesStay(k) ==
    [j \in Instances |->
        IF j >= total THEN Unused
        ELSE IF j = k THEN NewRow(rows[total].name, rows[total].inst) ELSE rows[j]]

\* Row k goes, the last row takes its place.
Without(k) ==
    [j \in Instances |-> IF j >= total THEN Unused ELSE IF j = k THEN rows[total] ELSE rows[j]]

\* The row of entry i is removed if it comes after the first ones.  Then DelEntry
\* takes the parent's context for the entry: it crashes on it, or leaves the
\* entry of the instance in the list.
DelAfter(i, first) ==
    /\ i \in listed \ enabled
    /\ HasRow(dmlName[i]) /\ Index(dmlName[i]) > first
    /\ \/ /\ total' = total - 1
          /\ rows' = Without(Index(dmlName[i]))
          /\ UNCHANGED <<psm, list, access, written, mishaps>>
       \/ /\ total' = Initial /\ rows' = FirstRows(psm)
          /\ listed' = 1..Initial /\ dmlName' = FirstNames(psm) /\ enabled' = {}
          /\ nextInst' = Initial + 1
          /\ access' = [t \in Threads |-> NoAccess]
          /\ written' = [j \in Instances |-> "DOWN"]
          /\ mishaps' = {}
          /\ UNCHANGED psm

\* Mutant: the last internal row may be deleted.
Bug_DelInternal(i) == DelAfter(i, Internal - 1)

DelEntry(i) == DelAfter(i, Internal)

-----------------------------------------------------------------------------
Dispatcher ==
    \/ \E i \in Instances :
         \/ \E v \in Status : DmlSetWanStatus(i, v)
         \/ \E b \in BOOLEAN : DmlSetEnable(i, b)
         \/ \E n \in Renames : DmlSetName(i, n)
         \/ DelEntry(i)
    \/ AddEntry

Users == \E t \in Threads :
    Write(t) \/ \E k \in 1..total, v \in Status : Lookup(t, rows[k].name, v)

Next == Dispatcher \/ Users

Spec == Init /\ [][Next]_vars

-----------------------------------------------------------------------------
(* Properties. *)

TypeOK ==
    /\ psm \in [1..Initial -> PsmNames]
    /\ total \in Internal..MaxInst
    /\ rows \in [Instances -> Row]
    /\ listed \subseteq Instances /\ enabled \subseteq listed
    /\ dmlName \in [Instances -> Nat]
    /\ nextInst \in 1..(MaxInst + 1) /\ total < nextInst
    /\ access \in [Threads -> Access]
    /\ written \in [Instances -> Status]
    /\ mishaps \subseteq Mishaps

\* Whatever is added, deleted and renamed: the entry of an internal interface
\* reaches its own row, although the entries of deleted interfaces may reach
\* rows of others, unless such an entry has renamed one.
InternalReached ==
    "foreignRename" \notin mishaps =>
        \A i \in 1..Internal :
            /\ rows[i].inst = i
            /\ HasRow(dmlName[i]) /\ Index(dmlName[i]) = i

\* Whatever is added, deleted and renamed, at any moment between a lookup and
\* its use: the row of an internal interface holds what was last written for
\* it, so an index to such a row never goes stale.
InternalWritten == \A i \in 1..Internal : rows[i].val = written[i]

\* Both: an internal interface is not lost among those that come and go.
InternalKept == InternalReached /\ InternalWritten

\* As long as nothing is deleted, and AddEntry never gave a name that was taken,
\* the entry of every instance reaches the row made for it.
EntryReachesRow ==
    (nextInst = total + 1 /\ "sameName" \notin mishaps) =>
        \A i \in listed : HasRow(dmlName[i]) /\ rows[Index(dmlName[i])].inst = i

\* A row that moves keeps what was written for its interface, as long as no
\* index to a row that has moved was used.
RowsKeepValues ==
    "strayWrite" \notin mishaps =>
        \A k \in 1..total : rows[k].val = written[rows[k].inst]

\* The rows without their order and their names.
Cells == {[inst |-> rows[k].inst, val |-> rows[k].val] : k \in 1..total}

Store == INSTANCE EthInterfaceStore WITH cells <- Cells, next <- nextInst

\* The table implements that store: moving the last row into the hole of a deleted
\* one removes that interface and no other, and mixes up nobody's values, whatever
\* indices are in use meanwhile.
StoreKept == Store!Spec
=============================================================================
