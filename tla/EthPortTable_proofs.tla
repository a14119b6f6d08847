------------------------ MODULE EthPortTable_proofs ------------------------
(***************************************************************************)
(* Proofs about the interface table, for any number of internal interfaces *)
(* and threads and whatever is added, deleted, renamed or written.         *)
(***************************************************************************)
EXTENDS EthPortTable, WellFoundedInduction, TLAPS

\* A non-empty set of numbers has a least one.
LEMMA LeastExists ==
    ASSUME NEW S \in SUBSET Nat, S # {}
    PROVE  \E k \in S : \A j \in S : k <= j
<1> DEFINE Less == {ss \in Nat \X Nat : ss[1] < ss[2]}
<1>1. OpToRel(<, Nat) = Less
  BY Zenon DEF OpToRel
<1>2. IsWellFoundedOn(Less, Nat)
  BY <1>1, NatLessThanWellFounded
<1>3. PICK k \in S : \A j \in S : ~ (<<j, k>> \in Less)
  <2> HIDE DEF Less
  <2> QED BY <1>2, WFMin
<1>4. ASSUME NEW j \in S PROVE k <= j
  <2>1. <<j, k>> \in Nat \X Nat /\ <<j, k>>[1] = j /\ <<j, k>>[2] = k
    BY <1>4
  <2>2. ~ (j < k)
    BY <1>3, <2>1, <1>4
  <2> QED BY <2>2, <1>4
<1> QED
  BY <1>4

\* The index of a name that has a row is the first of its rows.
LEMMA IndexIsFirst ==
    ASSUME TypeOK, NEW n, HasRow(n)
    PROVE  /\ Index(n) \in 1..total /\ rows[Index(n)].name = n
           /\ \A j \in 1..total : rows[j].name = n => Index(n) <= j
<1>1. RowsNamed(n) \in SUBSET Nat
  BY DEF RowsNamed, TypeOK
<1>2. \E k \in RowsNamed(n) : \A j \in RowsNamed(n) : k <= j
  BY <1>1, LeastExists DEF HasRow
<1>3. Index(n) \in RowsNamed(n) /\ \A j \in RowsNamed(n) : Index(n) <= j
  BY <1>2 DEF Index
<1> QED
  BY <1>3 DEF RowsNamed

\* The table and the names that the start-up makes are well typed.
LEMMA FirstRowsTyped ==
    ASSUME psm \in [1..Initial -> PsmNames]
    PROVE  /\ FirstRows(psm) \in [Instances -> Row]
           /\ FirstNames(psm) \in [Instances -> Nat]
<1>1. Unused \in Row
  BY CountsAssumption DEF Unused, NewRow, Row, Instances, Status
<1>2. ASSUME NEW k \in Instances, k <= Initial PROVE NewRow(psm[k], k) \in Row
  <2>1. k \in 1..Initial
    BY <1>2, CountsAssumption DEF Instances
  <2> QED
    BY <2>1, NamesAssumption DEF NewRow, Row, Instances, Status
<1>3. ASSUME NEW i \in Instances, i <= Initial PROVE psm[i] \in Nat
  <2>1. i \in 1..Initial
    BY <1>3, CountsAssumption DEF Instances
  <2> QED
    BY <2>1, NamesAssumption
<1> QED
  BY <1>1, <1>2, <1>3 DEF FirstRows, FirstNames

\* Setting a field of a row gives a row.
LEMMA FieldSet ==
    ASSUME NEW r \in Row
    PROVE  /\ \A v \in Status : [r EXCEPT !.val = v] \in Row
           /\ \A n \in Nat : [r EXCEPT !.name = n] \in Row
  BY DEF Row

\* A write through an index keeps the types of what it writes.
LEMMA WriteRowTyped ==
    ASSUME TypeOK, NEW k \in Instances, NEW i \in Instances, NEW v \in Status,
           WriteRow(k, i, v)
    PROVE  /\ rows' \in [Instances -> Row] /\ written' \in [Instances -> Status]
           /\ mishaps' \subseteq Mishaps
<1>1. rows[k] \in Row /\ [rows[k] EXCEPT !.val = v] \in Row
  BY FieldSet DEF TypeOK
<1>2. [rows EXCEPT ![k].val = v] \in [Instances -> Row]
  BY <1>1 DEF TypeOK
<1> QED
  BY <1>2 DEF TypeOK, WriteRow, Note, Mishaps

\* The index of a name, and the instance of the row there, are instances.
LEMMA IndexTyped ==
    ASSUME TypeOK, NEW n, HasRow(n)
    PROVE  Index(n) \in Instances /\ rows[Index(n)].inst \in Instances
<1>1. Index(n) \in Instances
  BY IndexIsFirst, CountsAssumption DEF TypeOK, Instances
<1> QED
  BY <1>1 DEF TypeOK, Row

\* A step keeps the types.
LEMMA TypeStep == ASSUME TypeOK, [Next]_vars PROVE TypeOK'
<1>1. ASSUME NEW i \in Instances, NEW v \in Status, DmlSetWanStatus(i, v) PROVE TypeOK'
  <2>1. HasRow(dmlName[i]) /\ WriteRow(Index(dmlName[i]), rows[Index(dmlName[i])].inst, v)
    BY <1>1 DEF DmlSetWanStatus
  <2>2. Index(dmlName[i]) \in Instances /\ rows[Index(dmlName[i])].inst \in Instances
    BY <2>1, IndexTyped
  <2>3. rows' \in [Instances -> Row] /\ written' \in [Instances -> Status] /\ mishaps' \subseteq Mishaps
    BY <2>1, <2>2, WriteRowTyped
  <2> QED BY <1>1, <2>3 DEF DmlSetWanStatus, TypeOK, list
<1>2. ASSUME NEW i \in Instances, NEW b \in BOOLEAN, DmlSetEnable(i, b) PROVE TypeOK'
  <2>1. rows' \in [Instances -> Row] /\ written' \in [Instances -> Status] /\ mishaps' \subseteq Mishaps
    <3>1. CASE HasRow(dmlName[i]) /\ Index(dmlName[i]) > Internal
      <4>1. WriteRow(Index(dmlName[i]), rows[Index(dmlName[i])].inst, IF b THEN "UP" ELSE "DOWN")
        BY <1>2, <3>1 DEF DmlSetEnable
      <4>2. Index(dmlName[i]) \in Instances /\ rows[Index(dmlName[i])].inst \in Instances
        BY <3>1, IndexTyped
      <4>3. (IF b THEN "UP" ELSE "DOWN") \in Status
        BY DEF Status
      <4> QED BY <4>1, <4>2, <4>3, WriteRowTyped
    <3>2. CASE ~(HasRow(dmlName[i]) /\ Index(dmlName[i]) > Internal)
      BY <1>2, <3>2 DEF DmlSetEnable, TypeOK
    <3> QED BY <3>1, <3>2
  <2>2. enabled' \subseteq listed'
    BY <1>2 DEF DmlSetEnable, TypeOK
  <2> QED BY <1>2, <2>1, <2>2 DEF DmlSetEnable, TypeOK
<1>3. ASSUME NEW i \in Instances, NEW n \in Renames, DmlSetName(i, n) PROVE TypeOK'
  <2>1. n \in Nat
    BY NamesAssumption
  <2>2. Index(dmlName[i]) \in Instances
    BY <1>3, IndexTyped DEF DmlSetName
  <2>3. [rows[Index(dmlName[i])] EXCEPT !.name = n] \in Row
    BY <2>1, <2>2, FieldSet DEF TypeOK
  <2>4. [rows EXCEPT ![Index(dmlName[i])].name = n] \in [Instances -> Row]
    BY <2>2, <2>3 DEF TypeOK
  <2> QED BY <1>3, <2>1, <2>4 DEF DmlSetName, TypeOK, Note, Mishaps
<1>4. ASSUME NEW i \in Instances, DelEntry(i) PROVE TypeOK'
  <2> USE <1>4 DEF DelEntry, DelAfter
  <2>1. CASE total' = total - 1 /\ rows' = Without(Index(dmlName[i]))
             /\ UNCHANGED <<psm, list, access, written, mishaps>>
    <3>1. total - 1 \in Internal..MaxInst
      BY IndexIsFirst, CountsAssumption DEF TypeOK
    <3>2. Unused \in Row /\ rows[total] \in Row
      <4>1. total \in Instances /\ 1 \in Instances
        BY CountsAssumption DEF TypeOK, Instances
      <4>2. Unused \in Row
        BY <4>1 DEF Unused, NewRow, Row, Status
      <4> QED BY <4>1, <4>2 DEF TypeOK
    <3>3. rows' \in [Instances -> Row]
      BY <2>1, <3>2 DEF Without, TypeOK
    <3> QED BY <2>1, <3>1, <3>3, CountsAssumption DEF TypeOK, list
  <2>2. CASE /\ total' = Initial /\ rows' = FirstRows(psm)
             /\ listed' = 1..Initial /\ dmlName' = FirstNames(psm) /\ enabled' = {}
             /\ nextInst' = Initial + 1
             /\ access' = [t \in Threads |-> NoAccess]
             /\ written' = [j \in Instances |-> "DOWN"]
             /\ mishaps' = {} /\ UNCHANGED psm
    <3>1. psm' \in [1..Initial -> PsmNames] /\ mishaps' \subseteq Mishaps
      BY <2>2 DEF TypeOK
    <3>2. rows' \in [Instances -> Row] /\ dmlName' \in [Instances -> Nat]
      BY <2>2, FirstRowsTyped DEF TypeOK
    <3>3. access' \in [Threads -> Access] /\ written' \in [Instances -> Status]
      BY <2>2, CountsAssumption DEF NoAccess, Access, Instances, Status
    <3>4. Initial \in Internal..MaxInst /\ 1..Initial \subseteq Instances
          /\ Initial + 1 \in 1..(MaxInst + 1) /\ Initial < Initial + 1
      BY CountsAssumption DEF Instances
    <3> QED BY <2>2, <3>1, <3>2, <3>3, <3>4 DEF TypeOK
  <2> QED BY <2>1, <2>2
<1>5. ASSUME AddEntry PROVE TypeOK'
  <2> USE <1>5, CountsAssumption DEF AddEntry
  <2>1. nextInst \in Instances /\ total + 1 \in Instances /\ total \in Nat
    BY DEF TypeOK, Instances
  <2>2. NewRow(total, nextInst) \in Row
    BY <2>1 DEF NewRow, Row, Status
  <2>3. rows' \in [Instances -> Row] /\ dmlName' \in [Instances -> Nat]
    BY <2>1, <2>2 DEF TypeOK, Instances
  <2>4. total' \in Internal..MaxInst /\ nextInst' \in 1..(MaxInst + 1) /\ total' < nextInst'
    BY DEF TypeOK
  <2>5. mishaps' \subseteq Mishaps
    BY DEF TypeOK, Note, Mishaps
  <2>6. listed' \subseteq Instances
    BY <2>1 DEF TypeOK
  <2> QED BY <2>3, <2>4, <2>5, <2>6 DEF TypeOK
<1>6. ASSUME NEW t \in Threads, Write(t) PROVE TypeOK'
  <2>1. access[t] \in Access /\ NoAccess \in Access
    BY CountsAssumption DEF TypeOK, NoAccess, Access, Instances, Status
  <2>2. rows' \in [Instances -> Row] /\ written' \in [Instances -> Status] /\ mishaps' \subseteq Mishaps
    BY <1>6, <2>1, WriteRowTyped DEF Write, Access
  <2> QED BY <1>6, <2>1, <2>2 DEF Write, TypeOK, list
<1>7. ASSUME NEW t \in Threads, NEW n, NEW v \in Status, Lookup(t, n, v) PROVE TypeOK'
  <2>1. [busy |-> TRUE, index |-> Index(n), inst |-> rows[Index(n)].inst, status |-> v] \in Access
    BY <1>7, IndexTyped DEF Lookup, Access
  <2> QED BY <1>7, <2>1 DEF Lookup, TypeOK, list
<1>8. CASE UNCHANGED vars
  BY <1>8 DEF vars, TypeOK
<1> QED
  BY <1>1, <1>2, <1>3, <1>4, <1>5, <1>6, <1>7, <1>8 DEF Next, Dispatcher, Users

\* Every variable keeps its type: in particular no internal row is ever
\* deleted, and there are never more rows than instance numbers given out.
THEOREM TypeCorrect == Spec => []TypeOK
<1>1. Init => TypeOK
  <2> SUFFICES ASSUME Init PROVE TypeOK
    OBVIOUS
  <2>1. psm \in [1..Initial -> PsmNames]
    BY DEF Init
  <2>2. rows \in [Instances -> Row] /\ dmlName \in [Instances -> Nat]
    BY <2>1, FirstRowsTyped DEF Init
  <2>3. NoAccess \in Access
    BY CountsAssumption DEF NoAccess, Access, Instances, Status
  <2>4. access \in [Threads -> Access] /\ written \in [Instances -> Status]
    BY <2>3 DEF Init, Status
  <2>5. Initial \in Internal..MaxInst /\ 1..Initial \subseteq Instances
        /\ Initial + 1 \in 1..(MaxInst + 1) /\ Initial < Initial + 1
    BY CountsAssumption DEF Instances
  <2> QED
    BY <2>1, <2>2, <2>4, <2>5 DEF Init, TypeOK
<1> QED
  BY <1>1, TypeStep, PTL DEF Spec

-----------------------------------------------------------------------------
(* Indexes of internal rows never go stale. *)

\* The row of internal interface i, of table r, is its own and holds what w has
\* for it; the rows after them, of the first n, are of external interfaces.
Own(r, w) == \A i \in 1..Internal : r[i].inst = i /\ r[i].val = w[i]
OthersAfter(r, n) == \A k \in (Internal + 1)..n : r[k].inst > Internal

\* An index of an internal row is of that row, and no other index is of one.
ApartAt(k, i) == (k <= Internal => i = k) /\ (k > Internal => i > Internal)
Apart == \A t \in Threads : access[t].busy => ApartAt(access[t].index, access[t].inst)

\* InternalWritten is not inductive: a pending write must also be known to be
\* meant for the internal row it goes to, whatever moved in between.
Kept == TypeOK /\ Own(rows, written) /\ OthersAfter(rows, total) /\ Apart

\* The row that a name leads to keeps internal and external apart.
LEMMA IndexApart ==
    ASSUME Kept, NEW n, HasRow(n)
    PROVE  ApartAt(Index(n), rows[Index(n)].inst)
<1>1. Index(n) \in 1..total
  BY IndexIsFirst DEF Kept
<1>2. CASE Index(n) <= Internal
  BY <1>1, <1>2, CountsAssumption DEF Kept, Own, ApartAt
<1>3. CASE Index(n) > Internal
  BY <1>1, <1>3, CountsAssumption DEF Kept, OthersAfter, ApartAt, TypeOK
<1> QED
  BY <1>1, <1>2, <1>3, CountsAssumption DEF TypeOK, Kept

\* A write that keeps internal and external apart keeps the invariant's parts
\* about the rows.
LEMMA WriteKeeps ==
    ASSUME Kept, NEW k \in Instances, NEW i \in Instances, NEW v \in Status,
           ApartAt(k, i), WriteRow(k, i, v)
    PROVE  Own(rows', written') /\ OthersAfter(rows', total)
<1>1. ASSUME NEW j \in Instances PROVE rows'[j].inst = rows[j].inst
  <2>1. rows[j] \in Row /\ [rows[j] EXCEPT !.val = v].inst = rows[j].inst
    BY DEF Kept, TypeOK, Row
  <2>2. rows'[j] = rows[j] \/ rows'[j] = [rows[j] EXCEPT !.val = v]
    BY DEF Kept, TypeOK, WriteRow
  <2> QED BY <2>1, <2>2
<1>2. 1..Internal \subseteq Instances /\ (Internal + 1)..total \subseteq Instances
  BY CountsAssumption DEF Kept, TypeOK, Instances
<1>3. OthersAfter(rows', total)
  BY <1>1, <1>2 DEF Kept, OthersAfter
<1>4. ASSUME NEW j \in 1..Internal PROVE rows'[j].val = written'[j]
  <2>1. j \in Instances /\ j <= total /\ j <= Internal /\ k \in Nat /\ i \in Nat
    BY <1>2, CountsAssumption DEF Kept, TypeOK, Instances
  <2>2. CASE j = k
    <3>1. i = j /\ k <= total
      BY <2>1, <2>2 DEF ApartAt
    <3>2. rows'[j] = [rows[j] EXCEPT !.val = v] /\ rows[j] \in Row
      BY <2>1, <2>2, <3>1 DEF WriteRow, Kept, TypeOK
    <3>3. rows'[j].val = v
      BY <3>2 DEF Row
    <3> QED BY <2>1, <3>1, <3>3 DEF WriteRow, Kept, TypeOK
  <2>3. CASE j # k
    <3>1. i # j
      BY <2>1, <2>3, CountsAssumption DEF ApartAt, Instances
    <3>2. rows'[j] = rows[j]
      BY <2>1, <2>3 DEF WriteRow, Kept, TypeOK
    <3>3. written'[j] = written[j]
      BY <2>1, <3>1 DEF WriteRow, Kept, TypeOK
    <3> QED BY <3>2, <3>3 DEF Kept, Own
  <2> QED BY <2>2, <2>3
<1> QED
  BY <1>1, <1>2, <1>3, <1>4 DEF Kept, Own

\* The first table has the rows in the order of their interfaces.
LEMMA FirstKept ==
    /\ Own(FirstRows(psm), [i \in Instances |-> "DOWN"])
    /\ OthersAfter(FirstRows(psm), Initial)
<1>1. ASSUME NEW k \in 1..Initial
      PROVE  k \in Instances /\ FirstRows(psm)[k].inst = k /\ FirstRows(psm)[k].val = "DOWN"
  <2>1. k \in Instances /\ k <= Initial
    BY CountsAssumption DEF Instances
  <2>2. FirstRows(psm)[k] = NewRow(psm[k], k)
    BY <2>1 DEF FirstRows
  <2> QED BY <2>1, <2>2 DEF NewRow
<1>2. 1..Internal \subseteq 1..Initial /\ (Internal + 1)..Initial \subseteq 1..Initial
  BY CountsAssumption
<1>3. \A k \in (Internal + 1)..Initial : k > Internal
  BY CountsAssumption
<1>4. Own(FirstRows(psm), [i \in Instances |-> "DOWN"])
  BY <1>1, <1>2 DEF Own
<1>5. OthersAfter(FirstRows(psm), Initial)
  BY <1>1, <1>2, <1>3 DEF OthersAfter
<1> QED
  BY <1>4, <1>5

\* The invariant holds of every behaviour.
LEMMA RowsKept == Spec => []Kept
<1>1. Init => Own(rows, written) /\ OthersAfter(rows, total) /\ Apart
  BY FirstKept DEF Init, Apart, NoAccess
<1>2. TypeOK /\ TypeOK' /\ Own(rows, written) /\ OthersAfter(rows, total) /\ Apart /\ [Next]_vars
        => (Own(rows, written) /\ OthersAfter(rows, total) /\ Apart)'
  <2> SUFFICES ASSUME Kept, TypeOK', [Next]_vars
               PROVE  Own(rows', written') /\ OthersAfter(rows', total') /\ Apart'
    BY DEF Kept, Own, OthersAfter, Apart, ApartAt
  <2> DEFINE Goal == Own(rows', written') /\ OthersAfter(rows', total') /\ Apart'
  <2>0. TypeOK
    BY DEF Kept
  <2>1. ASSUME NEW i \in Instances, NEW v \in Status, DmlSetWanStatus(i, v) PROVE Goal
    <3>1. HasRow(dmlName[i]) /\ WriteRow(Index(dmlName[i]), rows[Index(dmlName[i])].inst, v)
      BY <2>1 DEF DmlSetWanStatus
    <3>2. Own(rows', written') /\ OthersAfter(rows', total)
      BY <2>0, <3>1, IndexTyped, IndexApart, WriteKeeps
    <3> QED BY <2>1, <3>2 DEF DmlSetWanStatus, Kept, Apart
  <2>2. ASSUME NEW i \in Instances, NEW b \in BOOLEAN, DmlSetEnable(i, b) PROVE Goal
    <3>1. Own(rows', written') /\ OthersAfter(rows', total)
      <4>1. CASE HasRow(dmlName[i]) /\ Index(dmlName[i]) > Internal
        <5>1. WriteRow(Index(dmlName[i]), rows[Index(dmlName[i])].inst, IF b THEN "UP" ELSE "DOWN")
          BY <2>2, <4>1 DEF DmlSetEnable
        <5>2. (IF b THEN "UP" ELSE "DOWN") \in Status
          BY DEF Status
        <5> QED BY <2>0, <4>1, <5>1, <5>2, IndexTyped, IndexApart, WriteKeeps
      <4>2. CASE ~(HasRow(dmlName[i]) /\ Index(dmlName[i]) > Internal)
        BY <2>2, <4>2 DEF DmlSetEnable, Kept
      <4> QED BY <4>1, <4>2
    <3> QED BY <2>2, <3>1 DEF DmlSetEnable, Kept, Apart
  <2>3. ASSUME NEW i \in Instances, NEW n \in Renames, DmlSetName(i, n) PROVE Goal
    <3>1. Index(dmlName[i]) \in Instances
      BY <2>0, <2>3, IndexTyped DEF DmlSetName
    <3>2. \A k \in Instances : rows'[k].inst = rows[k].inst /\ rows'[k].val = rows[k].val
      BY <2>0, <2>3, <3>1 DEF DmlSetName, TypeOK, Row
    <3>3. 1..Internal \subseteq Instances /\ (Internal + 1)..total \subseteq Instances
      BY <2>0, CountsAssumption DEF TypeOK, Instances
    <3> QED BY <2>3, <3>2, <3>3 DEF DmlSetName, Kept, Own, OthersAfter, Apart
  <2>4. ASSUME NEW i \in Instances, DelEntry(i) PROVE Goal
    <3> DEFINE k == Index(dmlName[i])
    <3>1. k \in 1..total /\ k > Internal
      BY <2>0, <2>4, IndexIsFirst DEF DelEntry, DelAfter
    <3>2. CASE total' = total - 1 /\ rows' = Without(k)
               /\ UNCHANGED <<psm, list, access, written, mishaps>>
      <4>1. total \in (Internal + 1)..total /\ total \in Nat /\ Internal \in Nat
            /\ total <= MaxInst /\ MaxInst \in Nat
        BY <2>0, <3>1, CountsAssumption DEF TypeOK
      <4>2. \A j \in 1..Internal : rows'[j] = rows[j]
        BY <3>1, <3>2, <4>1 DEF Without, Instances
      <4>3. \A j \in (Internal + 1)..(total - 1) :
              rows'[j] = IF j = k THEN rows[total] ELSE rows[j]
        BY <3>1, <3>2, <4>1 DEF Without, Instances
      <4>4. Own(rows', written')
        BY <3>2, <4>2 DEF Kept, Own
      <4>5. OthersAfter(rows', total')
        BY <3>2, <4>1, <4>3 DEF Kept, OthersAfter
      <4> QED BY <3>2, <4>4, <4>5 DEF Kept, Apart
    <3>3. CASE /\ total' = Initial /\ rows' = FirstRows(psm)
               /\ access' = [t \in Threads |-> NoAccess]
               /\ written' = [j \in Instances |-> "DOWN"]
      BY <3>3, FirstKept DEF Apart, NoAccess
    <3> QED BY <2>4, <3>2, <3>3 DEF DelEntry, DelAfter
  <2>5. ASSUME AddEntry PROVE Goal
    <3>1. total \in Nat /\ total >= Internal /\ total < nextInst /\ nextInst \in Nat
          /\ Internal \in Nat /\ total + 1 \in Instances
          /\ 1..Internal \subseteq Instances /\ (Internal + 1)..(total + 1) \subseteq Instances
      BY <2>0, <2>5, CountsAssumption DEF AddEntry, TypeOK, Instances
    <3>2. \A k \in Instances : rows'[k] = IF k = total + 1 THEN NewRow(total, nextInst) ELSE rows[k]
      BY <2>0, <2>5 DEF AddEntry, TypeOK
    <3>3. Own(rows', written')
      BY <2>5, <3>1, <3>2 DEF AddEntry, Kept, Own
    <3>4. NewRow(total, nextInst).inst > Internal
      BY <3>1 DEF NewRow
    <3>5. OthersAfter(rows', total')
      BY <2>5, <3>1, <3>2, <3>4 DEF AddEntry, Kept, OthersAfter
    <3> QED BY <2>5, <3>3, <3>5 DEF AddEntry, Kept, Apart
  <2>6. ASSUME NEW t \in Threads, Write(t) PROVE Goal
    <3>1. access[t].index \in Instances /\ access[t].inst \in Instances /\ access[t].status \in Status
      BY <2>0 DEF TypeOK, Access
    <3>2. ApartAt(access[t].index, access[t].inst)
      BY <2>6 DEF Write, Kept, Apart
    <3>3. Own(rows', written') /\ OthersAfter(rows', total)
      BY <2>6, <3>1, <3>2, WriteKeeps DEF Write
    <3>4. Apart'
      BY <2>0, <2>6 DEF Write, Kept, Apart, TypeOK, NoAccess
    <3> QED BY <2>6, <3>3, <3>4 DEF Write
  <2>7. ASSUME NEW t \in Threads, NEW n, NEW v \in Status, Lookup(t, n, v) PROVE Goal
    <3>1. ApartAt(Index(n), rows[Index(n)].inst)
      BY <2>7, IndexApart DEF Lookup
    <3>2. Apart'
      BY <2>0, <2>7, <3>1 DEF Lookup, Kept, Apart, TypeOK
    <3> QED BY <2>7, <3>2 DEF Lookup, Kept
  <2>8. CASE UNCHANGED vars
    BY <2>8 DEF vars, Kept, Apart
  <2> QED
    BY <2>1, <2>2, <2>3, <2>4, <2>5, <2>6, <2>7, <2>8 DEF Next, Dispatcher, Users
<1> QED
  BY TypeCorrect, <1>1, <1>2, PTL DEF Spec, Kept

\* InternalWritten: whatever is added, deleted and renamed between a lookup and
\* its use, an internal row holds what was last written for its interface.
THEOREM InternalHeld == Spec => []InternalWritten
<1>1. Kept => InternalWritten
  BY DEF Kept, Own, InternalWritten
<1> QED
  BY RowsKept, <1>1, PTL

-----------------------------------------------------------------------------
(* What a step does to the rows, whoever takes it. *)

\* The names in PSM differ from each other.
PsmDistinct == \A i, j \in 1..Initial : psm[i] = psm[j] => i = j

LEMMA PsmKept == Spec => []PsmDistinct
<1>1. Init => PsmDistinct
  BY DEF Init, PsmDistinct
<1>2. PsmDistinct /\ [Next]_vars => PsmDistinct'
  <2> SUFFICES ASSUME [Next]_vars PROVE UNCHANGED psm
    BY DEF PsmDistinct
  <2> QED
    BY DEF Next, Dispatcher, Users, DmlSetWanStatus, DmlSetEnable, DmlSetName, DelEntry,
           DelAfter, AddEntry, Write, Lookup, vars
<1> QED
  BY <1>1, <1>2, PTL DEF Spec

\* A row that has a name is found by it, in the first place where it is.
LEMMA IndexUnique ==
    ASSUME TypeOK, NEW k \in 1..total, \A j \in 1..total : rows[j].name = rows[k].name => k <= j
    PROVE  HasRow(rows[k].name) /\ Index(rows[k].name) = k
<1>1. HasRow(rows[k].name)
  BY DEF HasRow, RowsNamed
<1>2. Index(rows[k].name) \in 1..total /\ rows[Index(rows[k].name)].name = rows[k].name
      /\ Index(rows[k].name) <= k
  BY <1>1, IndexIsFirst
<1>3. k <= Index(rows[k].name)
  BY <1>2
<1> QED
  BY <1>1, <1>2, <1>3 DEF TypeOK

\* An instance that a write is for is that of a row, or of an index that is held.
Source(i) == \/ \E k \in 1..total : i = rows[k].inst
             \/ \E t \in Threads : access[t].busy /\ i = access[t].inst

\* A write for an instance, through an index that someone holds or has looked up.
AnyWrite == /\ \E k, i \in Instances, v \in Status : Source(i) /\ WriteRow(k, i, v)
            /\ UNCHANGED <<psm, total, listed, dmlName, nextInst>>

\* Either a step is one of those that move or rename rows, or it writes at most
\* the value of one row.
LEMMA StepKinds ==
    ASSUME TypeOK, [Next]_vars
    PROVE  \/ UNCHANGED <<psm, total, rows, listed, dmlName, nextInst, written, mishaps>>
           \/ AnyWrite
           \/ \E i \in Instances, n \in Renames : DmlSetName(i, n)
           \/ \E i \in Instances : DelEntry(i)
           \/ AddEntry
<1>0. ASSUME NEW n, HasRow(n), NEW v \in Status, WriteRow(Index(n), rows[Index(n)].inst, v)
      PROVE  \E k, i \in Instances, w \in Status : Source(i) /\ WriteRow(k, i, w)
  <2>1. Index(n) \in Instances /\ rows[Index(n)].inst \in Instances /\ Index(n) \in 1..total
    BY <1>0, IndexTyped, IndexIsFirst
  <2> QED BY <1>0, <2>1 DEF Source
<1>1. ASSUME NEW i \in Instances, NEW v \in Status, DmlSetWanStatus(i, v) PROVE AnyWrite
  BY <1>0, <1>1 DEF DmlSetWanStatus, list, AnyWrite
<1>2. ASSUME NEW i \in Instances, NEW b \in BOOLEAN, DmlSetEnable(i, b)
      PROVE  AnyWrite \/ UNCHANGED <<psm, total, rows, listed, dmlName, nextInst, written, mishaps>>
  <2>1. CASE HasRow(dmlName[i]) /\ Index(dmlName[i]) > Internal
    <3>1. (IF b THEN "UP" ELSE "DOWN") \in Status
      BY DEF Status
    <3> QED BY <1>0, <1>2, <2>1, <3>1 DEF DmlSetEnable, AnyWrite
  <2>2. CASE ~(HasRow(dmlName[i]) /\ Index(dmlName[i]) > Internal)
    BY <1>2, <2>2 DEF DmlSetEnable
  <2> QED BY <2>1, <2>2
<1>3. ASSUME NEW t \in Threads, Write(t) PROVE AnyWrite
  <2>1. access[t].index \in Instances /\ access[t].inst \in Instances /\ access[t].status \in Status
    BY DEF TypeOK, Access
  <2>2. Source(access[t].inst)
    BY <1>3 DEF Write, Source
  <2> QED BY <1>3, <2>1, <2>2 DEF Write, list, AnyWrite
<1>4. ASSUME NEW t \in Threads, NEW n, NEW v \in Status, Lookup(t, n, v)
      PROVE  UNCHANGED <<psm, total, rows, listed, dmlName, nextInst, written, mishaps>>
  BY <1>4 DEF Lookup, list
<1>5. CASE UNCHANGED vars
  BY <1>5 DEF vars
<1> QED
  BY <1>1, <1>2, <1>3, <1>4, <1>5 DEF Next, Dispatcher, Users

\* A write changes the value of the row it goes to, if that is in the table.
LEMMA WriteEffect ==
    ASSUME TypeOK, NEW k \in Instances, NEW i \in Instances, NEW v \in Status, WriteRow(k, i, v)
    PROVE  /\ \A j \in Instances :
                /\ rows'[j].inst = rows[j].inst /\ rows'[j].name = rows[j].name
                /\ rows'[j].val = IF j = k /\ k <= total THEN v ELSE rows[j].val
                /\ written'[j] = IF j = i THEN v ELSE written[j]
           /\ \A m \in Mishaps : m \in mishaps => m \in mishaps'
           /\ "strayWrite" \notin mishaps' => k <= total /\ rows[k].inst = i
           /\ mishaps' \cup {"strayWrite"} = mishaps \cup {"strayWrite"}
<1>1. ASSUME NEW j \in Instances
      PROVE  /\ rows'[j].inst = rows[j].inst /\ rows'[j].name = rows[j].name
             /\ rows'[j].val = IF j = k /\ k <= total THEN v ELSE rows[j].val
  <2>1. rows[j] \in Row
    BY DEF TypeOK
  <2>2. LET r == [rows[j] EXCEPT !.val = v]
        IN  r.inst = rows[j].inst /\ r.name = rows[j].name /\ r.val = v
    BY <2>1 DEF Row
  <2>3. rows'[j] = IF j = k /\ k <= total THEN [rows[j] EXCEPT !.val = v] ELSE rows[j]
    BY DEF TypeOK, WriteRow
  <2> QED BY <2>2, <2>3
<1>2. ASSUME NEW j \in Instances PROVE written'[j] = IF j = i THEN v ELSE written[j]
  BY DEF TypeOK, WriteRow
<1> QED
  BY <1>1, <1>2 DEF WriteRow, Note

\* A rename changes one row's name, and the name of the entry.
LEMMA RenameEffect ==
    ASSUME TypeOK, NEW i \in Instances, NEW n \in Renames, DmlSetName(i, n)
    PROVE  LET k == Index(dmlName[i]) IN
           /\ k \in 1..total /\ i \in listed /\ rows[k].name = dmlName[i]
           /\ \A j \in 1..total : rows[j].name = dmlName[i] => k <= j
           /\ \A j \in 1..total : rows[j].name # n
           /\ \A j \in Instances :
                /\ rows'[j].inst = rows[j].inst /\ rows'[j].val = rows[j].val
                /\ rows'[j].name = IF j = k THEN n ELSE rows[j].name
                /\ dmlName'[j] = IF j = i THEN n ELSE dmlName[j]
           /\ "foreignRename" \notin mishaps' => "foreignRename" \notin mishaps /\ rows[k].inst = i
           /\ "sameName" \notin mishaps' => "sameName" \notin mishaps
           /\ "strayWrite" \notin mishaps' => "strayWrite" \notin mishaps
           /\ UNCHANGED <<psm, total, listed, nextInst, access, written>>
<1> DEFINE k == Index(dmlName[i])
<1>1. k \in 1..total /\ rows[k].name = dmlName[i]
      /\ \A j \in 1..total : rows[j].name = dmlName[i] => k <= j
  BY IndexIsFirst DEF DmlSetName
<1>2. k \in Instances
  BY IndexTyped DEF DmlSetName
<1>3. ASSUME NEW j \in Instances
      PROVE  /\ rows'[j].inst = rows[j].inst /\ rows'[j].val = rows[j].val
             /\ rows'[j].name = IF j = k THEN n ELSE rows[j].name
             /\ dmlName'[j] = IF j = i THEN n ELSE dmlName[j]
  <2>1. rows[j] \in Row
    BY DEF TypeOK
  <2>2. LET r == [rows[j] EXCEPT !.name = n]
        IN  r.inst = rows[j].inst /\ r.val = rows[j].val /\ r.name = n
    BY <2>1 DEF Row
  <2>3. rows'[j] = IF j = k THEN [rows[j] EXCEPT !.name = n] ELSE rows[j]
    BY <1>2 DEF TypeOK, DmlSetName
  <2>4. dmlName'[j] = IF j = i THEN n ELSE dmlName[j]
    BY DEF TypeOK, DmlSetName
  <2> QED BY <2>2, <2>3, <2>4
<1>4. \A j \in 1..total : rows[j].name # n
  BY DEF DmlSetName, HasRow, RowsNamed
<1> QED
  BY <1>1, <1>3, <1>4 DEF DmlSetName, Note

\* A deletion fills the hole with the last row, or the agent starts again.
LEMMA DeleteEffect ==
    ASSUME TypeOK, NEW i \in Instances, DelEntry(i)
    PROVE  \/ \E k \in (Internal + 1)..total :
                /\ total' = total - 1
                /\ \A j \in 1..(total - 1) : rows'[j] = IF j = k THEN rows[total] ELSE rows[j]
                /\ UNCHANGED <<psm, list, access, written, mishaps>>
           \/ /\ total' = Initial /\ rows' = FirstRows(psm)
              /\ listed' = 1..Initial /\ dmlName' = FirstNames(psm)
              /\ nextInst' = Initial + 1
              /\ access' = [t \in Threads |-> NoAccess]
              /\ written' = [j \in Instances |-> "DOWN"]
              /\ mishaps' = {} /\ UNCHANGED psm
<1> DEFINE k == Index(dmlName[i])
<1>1. k \in 1..total /\ k > Internal
  BY IndexIsFirst DEF DelEntry, DelAfter
<1>2. k \in (Internal + 1)..total
  BY <1>1, CountsAssumption DEF TypeOK
<1>3. CASE total' = total - 1 /\ rows' = Without(k)
           /\ UNCHANGED <<psm, list, access, written, mishaps>>
  <2>1. ASSUME NEW j \in 1..(total - 1)
        PROVE  rows'[j] = IF j = k THEN rows[total] ELSE rows[j]
    BY <1>1, <1>3, CountsAssumption DEF Without, Instances, TypeOK
  <2> HIDE DEF k
  <2> QED BY <1>2, <1>3, <2>1
<1> QED
  BY <1>3 DEF DelEntry, DelAfter

\* The first rows and entries, by number.
LEMMA FirstEffect ==
    ASSUME NEW k \in 1..Initial
    PROVE  /\ k \in Instances
           /\ FirstRows(psm)[k].inst = k /\ FirstRows(psm)[k].name = psm[k]
           /\ FirstRows(psm)[k].val = "DOWN" /\ FirstNames(psm)[k] = psm[k]
<1>1. k \in Instances /\ k <= Initial
  BY CountsAssumption DEF Instances
<1>2. FirstRows(psm)[k] = NewRow(psm[k], k) /\ FirstNames(psm)[k] = psm[k]
  BY <1>1 DEF FirstRows, FirstNames
<1> QED
  BY <1>1, <1>2 DEF NewRow

\* A new row comes last, with the next number.
LEMMA AddEffect ==
    ASSUME TypeOK, AddEntry
    PROVE  /\ total + 1 \in Instances /\ total' = total + 1 /\ nextInst \in Instances
           /\ nextInst' = nextInst + 1 /\ listed' = listed \cup {nextInst}
           /\ rows'[total + 1].inst = nextInst /\ rows'[total + 1].name = total
           /\ rows'[total + 1].val = "DOWN"
           /\ \A j \in Instances : j # total + 1 => rows'[j] = rows[j]
           /\ \A j \in Instances : dmlName'[j] = IF j = nextInst THEN nextInst - 1 ELSE dmlName[j]
           /\ "sameName" \notin mishaps' =>
                "sameName" \notin mishaps /\ \A j \in 1..total : rows[j].name # total
           /\ "foreignRename" \notin mishaps' => "foreignRename" \notin mishaps
           /\ "strayWrite" \notin mishaps' => "strayWrite" \notin mishaps
           /\ UNCHANGED <<psm, access, written>>
<1>1. total + 1 \in Instances /\ nextInst \in Instances
  BY CountsAssumption DEF AddEntry, TypeOK, Instances
<1>2. rows'[total + 1] = NewRow(total, nextInst)
      /\ \A j \in Instances : j # total + 1 => rows'[j] = rows[j]
  BY <1>1 DEF AddEntry, TypeOK
<1>3. \A j \in Instances : dmlName'[j] = IF j = nextInst THEN nextInst - 1 ELSE dmlName[j]
  BY DEF AddEntry, TypeOK
<1> QED
  BY <1>1, <1>2, <1>3 DEF AddEntry, NewRow, Note, HasRow, RowsNamed

-----------------------------------------------------------------------------
(* The entries of internal interfaces. *)

\* InternalReached is not inductive: that an entry leads to its row survives a
\* rename of another one only if internal rows never share a name.
Reached ==
    "foreignRename" \notin mishaps =>
        \A i \in 1..Internal :
            /\ dmlName[i] = rows[i].name
            /\ \A j \in 1..Internal : rows[j].name = rows[i].name => j = i

LEMMA FirstReached ==
    ASSUME PsmDistinct, NEW i \in 1..Internal
    PROVE  /\ FirstNames(psm)[i] = FirstRows(psm)[i].name
           /\ \A j \in 1..Internal : FirstRows(psm)[j].name = FirstRows(psm)[i].name => j = i
<1>1. 1..Internal \subseteq 1..Initial
  BY CountsAssumption
<1> QED
  BY <1>1, FirstEffect DEF PsmDistinct

\* InternalReached: the entry of an internal interface leads to its own row, as
\* long as no entry has renamed a row of another interface.
THEOREM InternalNamed == Spec => []InternalReached
<1>1. Init => Reached
  <2> SUFFICES ASSUME Init PROVE Reached
    OBVIOUS
  <2>1. PsmDistinct
    BY DEF Init, PsmDistinct
  <2> QED BY <2>1, FirstReached DEF Init, Reached
<1>2. Kept /\ PsmDistinct /\ Reached /\ [Next]_vars => Reached'
  <2> SUFFICES ASSUME Kept, PsmDistinct, Reached, [Next]_vars, "foreignRename" \notin mishaps',
                      NEW i \in 1..Internal
               PROVE  /\ dmlName'[i] = rows'[i].name
                      /\ \A j \in 1..Internal : rows'[j].name = rows'[i].name => j = i
    BY DEF Reached
  <2>0. TypeOK /\ 1..Internal \subseteq 1..total /\ 1..total \subseteq Instances
        /\ total < nextInst /\ nextInst \in Nat /\ total \in Nat /\ Internal \in Nat
        /\ total >= Internal
    BY CountsAssumption DEF Kept, TypeOK, Instances
  <2>1. CASE UNCHANGED <<psm, total, rows, listed, dmlName, nextInst, written, mishaps>>
    BY <2>1 DEF Reached
  <2>2. CASE AnyWrite
    <3>1. PICK k \in Instances, m \in Instances, v \in Status : WriteRow(k, m, v)
      BY <2>2 DEF AnyWrite
    <3>2. \A j \in Instances : rows'[j].name = rows[j].name
      BY <2>0, <3>1, WriteEffect
    <3>3. "foreignRename" \in Mishaps
      BY DEF Mishaps
    <3>4. "foreignRename" \notin mishaps
      BY <2>0, <3>1, <3>3, WriteEffect
    <3>5. dmlName' = dmlName
      BY <2>2 DEF AnyWrite
    <3> QED BY <2>0, <3>2, <3>4, <3>5 DEF Reached
  <2>3. ASSUME NEW m \in Instances, NEW n \in Renames, DmlSetName(m, n)
        PROVE  /\ dmlName'[i] = rows'[i].name
               /\ \A j \in 1..Internal : rows'[j].name = rows'[i].name => j = i
    <3> DEFINE k == Index(dmlName[m])
    <3>1. /\ k \in 1..total /\ rows[k].inst = m
          /\ \A j \in 1..total : rows[j].name # n
          /\ \A j \in Instances : /\ rows'[j].name = IF j = k THEN n ELSE rows[j].name
                                  /\ dmlName'[j] = IF j = m THEN n ELSE dmlName[j]
          /\ "foreignRename" \notin mishaps
      BY <2>0, <2>3, RenameEffect
    <3> HIDE DEF k
    <3>2. \A j \in 1..Internal : j = k <=> j = m
      <4>1. CASE k <= Internal
        BY <2>0, <3>1, <4>1 DEF Kept, Own
      <4>2. CASE ~ (k <= Internal)
        <5>1. k \in (Internal + 1)..total
          BY <2>0, <3>1, <4>2
        <5>2. m > Internal
          BY <3>1, <5>1 DEF Kept, OthersAfter
        <5> QED BY <2>0, <5>1, <5>2
      <4> QED BY <4>1, <4>2
    <3> QED BY <2>0, <3>1, <3>2 DEF Reached
  <2>4. ASSUME NEW m \in Instances, DelEntry(m)
        PROVE  /\ dmlName'[i] = rows'[i].name
               /\ \A j \in 1..Internal : rows'[j].name = rows'[i].name => j = i
    <3>1. ASSUME NEW k \in (Internal + 1)..total,
                 \A j \in 1..(total - 1) : rows'[j] = IF j = k THEN rows[total] ELSE rows[j],
                 UNCHANGED <<psm, list, access, written, mishaps>>
          PROVE  /\ dmlName'[i] = rows'[i].name
                 /\ \A j \in 1..Internal : rows'[j].name = rows'[i].name => j = i
      <4>1. \A j \in 1..Internal : rows'[j] = rows[j]
        BY <2>0, <3>1
      <4> QED BY <3>1, <4>1 DEF list, Reached
    <3>2. CASE rows' = FirstRows(psm) /\ dmlName' = FirstNames(psm)
      BY <3>2, FirstReached
    <3> QED BY <2>0, <2>4, <3>1, <3>2, DeleteEffect
  <2>5. CASE AddEntry
    <3>1. \A j \in 1..Internal : rows'[j] = rows[j] /\ dmlName'[j] = dmlName[j]
      BY <2>0, <2>5, AddEffect
    <3>2. "foreignRename" \notin mishaps
      BY <2>0, <2>5, AddEffect
    <3> QED BY <3>1, <3>2 DEF Reached
  <2> QED
    BY <2>0, <2>1, <2>2, <2>3, <2>4, <2>5, StepKinds
<1>3. Kept /\ Reached => InternalReached
  <2> SUFFICES ASSUME Kept, Reached, "foreignRename" \notin mishaps, NEW i \in 1..Internal
               PROVE  rows[i].inst = i /\ HasRow(dmlName[i]) /\ Index(dmlName[i]) = i
    BY DEF InternalReached
  <2>1. TypeOK /\ i \in 1..total /\ total \in Nat /\ Internal \in Nat
    BY CountsAssumption DEF Kept, TypeOK
  <2>2. \A j \in 1..total : rows[j].name = rows[i].name => i <= j
    BY <2>1 DEF Reached
  <2>3. HasRow(rows[i].name) /\ Index(rows[i].name) = i
    BY <2>1, <2>2, IndexUnique
  <2> QED BY <2>3 DEF Reached, Kept, Own
<1> QED
  BY RowsKept, PsmKept, <1>1, <1>2, <1>3, PTL DEF Spec

\* Both together: the row of an internal interface is reached by its entry and holds
\* what was last written for it (DmlSetWanStatus, DmlSetEnable, AddEntry, DelEntry).
THEOREM InternalStays == Spec => []InternalKept
  BY InternalHeld, InternalNamed, PTL DEF InternalKept

-----------------------------------------------------------------------------
(* The entries of all interfaces, before anything is deleted. *)

\* EntryReachesRow is not inductive: rows and entries are then in the same
\* order, and no two rows have the same name.
InOrder ==
    (nextInst = total + 1 /\ "sameName" \notin mishaps) =>
        /\ listed = 1..total
        /\ \A i \in 1..total : rows[i].inst = i /\ dmlName[i] = rows[i].name
        /\ \A i, j \in 1..total : rows[i].name = rows[j].name => i = j

LEMMA FirstInOrder ==
    ASSUME PsmDistinct
    PROVE  /\ \A i \in 1..Initial : /\ FirstRows(psm)[i].inst = i
                                    /\ FirstNames(psm)[i] = FirstRows(psm)[i].name
           /\ \A i, j \in 1..Initial : FirstRows(psm)[i].name = FirstRows(psm)[j].name => i = j
  BY FirstEffect DEF PsmDistinct

\* EntryReachesRow: until something is deleted or a name is given twice, the
\* entry of every instance leads to the row made for it.
THEOREM EntriesReach == Spec => []EntryReachesRow
<1>1. Init => InOrder
  <2> SUFFICES ASSUME Init PROVE InOrder
    OBVIOUS
  <2>1. PsmDistinct
    BY DEF Init, PsmDistinct
  <2> QED BY <2>1, FirstInOrder DEF Init, InOrder
<1>2. TypeOK /\ PsmDistinct /\ InOrder /\ [Next]_vars => InOrder'
  <2> DEFINE Goal == /\ listed' = 1..total'
                     /\ \A i \in 1..total' : rows'[i].inst = i /\ dmlName'[i] = rows'[i].name
                     /\ \A i, j \in 1..total' : rows'[i].name = rows'[j].name => i = j
  <2> SUFFICES ASSUME TypeOK, PsmDistinct, InOrder, [Next]_vars,
                      nextInst' = total' + 1, "sameName" \notin mishaps'
               PROVE  Goal
    BY DEF InOrder
  <2>0. 1..total \subseteq Instances /\ total < nextInst /\ nextInst \in Nat /\ total \in Nat
    BY CountsAssumption DEF TypeOK, Instances
  <2>1. CASE UNCHANGED <<psm, total, rows, listed, dmlName, nextInst, written, mishaps>>
    BY <2>1 DEF InOrder
  <2>2. CASE AnyWrite
    <3>1. PICK k \in Instances, m \in Instances, v \in Status : WriteRow(k, m, v)
      BY <2>2 DEF AnyWrite
    <3>2. \A j \in Instances : rows'[j].name = rows[j].name /\ rows'[j].inst = rows[j].inst
      BY <3>1, WriteEffect
    <3>3. "sameName" \in Mishaps
      BY DEF Mishaps
    <3>4. "sameName" \notin mishaps
      BY <3>1, <3>3, WriteEffect
    <3>5. UNCHANGED <<total, listed, dmlName, nextInst>>
      BY <2>2 DEF AnyWrite
    <3> QED BY <2>0, <3>2, <3>4, <3>5 DEF InOrder
  <2>3. ASSUME NEW m \in Instances, NEW n \in Renames, DmlSetName(m, n) PROVE Goal
    <3> DEFINE k == Index(dmlName[m])
    <3>1. /\ k \in 1..total /\ rows[k].name = dmlName[m] /\ m \in listed
          /\ \A j \in 1..total : rows[j].name # n
          /\ \A j \in Instances : /\ rows'[j].inst = rows[j].inst
                                  /\ rows'[j].name = IF j = k THEN n ELSE rows[j].name
                                  /\ dmlName'[j] = IF j = m THEN n ELSE dmlName[j]
          /\ "sameName" \notin mishaps /\ UNCHANGED <<total, listed, nextInst>>
      BY <2>3, RenameEffect
    <3> HIDE DEF k
    <3>2. /\ listed = 1..total
          /\ \A i \in 1..total : rows[i].inst = i /\ dmlName[i] = rows[i].name
          /\ \A i, j \in 1..total : rows[i].name = rows[j].name => i = j
      BY <3>1 DEF InOrder
    <3>3. k = m
      BY <3>1, <3>2
    <3>4. \A i \in 1..total : /\ rows'[i].inst = i
                              /\ rows'[i].name = IF i = m THEN n ELSE rows[i].name
                              /\ dmlName'[i] = IF i = m THEN n ELSE rows[i].name
      BY <2>0, <3>1, <3>2, <3>3
    <3>5. \A i, j \in 1..total : rows'[i].name = rows'[j].name => i = j
      BY <3>1, <3>2, <3>4
    <3> QED BY <3>1, <3>2, <3>4, <3>5
  <2>4. ASSUME NEW m \in Instances, DelEntry(m) PROVE Goal
    <3>1. CASE total' = total - 1 /\ UNCHANGED <<psm, list, access, written, mishaps>>
      BY <2>0, <3>1 DEF list
    <3>2. CASE total' = Initial /\ rows' = FirstRows(psm) /\ listed' = 1..Initial
               /\ dmlName' = FirstNames(psm)
      BY <3>2, FirstInOrder
    <3> QED BY <2>4, <3>1, <3>2, DeleteEffect
  <2>5. CASE AddEntry
    <3>1. /\ total + 1 \in Instances /\ total' = total + 1 /\ nextInst' = nextInst + 1
          /\ listed' = listed \cup {nextInst}
          /\ rows'[total + 1].inst = nextInst /\ rows'[total + 1].name = total
          /\ \A j \in Instances : j # total + 1 => rows'[j] = rows[j]
          /\ \A j \in Instances : dmlName'[j] = IF j = nextInst THEN nextInst - 1 ELSE dmlName[j]
          /\ "sameName" \notin mishaps /\ \A j \in 1..total : rows[j].name # total
      BY <2>5, AddEffect
    <3>2. nextInst = total + 1
      BY <2>0, <3>1
    <3>3. /\ listed = 1..total
          /\ \A i \in 1..total : rows[i].inst = i /\ dmlName[i] = rows[i].name
          /\ \A i, j \in 1..total : rows[i].name = rows[j].name => i = j
      BY <3>1, <3>2 DEF InOrder
    <3>4. 1..(total + 1) = (1..total) \cup {total + 1}
      BY <2>0
    <3>5. \A i \in 1..total : i \in Instances /\ i # total + 1
      BY <2>0
    <3>6. \A i \in 1..total : rows'[i] = rows[i] /\ dmlName'[i] = dmlName[i]
      BY <3>1, <3>2, <3>5
    <3>7. dmlName'[total + 1] = total
      BY <2>0, <3>1, <3>2
    <3>8. \A i \in 1..(total + 1) : rows'[i].inst = i /\ dmlName'[i] = rows'[i].name
      BY <3>1, <3>2, <3>3, <3>4, <3>6, <3>7
    <3>9. \A i, j \in 1..(total + 1) : rows'[i].name = rows'[j].name => i = j
      BY <3>1, <3>3, <3>4, <3>6
    <3> QED BY <3>1, <3>2, <3>3, <3>4, <3>8, <3>9
  <2> QED
    BY <2>1, <2>2, <2>3, <2>4, <2>5, StepKinds
<1>3. TypeOK /\ InOrder => EntryReachesRow
  <2> SUFFICES ASSUME TypeOK, InOrder, nextInst = total + 1, "sameName" \notin mishaps, NEW i \in listed
               PROVE  HasRow(dmlName[i]) /\ rows[Index(dmlName[i])].inst = i
    BY DEF EntryReachesRow
  <2>1. /\ i \in 1..total /\ rows[i].inst = i /\ dmlName[i] = rows[i].name
        /\ \A j \in 1..total : rows[j].name = rows[i].name => j = i
    BY DEF InOrder
  <2>2. total \in Nat /\ \A j \in 1..total : rows[j].name = rows[i].name => i <= j
    BY <2>1 DEF TypeOK
  <2>3. HasRow(rows[i].name) /\ Index(rows[i].name) = i
    BY <2>1, <2>2, IndexUnique
  <2> QED BY <2>1, <2>3
<1> QED
  BY TypeCorrect, PsmKept, <1>1, <1>2, <1>3, PTL DEF Spec

-----------------------------------------------------------------------------
(* The values of rows that move. *)

\* An index is held for an instance whose row it was then or already before.
LEMMA HeldFrom ==
    ASSUME TypeOK, [Next]_vars, NEW t \in Threads, access'[t].busy
    PROVE  Source(access'[t].inst)
<1>0. \A u \in Threads : access[u].busy => Source(access[u].inst)
  BY DEF Source
<1>1. CASE access' = access
  BY <1>0, <1>1
<1>2. ASSUME NEW i \in Instances, DelEntry(i) PROVE Source(access'[t].inst)
  <2>1. CASE access' = [u \in Threads |-> NoAccess]
    BY <2>1 DEF NoAccess
  <2> QED BY <1>1, <1>2, <2>1 DEF DelEntry, DelAfter
<1>3. ASSUME NEW u \in Threads, Write(u) PROVE Source(access'[t].inst)
  <2>1. access' = [access EXCEPT ![u] = NoAccess] /\ access \in [Threads -> Access]
    BY <1>3 DEF Write, TypeOK
  <2> QED BY <1>0, <2>1 DEF NoAccess
<1>4. ASSUME NEW u \in Threads, NEW n, NEW v \in Status, Lookup(u, n, v)
      PROVE  Source(access'[t].inst)
  <2>1. Index(n) \in 1..total /\ access \in [Threads -> Access]
    BY <1>4, IndexIsFirst DEF Lookup, TypeOK
  <2>2. CASE t = u
    <3>1. access'[t].inst = rows[Index(n)].inst
      BY <1>4, <2>1, <2>2 DEF Lookup
    <3> QED BY <2>1, <3>1 DEF Source
  <2>3. CASE t # u
    BY <1>0, <1>4, <2>1, <2>3 DEF Lookup
  <2> QED BY <2>2, <2>3
<1> QED
  BY <1>1, <1>2, <1>3, <1>4
  DEF Next, Dispatcher, Users, DmlSetWanStatus, DmlSetEnable, DmlSetName, AddEntry, vars

\* RowsKeepValues is not inductive: a write must change the row of one instance
\* only, and a new row must be the first of its instance.
Issued ==
    /\ \A k \in 1..total : rows[k].inst < nextInst
    /\ \A j, k \in 1..total : rows[j].inst = rows[k].inst => j = k
    /\ \A t \in Threads : access[t].busy => access[t].inst < nextInst
    /\ \A i \in Instances : i >= nextInst => written[i] = "DOWN"
    /\ RowsKeepValues

LEMMA SourceIssued ==
    ASSUME Issued, NEW i, Source(i)
    PROVE  i < nextInst
  BY DEF Issued, Source

LEMMA FirstIssued ==
    /\ \A k \in 1..Initial : FirstRows(psm)[k].inst < Initial + 1
    /\ \A j, k \in 1..Initial : FirstRows(psm)[j].inst = FirstRows(psm)[k].inst => j = k
    /\ \A k \in 1..Initial : /\ FirstRows(psm)[k].inst \in Instances
                             /\ FirstRows(psm)[k].val = "DOWN"
<1>1. \A k \in 1..Initial : k < Initial + 1
  BY CountsAssumption
<1> QED
  BY <1>1, FirstEffect

LEMMA AllIssued == Spec => []Issued
<1>1. Init => Issued
  BY FirstIssued DEF Init, Issued, RowsKeepValues, NoAccess
<1>2. TypeOK /\ Issued /\ [Next]_vars => Issued'
  <2> SUFFICES ASSUME TypeOK, Issued, [Next]_vars PROVE Issued'
    OBVIOUS
  <2>0. 1..total \subseteq Instances /\ nextInst \in Nat /\ total \in Nat
        /\ \A k \in 1..total : rows[k].inst \in Instances
    <3>1. 1..total \subseteq Instances /\ nextInst \in Nat /\ total \in Nat
      BY CountsAssumption DEF TypeOK, Instances
    <3>2. \A k \in Instances : rows[k].inst \in Instances
      BY DEF TypeOK, Row
    <3> QED BY <3>1, <3>2
  <2>h. nextInst' >= nextInst => \A t \in Threads : access'[t].busy => access'[t].inst < nextInst'
    <3> SUFFICES ASSUME nextInst' >= nextInst, NEW t \in Threads, access'[t].busy
                 PROVE  access'[t].inst < nextInst'
      OBVIOUS
    <3>1. access'[t].inst < nextInst
      BY HeldFrom, SourceIssued
    <3>2. access'[t].inst \in Nat /\ nextInst' \in Nat
      <4>1. TypeOK'
        BY TypeStep
      <4>2. access'[t] \in Access /\ nextInst' \in Nat
        BY <4>1, CountsAssumption DEF TypeOK
      <4> QED BY <4>2 DEF Access, Instances
    <3> QED BY <2>0, <3>1, <3>2
  <2>1. CASE UNCHANGED <<psm, total, rows, listed, dmlName, nextInst, written, mishaps>>
    BY <2>0, <2>h, <2>1 DEF Issued, RowsKeepValues
  <2>2. CASE AnyWrite
    <3>1. PICK k \in Instances, m \in Instances, v \in Status : Source(m) /\ WriteRow(k, m, v)
      BY <2>2 DEF AnyWrite
    <3>2. /\ \A j \in Instances :
                /\ rows'[j].inst = rows[j].inst
                /\ rows'[j].val = IF j = k /\ k <= total THEN v ELSE rows[j].val
                /\ written'[j] = IF j = m THEN v ELSE written[j]
          /\ "strayWrite" \notin mishaps' => k <= total /\ rows[k].inst = m
      BY <3>1, WriteEffect
    <3>3. "strayWrite" \notin mishaps' => "strayWrite" \notin mishaps
      BY <3>1, WriteEffect DEF Mishaps
    <3>4. UNCHANGED <<total, nextInst>>
      BY <2>2 DEF AnyWrite
    <3>5. m < nextInst
      BY <3>1, SourceIssued
    <3>6. \A i \in Instances : i >= nextInst => written'[i] = "DOWN"
      BY <2>0, <3>2, <3>5 DEF Issued, Instances
    <3>7. RowsKeepValues'
      <4> SUFFICES ASSUME "strayWrite" \notin mishaps', NEW j \in 1..total
                   PROVE  rows'[j].val = written'[rows'[j].inst]
        BY <3>4 DEF RowsKeepValues
      <4>1. j \in Instances /\ rows[j].inst \in Instances /\ rows[j].val = written[rows[j].inst]
        BY <2>0, <3>3 DEF Issued, RowsKeepValues
      <4>2. k \in 1..total /\ rows[k].inst = m
        BY <2>0, <3>2 DEF Instances
      <4>3. j = k <=> rows[j].inst = m
        BY <4>2 DEF Issued
      <4> QED BY <3>2, <4>1, <4>2, <4>3
    <3> QED BY <2>0, <2>h, <3>2, <3>4, <3>6, <3>7 DEF Issued
  <2>3. ASSUME NEW m \in Instances, NEW n \in Renames, DmlSetName(m, n) PROVE Issued'
    <3>1. /\ \A j \in Instances : rows'[j].inst = rows[j].inst /\ rows'[j].val = rows[j].val
          /\ "strayWrite" \notin mishaps' => "strayWrite" \notin mishaps
          /\ UNCHANGED <<total, nextInst, access, written>>
      BY <2>3, RenameEffect
    <3> QED BY <2>0, <2>h, <3>1 DEF Issued, RowsKeepValues
  <2>4. ASSUME NEW m \in Instances, DelEntry(m) PROVE Issued'
    <3>1. ASSUME NEW k \in (Internal + 1)..total, total' = total - 1,
                 \A j \in 1..(total - 1) : rows'[j] = IF j = k THEN rows[total] ELSE rows[j],
                 UNCHANGED <<psm, list, access, written, mishaps>>
          PROVE  Issued'
      <4> DEFINE from(j) == IF j = k THEN total ELSE j
      <4>1. \A j \in 1..total' : from(j) \in 1..total /\ rows'[j] = rows[from(j)]
        BY <2>0, <3>1
      <4>2. \A i, j \in 1..total' : from(i) = from(j) => i = j
        BY <2>0, <3>1
      <4> HIDE DEF from
      <4>3. UNCHANGED <<nextInst, access, written, mishaps>>
        BY <3>1 DEF list
      <4> QED BY <2>0, <2>h, <4>1, <4>2, <4>3 DEF Issued, RowsKeepValues
    <3>2. CASE /\ total' = Initial /\ rows' = FirstRows(psm) /\ nextInst' = Initial + 1
               /\ access' = [t \in Threads |-> NoAccess]
               /\ written' = [j \in Instances |-> "DOWN"]
      BY <3>2, FirstIssued DEF Issued, RowsKeepValues, NoAccess
    <3> QED BY <2>4, <3>1, <3>2, DeleteEffect
  <2>5. CASE AddEntry
    <3>1. /\ total + 1 \in Instances /\ total' = total + 1 /\ nextInst' = nextInst + 1
          /\ nextInst \in Instances
          /\ rows'[total + 1].inst = nextInst /\ rows'[total + 1].val = "DOWN"
          /\ \A j \in Instances : j # total + 1 => rows'[j] = rows[j]
          /\ "strayWrite" \notin mishaps' => "strayWrite" \notin mishaps
          /\ UNCHANGED <<access, written>>
      BY <2>5, AddEffect
    <3>2. 1..total' = (1..total) \cup {total + 1} /\ nextInst < nextInst' /\ nextInst' \in Nat
      BY <2>0, <3>1
    <3>3. \A j \in 1..total : j # total + 1 /\ rows'[j] = rows[j]
      BY <2>0, <3>1
    <3>4. written'[nextInst] = "DOWN"
      BY <2>0, <3>1 DEF Issued
    <3>5. \A k \in 1..total : rows[k].inst < nextInst /\ rows[k].inst < nextInst'
          /\ rows[k].inst # nextInst
      BY <2>0, <3>2 DEF Issued, Instances
    <3>6. \A k \in 1..total' : rows'[k].inst < nextInst'
      BY <3>1, <3>2, <3>3, <3>5
    <3>7. \A j, k \in 1..total' : rows'[j].inst = rows'[k].inst => j = k
      BY <3>1, <3>2, <3>3, <3>5 DEF Issued
    <3>8. \A i \in Instances : i >= nextInst' => written'[i] = "DOWN"
      BY <2>0, <3>1 DEF Issued, Instances
    <3>9. RowsKeepValues'
      BY <3>1, <3>2, <3>3, <3>4 DEF Issued, RowsKeepValues
    <3> QED BY <2>0, <2>h, <3>1, <3>6, <3>7, <3>8, <3>9 DEF Issued
  <2> QED
    BY <2>1, <2>2, <2>3, <2>4, <2>5, StepKinds
<1> QED
  BY TypeCorrect, <1>1, <1>2, PTL DEF Spec

\* RowsKeepValues: as long as no stale index has been used, each row holds what
\* was last written for its interface, wherever deletions have moved it.
THEOREM ValuesMoveAlong == Spec => []RowsKeepValues
<1>1. Issued => RowsKeepValues
  BY DEF Issued
<1> QED
  BY AllIssued, <1>1, PTL

-----------------------------------------------------------------------------
(* The table implements EthInterfaceStore, step by step.                   *)

CellOf(k) == [inst |-> rows[k].inst, val |-> rows[k].val]

\* A row is found again by its cell, since no two are of one interface.
LEMMA CellsApart ==
    ASSUME Issued, NEW j \in 1..total, NEW k \in 1..total, CellOf(j) = CellOf(k)
    PROVE  j = k
<1>1. rows[j].inst = rows[k].inst
  BY DEF CellOf
<1> QED
  BY <1>1 DEF Issued

\* The first cells are those of the first rows.
LEMMA FirstStored ==
    {[inst |-> FirstRows(psm)[k].inst, val |-> FirstRows(psm)[k].val] : k \in 1..Initial}
        = Store!FirstCells
BY FirstEffect DEF Store!FirstCells, Store!Cell

\* A write changes the cell of one interface, if that.
LEMMA WriteStored ==
    ASSUME TypeOK, Issued, AnyWrite
    PROVE  Store!Put \/ UNCHANGED <<Cells, nextInst>>
<1>1. PICK k \in Instances, m \in Instances, v \in Status : WriteRow(k, m, v)
  BY DEF AnyWrite
<1>2. /\ \A j \in Instances : /\ rows'[j].inst = rows[j].inst
                              /\ rows'[j].val = IF j = k /\ k <= total THEN v ELSE rows[j].val
      /\ UNCHANGED <<total, nextInst>>
  BY <1>1, WriteEffect DEF AnyWrite
<1>3. 1..total \subseteq Instances /\ total \in Nat
  BY CountsAssumption DEF TypeOK, Instances
<1>4. CASE k <= total
  <2>1. k \in 1..total
    BY <1>3, <1>4 DEF Instances
  <2>2. Cells = {CellOf(j) : j \in 1..total}
    BY DEF Cells, CellOf
  <2>3. Cells' = {IF j = k THEN Store!Cell(rows[k].inst, v) ELSE CellOf(j) : j \in 1..total}
    BY <1>2, <1>3, <1>4 DEF Cells, CellOf, Store!Cell
  <2>4. \A j \in 1..total : j # k => CellOf(j) # CellOf(k)
    BY <2>1, CellsApart
  <2>5. Cells' = (Cells \ {CellOf(k)}) \cup {Store!Cell(rows[k].inst, v)}
    BY <2>1, <2>2, <2>3, <2>4
  <2>6. CellOf(k) \in Cells /\ CellOf(k).inst = rows[k].inst
    BY <2>1, <2>2 DEF CellOf
  <2> QED
    BY <1>2, <2>5, <2>6 DEF Store!Put
<1>5. CASE ~(k <= total)
  <2>1. \A j \in 1..total : rows'[j].inst = rows[j].inst /\ rows'[j].val = rows[j].val
    BY <1>2, <1>3, <1>5
  <2> QED
    BY <1>2, <2>1 DEF Cells
<1> QED
  BY <1>4, <1>5

\* A deletion takes the cell of one interface away, an external one, although the
\* last row changes its place; or the agent starts again.
LEMMA DeleteStored ==
    ASSUME Kept, Issued, NEW i \in Instances, DelEntry(i)
    PROVE  Store!Remove \/ Store!Restart
<1>0. TypeOK /\ 1..total \subseteq Instances /\ total \in Nat
  BY CountsAssumption DEF Kept, TypeOK, Instances
<1>1. ASSUME NEW k \in (Internal + 1)..total, total' = total - 1,
             \A j \in 1..(total - 1) : rows'[j] = IF j = k THEN rows[total] ELSE rows[j],
             UNCHANGED list
      PROVE  Store!Remove
  <2>1. k \in 1..total /\ total \in 1..total
    BY <1>0, CountsAssumption
  <2>2. rows[k].inst > Internal
    BY <1>0 DEF Kept, OthersAfter
  <2>3. Cells = {CellOf(j) : j \in 1..total}
    BY DEF Cells, CellOf
  <2>4. Cells' = {CellOf(IF j = k THEN total ELSE j) : j \in 1..(total - 1)}
    BY <1>1 DEF Cells, CellOf
  <2>5. \A j \in 1..total : j # k => CellOf(j) # CellOf(k)
    BY <2>1, CellsApart
  <2>6. \A j \in 1..(total - 1) : (IF j = k THEN total ELSE j) \in (1..total) \ {k}
    BY <1>0, <2>1
  <2>7. \A h \in (1..total) \ {k} : \E j \in 1..(total - 1) : h = IF j = k THEN total ELSE j
    <3> SUFFICES ASSUME NEW h \in (1..total) \ {k}
                 PROVE  \E j \in 1..(total - 1) : h = IF j = k THEN total ELSE j
      OBVIOUS
    <3>1. CASE h = total
      <4>1. k \in 1..(total - 1)
        BY <1>0, <2>1, <3>1
      <4> QED
        BY <3>1, <4>1
    <3>2. CASE h # total
      <4>1. h \in 1..(total - 1) /\ h # k
        BY <1>0, <3>2
      <4> QED
        BY <4>1
    <3> QED
      BY <3>1, <3>2
  <2>8. {CellOf(IF j = k THEN total ELSE j) : j \in 1..(total - 1)} = {CellOf(h) : h \in (1..total) \ {k}}
    BY <2>6, <2>7
  <2>9. Cells' = Cells \ {CellOf(k)}
    <3>1. {CellOf(h) : h \in (1..total) \ {k}} = {CellOf(j) : j \in 1..total} \ {CellOf(k)}
      BY <2>5
    <3> QED
      BY <2>3, <2>4, <2>8, <3>1
  <2>10. CellOf(k) \in Cells /\ CellOf(k).inst = rows[k].inst
    BY <2>1, <2>3 DEF CellOf
  <2> QED
    BY <1>1, <2>2, <2>9, <2>10 DEF Store!Remove, list
<1>2. ASSUME total' = Initial, rows' = FirstRows(psm), nextInst' = Initial + 1
      PROVE  Store!Restart
  <2>1. Cells' = Store!FirstCells
    BY <1>2, FirstStored DEF Cells
  <2> QED
    BY <1>2, <2>1 DEF Store!Restart
<1> QED
  BY <1>0, <1>1, <1>2, DeleteEffect

\* A new row is a cell under the next number.
LEMMA AddStored ==
    ASSUME TypeOK, AddEntry
    PROVE  Store!Add
<1>1. /\ total' = total + 1 /\ nextInst' = nextInst + 1
      /\ rows'[total + 1].inst = nextInst /\ rows'[total + 1].val = "DOWN"
      /\ \A j \in Instances : j # total + 1 => rows'[j] = rows[j]
  BY AddEffect
<1>2. total \in Nat /\ 1..total \subseteq Instances /\ 1..(total + 1) = 1..total \cup {total + 1}
      /\ total + 1 \notin 1..total
  BY CountsAssumption DEF TypeOK, Instances
<1>3. \A j \in 1..total : rows'[j] = rows[j]
  BY <1>1, <1>2
<1>4. Cells' = Cells \cup {Store!Cell(nextInst, "DOWN")}
  BY <1>1, <1>2, <1>3 DEF Cells, Store!Cell
<1> QED
  BY <1>1, <1>4 DEF Store!Add

LEMMA StepStored == Kept /\ Issued /\ [Next]_vars => [Store!Next]_(Store!vars)
<1> SUFFICES ASSUME Kept, Issued, [Next]_vars PROVE [Store!Next]_(Store!vars)
  OBVIOUS
<1>0. TypeOK /\ 1..total \subseteq Instances
  BY CountsAssumption DEF Kept, TypeOK, Instances
<1>1. CASE UNCHANGED <<psm, total, rows, listed, dmlName, nextInst, written, mishaps>>
  BY <1>1 DEF Store!vars, Cells
<1>2. CASE AnyWrite
  BY <1>0, <1>2, WriteStored DEF Store!Next, Store!vars
<1>3. ASSUME NEW i \in Instances, NEW n \in Renames, DmlSetName(i, n)
      PROVE  [Store!Next]_(Store!vars)
  <2>1. /\ \A j \in Instances : rows'[j].inst = rows[j].inst /\ rows'[j].val = rows[j].val
        /\ UNCHANGED <<total, nextInst>>
    BY <1>0, <1>3, RenameEffect
  <2> QED
    BY <1>0, <2>1 DEF Cells, Store!vars
<1>4. ASSUME NEW i \in Instances, DelEntry(i) PROVE [Store!Next]_(Store!vars)
  BY <1>4, DeleteStored DEF Store!Next
<1>5. CASE AddEntry
  BY <1>0, <1>5, AddStored DEF Store!Next
<1> QED
  BY <1>0, <1>1, <1>2, <1>3, <1>4, <1>5, StepKinds

\* The rows of gpstEthGInfo implement EthInterfaceStore, for any number of interfaces
\* and of threads: deleting by moving the last row into the hole removes one external
\* interface, and no step mixes the values of two.
THEOREM StoreImplemented == Spec => StoreKept
<1>1. Init => Store!Init
  BY FirstStored DEF Init, Store!Init, Cells
<1> QED
  BY <1>1, StepStored, RowsKept, AllIssued, PTL DEF Spec, StoreKept, Store!Spec
=============================================================================
