------------------------ MODULE EthHostTable_proofs ------------------------
(***************************************************************************)
(* What EthHostTable promises for any number of hosts and any size of the  *)
(* table: TypeOK, ViewIsReport, NoFalseDisconnect and NoneForgotten.       *)
(* ViewIsReport is about hosts that do not share a hash: each is then      *)
(* found in the slot of its hash or nowhere, so that the table is a set of *)
(* hosts; the rest of the argument follows one iteration of the monitor.   *)
(* NoFalseDisconnect is about all hosts, if they fit: the report is all in *)
(* the temporary table while the two are compared, for that table is       *)
(* filled and never deleted from. NoneForgotten holds of full tables too.  *)
(***************************************************************************)
EXTENDS EthHostTable, FiniteSetTheorems, WellFoundedInduction, TLAPS

-----------------------------------------------------------------------------
(* The hash table                                                          *)

Tables == [Slots -> Macs \cup {Free}]

\* Whatever slot the probing yields, the table stays one.
LEMMA TableTypes ==
    ASSUME NEW t \in Tables, NEW m \in Macs
    PROVE  /\ AddHost(t, m) \in Tables
           /\ DeleteHost(t, m) \in Tables
           /\ NoHosts \in Tables
           /\ Hosts(t) \subseteq Macs
  <1>1. AddHost(t, m) \in Tables
    BY DEF AddHost, Tables
  <1>2. DeleteHost(t, m) \in Tables
    BY DEF DeleteHost, Tables
  <1> QED
    BY <1>1, <1>2 DEF Tables, NoHosts, Hosts

-----------------------------------------------------------------------------
(* Types                                                                   *)

LEMMA TellTypes ==
    ASSUME view \subseteq Macs, untold \subseteq Macs, NEW ms \in SUBSET Macs,
           NEW connected \in BOOLEAN, Tell(ms, connected)
    PROVE  (view \subseteq Macs /\ untold \subseteq Macs)'
  BY DEF Tell

LEMMA SlotTypes ==
    ASSUME NEW s \in Slots
    PROVE  /\ 0 \in Slots /\ Size - 1 \in Slots
           /\ s # Size - 1 => s + 1 \in Slots
  BY SizeAssumption DEF Slots

LEMMA MonitorTypes == TypeOK /\ Monitor => TypeOK'
  <1> SUFFICES ASSUME TypeOK, Monitor
               PROVE  TypeOK'
    OBVIOUS
  <1> USE DEF told
  <1>1. ASSUME NEW report \in SUBSET Macs, Poll(report)
        PROVE  TypeOK'
    BY <1>1 DEF Poll, TypeOK
  <1>2. CASE PollNone
    <2>1. Hosts(table) \subseteq Macs /\ NoHosts \in [Slots -> Macs \cup {Free}]
      BY DEF TypeOK, Hosts, NoHosts
    <2>2. (view \subseteq Macs /\ untold \subseteq Macs)'
      BY <1>2, <2>1, TellTypes DEF PollNone, TypeOK
    <2> QED
      BY <1>2, <2>1, <2>2 DEF PollNone, TypeOK
  <1>3. ASSUME NEW m \in Macs, InvalidHost(m)
        PROVE  TypeOK'
    <2>1. (view \subseteq Macs /\ untold \subseteq Macs)'
      BY <1>3, TellTypes DEF InvalidHost, TypeOK
    <2>2. DeleteHost(table, m) \in [Slots -> Macs \cup {Free}]
      BY TableTypes DEF TypeOK, Tables
    <2> QED
      BY <1>3, <2>1, <2>2 DEF InvalidHost, TypeOK
  <1>4. ASSUME NEW m \in Macs, ValidHost(m)
        PROVE  TypeOK'
    <2>1. (view \subseteq Macs /\ untold \subseteq Macs)'
      BY <1>4, TellTypes DEF ValidHost, TypeOK
    <2>2. /\ AddHost(table, m) \in [Slots -> Macs \cup {Free}]
          /\ AddHost(temp, m) \in [Slots -> Macs \cup {Free}]
      BY TableTypes DEF TypeOK, Tables
    <2> QED
      BY <1>4, <2>1, <2>2 DEF ValidHost, TypeOK
  <1>5. CASE HostsDone
    BY <1>5, SlotTypes DEF HostsDone, TypeOK
  <1>6. CASE Sweep
    <2> DEFINE m == table[slot]
    <2>1. m \in Macs \cup {Free} /\ slot \in Slots
      BY DEF TypeOK
    <2>2. m # Free => DeleteHost(table, m) \in [Slots -> Macs \cup {Free}]
      BY <2>1, TableTypes DEF TypeOK, Tables
    <2>3. (view \subseteq Macs /\ untold \subseteq Macs)'
      BY <1>6, <2>1, TellTypes DEF Sweep, SweepTo, TypeOK
    <2>4. table' \in [Slots -> Macs \cup {Free}]
      BY <1>6, <2>2 DEF Sweep, SweepTo, TypeOK
    <2>5. slot' \in Slots /\ at' \in {"poll", "host", "sweep", "clean"}
      BY <1>6, <2>1, SlotTypes DEF Sweep, SweepTo, TypeOK
    <2> QED
      BY <1>6, <2>3, <2>4, <2>5 DEF Sweep, SweepTo, TypeOK
  <1>7. CASE Clean
    BY <1>7 DEF Clean, TypeOK, NoHosts
  <1> QED
    BY <1>1, <1>2, <1>3, <1>4, <1>5, <1>6, <1>7 DEF Monitor

\* The dispatcher tells only of a host it found.
Pointed == sync.at = "tell" => sync.host \in Macs

LEMMA SyncTypes == TypeOK /\ Pointed /\ Sync => (TypeOK /\ Pointed)'
  <1> SUFFICES ASSUME TypeOK, Pointed, Sync
               PROVE  (TypeOK /\ Pointed)'
    OBVIOUS
  <1> DEFINE Syncs == [at : {"idle", "read", "tell"}, slot : Slots, host : Macs \cup {Free}]
  <1>1. sync.slot \in Slots /\ sync.host \in Macs \cup {Free} /\ sync \in Syncs
    BY DEF TypeOK
  <1>2. table[sync.slot] \in Macs \cup {Free}
    BY <1>1 DEF TypeOK
  <1>3. SyncNext(sync.slot) \in Syncs
    BY <1>1, SlotTypes, SizeAssumption DEF SyncNext, NoSync, Slots
  <1>4. [at |-> "read", slot |-> 0, host |-> Free] \in Syncs
    BY SlotTypes, <1>1
  <1>5. sync' \in Syncs
    <2>1. CASE SyncStart
      BY <2>1, <1>4 DEF SyncStart
    <2>2. CASE SyncRead
      BY <2>2, <1>1, <1>2, <1>3 DEF SyncRead
    <2>3. CASE SyncTell
      BY <2>3, <1>3 DEF SyncTell
    <2> QED
      BY <2>1, <2>2, <2>3 DEF Sync
  <1>6. UNCHANGED <<hash, table, temp, monitor>>
    BY DEF Sync, SyncStart, SyncRead, SyncTell
  <1>7. (view \subseteq Macs /\ untold \subseteq Macs)'
    <2>1. CASE SyncStart \/ SyncRead
      BY <2>1 DEF SyncStart, SyncRead, told, TypeOK
    <2>2. CASE SyncTell /\ TellFalsely
      BY <2>2 DEF TellFalsely, told, TypeOK
    <2>3. CASE SyncTell /\ table[sync.slot] = sync.host /\ Tell({sync.host}, TRUE)
      <3>1. sync.host \in Macs
        BY <2>3 DEF SyncTell, Pointed
      <3> QED
        BY <2>3, <3>1, TellTypes DEF TypeOK
    <2> QED
      BY <2>1, <2>2, <2>3 DEF Sync, SyncTell
  <1>8. Pointed'
    <2>1. SyncNext(sync.slot).at # "tell"
      BY DEF SyncNext, NoSync
    <2>2. CASE SyncStart
      BY <2>2 DEF SyncStart, Pointed
    <2>3. CASE SyncRead
      BY <2>1, <2>3, <1>1, <1>2 DEF SyncRead, Pointed
    <2>4. CASE SyncTell
      BY <2>1, <2>4 DEF SyncTell, Pointed
    <2> QED
      BY <2>2, <2>3, <2>4 DEF Sync
  <1> QED
    BY <1>5, <1>6, <1>7, <1>8 DEF monitor, TypeOK

LEMMA NextTypes == TypeOK /\ Pointed /\ [Next]_vars => (TypeOK /\ Pointed)'
  <1> SUFFICES ASSUME TypeOK, Pointed, [Next]_vars
               PROVE  (TypeOK /\ Pointed)'
    OBVIOUS
  <1>1. CASE Monitor
    <2>1. sync' = sync
      BY <1>1 DEF Monitor, Poll, PollNone, InvalidHost, ValidHost, HostsDone, Sweep, SweepTo,
                  Clean
    <2> QED
      BY <1>1, <2>1, MonitorTypes DEF Pointed
  <1>2. CASE Sync
    BY <1>2, SyncTypes
  <1>3. CASE UNCHANGED vars
    BY <1>3 DEF vars, TypeOK, Pointed
  <1> QED
    BY <1>1, <1>2, <1>3 DEF Next

LEMMA InitTypes == Init => TypeOK /\ Pointed
  <1> SUFFICES ASSUME Init
               PROVE  TypeOK /\ Pointed
    OBVIOUS
  <1>1. 0 \in Slots
    BY SizeAssumption DEF Slots
  <1>2. NoHosts \in [Slots -> Macs \cup {Free}]
    BY DEF NoHosts
  <1>3. sync \in [at : {"idle", "read", "tell"}, slot : Slots, host : Macs \cup {Free}]
    BY <1>1 DEF Init, NoSync
  <1>4. Pointed
    BY DEF Init, NoSync, Pointed
  <1> QED
    BY <1>1, <1>2, <1>3, <1>4 DEF Init, TypeOK

\* Both threads keep the tables, the lists and the cursors what they are.
THEOREM HostTypes == Spec => []TypeOK
  <1>1. Init => TypeOK /\ Pointed
    BY InitTypes
  <1>2. TypeOK /\ Pointed /\ [Next]_vars => (TypeOK /\ Pointed)'
    BY NextTypes
  <1> QED
    BY <1>1, <1>2, PTL DEF Spec

-----------------------------------------------------------------------------
(* The view: hosts that do not share a hash                                *)

\* Every host is in the slot of its hash.
Placed(t) == \A s \in Slots : t[s] # Free => hash[t[s]] = s

LEMMA FirstProbe ==
    ASSUME NEW m \in Macs, hash \in [Macs -> Slots]
    PROVE  Probe(m, 0) = hash[m] /\ hash[m] \in Slots /\ 0 \in Slots
  <1>1. hash[m] \in 0 .. Size - 1 /\ Size \in Nat \ {0}
    BY SizeAssumption DEF Slots
  <1>2. (hash[m] + 0) % Size = hash[m]
    BY <1>1
  <1> QED
    BY <1>1, <1>2 DEF Probe, Slots

LEMMA LeastIsZero ==
    ASSUME NEW S \in SUBSET Slots, 0 \in S
    PROVE  Least(S) = 0
  <1>1. \A j \in S : 0 <= j /\ j \in Nat
    BY SizeAssumption DEF Slots
  <1>2. \E k \in S : \A j \in S : k <= j
    BY <1>1
  <1>3. Least(S) \in S /\ Least(S) <= 0
    BY <1>2 DEF Least
  <1> QED
    BY <1>1, <1>3

\* The search finds a host that is in the table, in the slot of its hash, and
\* no other: that slot is empty when the host is not in the table.
LEMMA Search ==
    ASSUME hash \in [Macs -> Slots], Apart, NEW t \in Tables, Placed(t), NEW m \in Macs
    PROVE  /\ Found(t, m) <=> m \in Hosts(t)
           /\ m \in Hosts(t) => t[hash[m]] = m /\ FindHost(t, m) = hash[m]
           /\ m \notin Hosts(t) => t[hash[m]] = Free
  <1>1. m # Free
    BY MacsAssumption
  <1>2. Probe(m, 0) = hash[m] /\ hash[m] \in Slots /\ 0 \in Slots
    BY FirstProbe
  <1>3. m \in Hosts(t) => t[hash[m]] = m
    BY <1>1 DEF Hosts, Placed
  <1>4. m \notin Hosts(t) => t[hash[m]] = Free
    <2> SUFFICES ASSUME m \notin Hosts(t), t[hash[m]] # Free
                 PROVE  FALSE
      OBVIOUS
    <2> DEFINE n == t[hash[m]]
    <2>1. n \in Macs /\ hash[n] = hash[m]
      BY <1>2 DEF Tables, Placed
    <2>2. n = m
      BY <2>1 DEF Apart
    <2> QED
      BY <1>1, <1>2, <2>2 DEF Hosts
  <1>5. Hits(t, m) \subseteq Slots
    BY DEF Hits, Searched
  <1>6. m \in Hosts(t) => 0 \in Hits(t, m)
    <2> SUFFICES ASSUME m \in Hosts(t)
                 PROVE  0 \in Hits(t, m)
      OBVIOUS
    <2>1. \A j \in 0 .. 0 : j = 0
      OBVIOUS
    <2> QED
      BY <1>1, <1>2, <1>3, <2>1 DEF Hits, Searched
  <1>7. m \in Hosts(t) => FindHost(t, m) = hash[m]
    BY <1>2, <1>5, <1>6, LeastIsZero DEF FindHost
  <1>8. Found(t, m) => m \in Hosts(t)
    <2> SUFFICES ASSUME NEW k \in Hits(t, m)
                 PROVE  m \in Hosts(t)
      BY DEF Found
    <2>1. k \in Slots /\ t[Probe(m, k)] = m
      BY DEF Hits, Searched
    <2>2. Probe(m, k) \in Slots
      BY <1>2, <2>1, SizeAssumption DEF Probe, Slots
    <2> QED
      BY <1>1, <2>1, <2>2 DEF Hosts
  <1> QED
    BY <1>3, <1>4, <1>6, <1>7, <1>8 DEF Found

\* So a host is added to the set, and nothing else happens to it.
LEMMA Adding ==
    ASSUME hash \in [Macs -> Slots], Apart, NEW t \in Tables, Placed(t), NEW m \in Macs,
           m \notin Hosts(t)
    PROVE  /\ Hosts(AddHost(t, m)) = Hosts(t) \cup {m}
           /\ Placed(AddHost(t, m))
           /\ AddHost(t, m) # t
  <1> DEFINE empty == {k \in Slots : t[Probe(m, k)] = Free}
  <1>1. t[hash[m]] = Free /\ hash[m] \in Slots /\ m # Free
    BY Search, FirstProbe, MacsAssumption
  <1>2. empty \in SUBSET Slots /\ 0 \in empty
    BY <1>1, FirstProbe
  <1>3. Probe(m, Least(empty)) = hash[m]
    BY <1>2, LeastIsZero, FirstProbe
  <1>4. AddHost(t, m) = [t EXCEPT ![hash[m]] = m]
    BY <1>2, <1>3 DEF AddHost
  <1> DEFINE u == AddHost(t, m)
  <1>5. \A s \in Slots : u[s] = IF s = hash[m] THEN m ELSE t[s]
    BY <1>1, <1>4 DEF Tables
  <1> HIDE DEF u
  <1>6. Hosts(u) = Hosts(t) \cup {m}
    BY <1>1, <1>5 DEF Hosts
  <1>7. Placed(u)
    BY <1>1, <1>5 DEF Placed
  <1>8. u # t
    BY <1>1, <1>5
  <1> QED
    BY <1>6, <1>7, <1>8 DEF u

LEMMA Deleting ==
    ASSUME hash \in [Macs -> Slots], Apart, NEW t \in Tables, Placed(t), NEW m \in Macs
    PROVE  /\ Hosts(DeleteHost(t, m)) = Hosts(t) \ {m}
           /\ Placed(DeleteHost(t, m))
           /\ \A s \in Slots : DeleteHost(t, m)[s] \in {t[s], Free} \ {m}
  <1>1. hash[m] \in Slots /\ m # Free
    BY FirstProbe, MacsAssumption
  <1>2. CASE m \in Hosts(t)
    <2> DEFINE u == DeleteHost(t, m)
    <2>1. u = [t EXCEPT ![hash[m]] = Free] /\ t[hash[m]] = m
      BY <1>2, Search DEF DeleteHost
    <2>2. \A s \in Slots : u[s] = IF s = hash[m] THEN Free ELSE t[s]
      BY <1>1, <2>1 DEF Tables
    <2>3. \A s \in Slots : t[s] = m => s = hash[m]
      BY <1>1 DEF Placed
    <2> HIDE DEF u
    <2>4. Hosts(u) = Hosts(t) \ {m}
      BY <1>1, <2>2, <2>3, <2>1 DEF Hosts
    <2>5. Placed(u)
      BY <2>2 DEF Placed
    <2>6. \A s \in Slots : u[s] \in {t[s], Free} \ {m}
      BY <1>1, <2>2, <2>3
    <2> QED
      BY <2>4, <2>5, <2>6 DEF u
  <1>3. CASE m \notin Hosts(t)
    <2>1. DeleteHost(t, m) = t
      BY <1>3, Search DEF DeleteHost
    <2> QED
      BY <1>1, <1>3, <2>1 DEF Hosts
  <1> QED
    BY <1>2, <1>3

-----------------------------------------------------------------------------
(* One iteration of the monitor                                            *)

\* What LMLite was told is what the table holds.
Known == \A m \in Macs \ untold : m \in view <=> m \in Hosts(table)

\* How far the table has caught up with the report.
Iteration ==
    /\ at = "poll" => Hosts(table) = wanted /\ temp = NoHosts
    /\ allGone => at = "poll" /\ Hosts(table) = {}
    /\ at = "host" => /\ Hosts(temp) = wanted /\ wanted \subseteq Hosts(table)
                      /\ todo \cap wanted = {}
    /\ at = "sweep" => /\ Hosts(temp) = wanted /\ wanted \subseteq Hosts(table)
                       /\ \A s \in Slots : s < slot => table[s] \in wanted \cup {Free}
    /\ at = "clean" => Hosts(table) = wanted

Good == Placed(table) /\ Placed(temp) /\ Known /\ Iteration

\* After hosts were told of, what is known of them is what they were told as,
\* or nothing.
LEMMA Telling ==
    ASSUME Known, NEW ms \in SUBSET Macs, NEW connected \in BOOLEAN, Tell(ms, connected),
           Hosts(table') = IF connected THEN Hosts(table) \cup ms ELSE Hosts(table) \ ms
    PROVE  Known'
  BY DEF Tell, Known

LEMMA EmptyTable == Placed(NoHosts) /\ Hosts(NoHosts) = {}
  BY DEF Placed, Hosts, NoHosts

LEMMA MonitorIsGood == TypeOK /\ Apart /\ Good /\ Monitor => Good'
  <1> SUFFICES ASSUME TypeOK, Apart, Good, Monitor
               PROVE  Good'
    OBVIOUS
  <1> USE DEF told
  <1>0. /\ hash \in [Macs -> Slots] /\ table \in Tables /\ temp \in Tables
        /\ Placed(table) /\ Placed(temp) /\ hash' = hash
    BY DEF TypeOK, Good, Tables, Monitor, Poll, PollNone, InvalidHost, ValidHost, HostsDone,
           Sweep, SweepTo, Clean
  <1>1. ASSUME NEW report \in SUBSET Macs, Poll(report)
        PROVE  Good'
    <2>1. UNCHANGED <<table, temp, view, untold>>
      BY <1>1 DEF Poll
    <2>2. Iteration'
      BY <1>1, EmptyTable DEF Poll, Good, Iteration, Hosts
    <2> QED
      BY <1>0, <2>1, <2>2 DEF Good, Known, Placed, Hosts
  <1>2. CASE PollNone
    <2>1. CASE allGone
      <3>1. UNCHANGED <<table, temp, view, untold>>
        BY <1>2, <2>1 DEF PollNone
      <3>2. Iteration'
        BY <1>2, <2>1, <3>1 DEF PollNone, Good, Iteration, Hosts
      <3> QED
        BY <1>0, <3>1, <3>2 DEF Good, Known, Placed, Hosts
    <2>2. CASE ~allGone
      <3>1. table' = NoHosts /\ temp' = temp /\ Tell(Hosts(table), FALSE)
        BY <1>2, <2>2 DEF PollNone
      <3>2. Known'
        BY <1>0, <3>1, EmptyTable, Telling, TableTypes DEF Good, Hosts, Tables
      <3>3. Iteration'
        BY <1>2, <3>1, EmptyTable DEF PollNone, Good, Iteration, Hosts
      <3> QED
        BY <1>0, <3>1, <3>2, <3>3, EmptyTable DEF Good, Placed
    <2> QED
      BY <2>1, <2>2
  <1>3. ASSUME NEW m \in Macs, InvalidHost(m)
        PROVE  Good'
    <2>1. /\ Hosts(table') = Hosts(table) \ {m} /\ Placed(table')
          /\ temp' = temp
      BY <1>0, <1>3, Deleting DEF InvalidHost
    <2>2. Known'
      <3>1. CASE Found(table, m)
        BY <1>3, <2>1, <3>1, Telling DEF InvalidHost, Good
      <3>2. CASE ~Found(table, m)
        <4>1. Hosts(table') = Hosts(table)
          BY <1>0, <2>1, <3>2, Search
        <4> QED
          BY <1>3, <3>2, <4>1 DEF InvalidHost, Good, Known, Hosts
      <3> QED
        BY <3>1, <3>2
    <2>3. Iteration'
      BY <1>3, <2>1 DEF InvalidHost, Good, Iteration, Hosts
    <2> QED
      BY <1>0, <2>1, <2>2, <2>3 DEF Good, Placed
  <1>4. ASSUME NEW m \in Macs, ValidHost(m)
        PROVE  Good'
    <2>1. m \notin Hosts(temp)
      BY <1>4 DEF ValidHost, Good, Iteration
    <2>2. Hosts(temp') = Hosts(temp) \cup {m} /\ Placed(temp')
      BY <1>0, <1>4, <2>1, Adding DEF ValidHost
    <2>3. Hosts(table') = Hosts(table) \cup {m} /\ Placed(table') /\ Known'
      <3>1. CASE Found(table, m)
        <4>1. UNCHANGED <<table, view, untold>> /\ m \in Hosts(table)
          BY <1>0, <1>4, <3>1, Search DEF ValidHost
        <4> QED
          BY <1>0, <4>1 DEF Good, Known, Placed, Hosts
      <3>2. CASE ~Found(table, m)
        <4>1. m \notin Hosts(table)
          BY <1>0, <3>2, Search
        <4>2. /\ table' = AddHost(table, m) /\ AddHost(table, m) # table
              /\ Hosts(table') = Hosts(table) \cup {m} /\ Placed(table')
          BY <1>0, <1>4, <3>2, <4>1, Adding DEF ValidHost
        <4>3. Tell({m}, TRUE)
          BY <1>4, <3>2, <4>2 DEF ValidHost
        <4> QED
          BY <4>2, <4>3, Telling DEF Good
      <3> QED
        BY <3>1, <3>2
    <2>4. Iteration'
      BY <1>4, <2>2, <2>3 DEF ValidHost, Good, Iteration, Hosts
    <2> QED
      BY <1>0, <2>2, <2>3, <2>4 DEF Good, Placed
  <1>5. CASE HostsDone
    <2>1. UNCHANGED <<table, temp, view, untold>>
      BY <1>5 DEF HostsDone
    <2>2. \A s \in Slots : ~(s < 0)
      BY DEF Slots
    <2>3. Iteration'
      BY <1>5, <2>2 DEF HostsDone, Good, Iteration, Hosts
    <2> QED
      BY <1>0, <2>1, <2>3 DEF Good, Known, Placed, Hosts
  <1>6. CASE Sweep
    <2> DEFINE m == table[slot]
    <2>1. slot \in Slots /\ m \in Macs \cup {Free} /\ at = "sweep" /\ temp' = temp
          /\ UNCHANGED <<todo, allGone, wanted>>
      BY <1>0, <1>6 DEF TypeOK, Tables, Sweep, SweepTo
    <2>2. Hosts(temp) = wanted /\ wanted \subseteq Hosts(table) /\ ~allGone
      BY <2>1 DEF Good, Iteration
    <2>3. /\ Placed(table') /\ Known' /\ wanted \subseteq Hosts(table')
          /\ table'[slot] \in wanted \cup {Free}
          /\ \A s \in Slots : table'[s] \in {table[s], Free}
      <3>1. CASE m # Free /\ ~Found(temp, m)
        <4>1. m \in Macs /\ m \notin wanted /\ m \in Hosts(table)
          BY <1>0, <2>1, <2>2, <3>1, Search DEF Hosts
        <4>2. /\ Hosts(table') = Hosts(table) \ {m} /\ Placed(table')
              /\ \A s \in Slots : table'[s] \in {table[s], Free} \ {m}
          BY <1>0, <1>6, <3>1, <4>1, Deleting DEF Sweep, SweepTo
        <4>3. Tell({m}, FALSE)
          BY <1>0, <1>6, <3>1, <4>1, Search DEF Sweep, SweepTo
        <4>4. Known'
          BY <4>1, <4>2, <4>3, Telling DEF Good
        <4> QED
          BY <2>1, <2>2, <4>1, <4>2, <4>4
      <3>2. CASE ~(m # Free /\ ~Found(temp, m))
        <4>1. UNCHANGED <<table, view, untold>>
          BY <1>6, <3>2 DEF Sweep, SweepTo
        <4>2. m \in wanted \cup {Free}
          BY <1>0, <2>1, <2>2, <3>2, Search
        <4> QED
          BY <1>0, <2>2, <4>1, <4>2 DEF Good, Known, Placed, Hosts
      <3> QED
        BY <3>1, <3>2
    <2>4. \A s \in Slots : s <= slot => table'[s] \in wanted \cup {Free}
      BY <2>1, <2>3 DEF Good, Iteration, Slots
    <2>5. CASE slot = Size - 1
      <3>1. \A s \in Slots : s <= slot
        BY <2>5, SizeAssumption DEF Slots
      <3>2. Hosts(table') = wanted
        <4>1. \A s \in Slots : table'[s] \in wanted \cup {Free}
          BY <2>4, <3>1
        <4>2. Hosts(table') \subseteq wanted
          BY <4>1 DEF Hosts
        <4> QED
          BY <2>3, <4>2
      <3>3. at' = "clean"
        BY <1>6, <2>5 DEF Sweep, SweepTo
      <3>4. Iteration'
        BY <2>1, <2>2, <3>2, <3>3 DEF Iteration, Hosts
      <3> QED
        BY <1>0, <2>1, <2>3, <3>4 DEF Good, Placed
    <2>6. CASE slot # Size - 1
      <3>1. at' = "sweep" /\ slot' = slot + 1
        BY <1>6, <2>1, <2>6 DEF Sweep, SweepTo
      <3>2. \A s \in Slots : s < slot' => table'[s] \in wanted \cup {Free}
        BY <2>1, <2>4, <3>1 DEF Slots
      <3>3. Iteration'
        BY <2>1, <2>2, <2>3, <3>1, <3>2 DEF Iteration, Hosts
      <3> QED
        BY <1>0, <2>1, <2>3, <3>3 DEF Good, Placed
    <2> QED
      BY <2>5, <2>6
  <1>7. CASE Clean
    <2>1. UNCHANGED <<table, view, untold>> /\ temp' = NoHosts
      BY <1>7 DEF Clean
    <2>2. Iteration'
      BY <1>7, <2>1 DEF Clean, Good, Iteration, Hosts
    <2> QED
      BY <1>0, <2>1, <2>2, EmptyTable DEF Good, Known, Placed, Hosts
  <1> QED
    BY <1>1, <1>2, <1>3, <1>4, <1>5, <1>6, <1>7 DEF Monitor

LEMMA SyncIsGood == TypeOK /\ Pointed /\ Good /\ Sync => Good'
  <1> SUFFICES ASSUME TypeOK, Pointed, Good, Sync
               PROVE  Good'
    OBVIOUS
  <1>1. UNCHANGED <<hash, table, temp, monitor>>
    BY DEF Sync, SyncStart, SyncRead, SyncTell
  <1>2. Placed(table)' /\ Placed(temp)' /\ Iteration'
    BY <1>1 DEF Good, Placed, Iteration, Hosts, monitor
  <1>3. Known'
    <2>1. CASE UNCHANGED told
      BY <1>1, <2>1 DEF Good, Known, Hosts, told
    <2>2. CASE TellFalsely
      BY <1>1, <2>1, <2>2 DEF TellFalsely, Good, Known, Hosts
    <2>3. CASE sync.at = "tell" /\ table[sync.slot] = sync.host /\ Tell({sync.host}, TRUE)
      <3>1. sync.host \in Macs /\ sync.host \in Hosts(table)
        BY <2>3, MacsAssumption DEF Pointed, Hosts, TypeOK
      <3>2. Hosts(table') = Hosts(table) \cup {sync.host}
        BY <1>1, <3>1
      <3> QED
        BY <2>3, <3>1, <3>2, Telling DEF Good
    <2> QED
      BY <2>1, <2>2, <2>3 DEF Sync, SyncStart, SyncRead, SyncTell
  <1> QED
    BY <1>2, <1>3 DEF Good

Inv == TypeOK /\ Pointed /\ (Apart => Good)

LEMMA NextKeepsInv == Inv /\ [Next]_vars => Inv'
  <1> SUFFICES ASSUME Inv, [Next]_vars
               PROVE  Inv'
    OBVIOUS
  <1>1. (TypeOK /\ Pointed)'
    BY NextTypes DEF Inv
  <1>2. hash' = hash
    BY DEF Next, Monitor, Poll, PollNone, InvalidHost, ValidHost, HostsDone, Sweep, SweepTo,
           Clean, Sync, SyncStart, SyncRead, SyncTell, vars
  <1>3. SUFFICES ASSUME Apart
                 PROVE  Good'
    BY <1>1, <1>2 DEF Inv, Apart
  <1>4. CASE Monitor
    BY <1>3, <1>4, MonitorIsGood DEF Inv
  <1>5. CASE Sync
    BY <1>3, <1>5, SyncIsGood DEF Inv
  <1>6. CASE UNCHANGED vars
    BY <1>3, <1>6 DEF Inv, Good, Placed, Known, Iteration, Hosts, vars
  <1> QED
    BY <1>4, <1>5, <1>6 DEF Next

\* However many hosts there are, as long as no two share a hash: between two
\* iterations LMLite has the view of the last report, but for hosts whose last
\* notification was lost or false.
THEOREM HostView == Spec => []ViewIsReport
  <1>1. Init => Inv
    <2> SUFFICES ASSUME Init
                 PROVE  Inv
      OBVIOUS
    <2>1. Good
      BY EmptyTable DEF Init, Good, Known, Iteration
    <2> QED
      BY <2>1, InitTypes DEF Inv
  <1>2. Inv /\ [Next]_vars => Inv'
    BY NextKeepsInv
  <1>3. Inv => ViewIsReport
    BY DEF Inv, Good, Known, Iteration, ViewIsReport
  <1> QED
    BY <1>1, <1>2, <1>3, PTL DEF Spec

-----------------------------------------------------------------------------
(* The comparison of the two tables: hosts that may share a hash           *)

\* A set of slots that is not empty has a least one.
LEMMA LeastOfSlots ==
    ASSUME NEW S \in SUBSET Slots, S # {}
    PROVE  Least(S) \in S /\ \A j \in S : Least(S) <= j
  <1> DEFINE Less == {ss \in Nat \X Nat : ss[1] < ss[2]}
  <1>1. OpToRel(<, Nat) = Less
    BY Zenon DEF OpToRel
  <1>2. IsWellFoundedOn(Less, Nat)
    BY <1>1, NatLessThanWellFounded
  <1>3. S \subseteq Nat
    BY SizeAssumption DEF Slots
  <1>4. PICK k \in S : \A j \in S : ~ (<<j, k>> \in Less)
    <2> HIDE DEF Less
    <2> QED
      BY <1>2, <1>3, WFMin
  <1>5. ASSUME NEW j \in S
        PROVE  k <= j
    <2>1. <<j, k>> \in Nat \X Nat /\ <<j, k>>[1] = j /\ <<j, k>>[2] = k
      BY <1>3
    <2>2. ~ (j < k)
      BY <1>4, <2>1
    <2> QED
      BY <1>3, <2>2
  <1> QED
    BY <1>5 DEF Least

\* The probing comes to slots only, and to each of them.
LEMMA ProbeCovers ==
    ASSUME hash \in [Macs -> Slots], NEW m \in Macs
    PROVE  /\ \A k \in Slots : Probe(m, k) \in Slots
           /\ \A s \in Slots : \E k \in Slots : Probe(m, k) = s
  <1>1. hash[m] \in 0 .. Size - 1 /\ Size \in Nat \ {0}
    BY SizeAssumption DEF Slots
  <1>2. ASSUME NEW k \in Slots
        PROVE  Probe(m, k) \in Slots
    BY <1>1, <1>2 DEF Probe, Slots
  <1>3. ASSUME NEW s \in Slots
        PROVE  \E k \in Slots : Probe(m, k) = s
    <2>1. s \in 0 .. Size - 1
      BY DEF Slots
    <2>2. CASE s >= hash[m]
      <3>1. s - hash[m] \in Slots /\ hash[m] + (s - hash[m]) = s
        BY <1>1, <2>1, <2>2 DEF Slots
      <3>2. s % Size = s
        BY <1>1, <2>1
      <3> QED
        BY <3>1, <3>2 DEF Probe
    <2>3. CASE s < hash[m]
      <3>1. s + Size - hash[m] \in Slots /\ hash[m] + (s + Size - hash[m]) = s + Size
        BY <1>1, <2>1, <2>3 DEF Slots
      <3>2. (s + Size) % Size = s
        BY <1>1, <2>1
      <3> QED
        BY <3>1, <3>2 DEF Probe
    <2> QED
      BY <1>1, <2>1, <2>2, <2>3
  <1> QED
    BY <1>2, <1>3

\* Every host of the table is in one slot.
Single(t) == \A r, s \in Slots : t[r] = t[s] /\ t[r] # Free => r = s

\* A table that holds each host once has room for one more.
LEMMA Room ==
    ASSUME NEW t \in Tables, Single(t), NEW m \in Macs, m \notin Hosts(t),
           Cardinality(Hosts(t) \cup {m}) <= Size
    PROVE  \E s \in Slots : t[s] = Free
  <1> SUFFICES ASSUME \A s \in Slots : t[s] # Free
               PROVE  FALSE
    OBVIOUS
  <1>1. IsFiniteSet(Hosts(t))
    BY TableTypes, MacsAssumption, FS_Subset
  <1>2. Cardinality(Hosts(t) \cup {m}) = Cardinality(Hosts(t)) + 1 /\ Cardinality(Hosts(t)) \in Nat
    BY <1>1, FS_AddElement, FS_CardinalityType
  <1>3. IsFiniteSet(Slots) /\ Cardinality(Slots) = Size
    BY SizeAssumption, FS_Interval DEF Slots
  <1>4. Cardinality(Hosts(t)) < Cardinality(Slots)
    BY <1>2, <1>3, SizeAssumption
  <1>5. t \in [Slots -> Hosts(t)]
    BY DEF Tables, Hosts
  <1>6. \E r, s \in Slots : r # s /\ t[r] = t[s]
    BY <1>1, <1>3, <1>4, <1>5, FS_PigeonHole
  <1> QED
    BY <1>6 DEF Single

\* A host that is added is found from then on, and so are those that were
\* found before.
LEMMA AddedIsFound ==
    ASSUME hash \in [Macs -> Slots], NEW t \in Tables, Single(t),
           NEW m \in Macs, m \notin Hosts(t), Cardinality(Hosts(t) \cup {m}) <= Size
    PROVE  /\ Hosts(AddHost(t, m)) = Hosts(t) \cup {m}
           /\ Single(AddHost(t, m))
           /\ Found(AddHost(t, m), m)
           /\ \A n \in Macs : Found(t, n) => Found(AddHost(t, m), n)
  <1> DEFINE empty == {k \in Slots : t[Probe(m, k)] = Free}
             k0 == Least(empty)
             u == AddHost(t, m)
  <1>1. empty # {}
    BY Room, ProbeCovers
  <1>2. k0 \in Slots /\ t[Probe(m, k0)] = Free /\ \A j \in empty : k0 <= j
    BY <1>1, LeastOfSlots
  <1>3. Probe(m, k0) \in Slots /\ m # Free
    BY <1>2, ProbeCovers, MacsAssumption
  <1>4. u = [t EXCEPT ![Probe(m, k0)] = m]
    BY <1>1 DEF AddHost
  <1>5. \A s \in Slots : u[s] = IF s = Probe(m, k0) THEN m ELSE t[s]
    BY <1>3, <1>4 DEF Tables
  <1>6. \A j \in 0 .. k0 : j \in Slots /\ (j # k0 => t[Probe(m, j)] # Free)
    BY <1>2, SizeAssumption DEF Slots
  <1> HIDE DEF empty, k0, u
  <1>7. Hosts(u) = Hosts(t) \cup {m}
    BY <1>2, <1>3, <1>5 DEF Hosts
  <1>8. Single(u)
    <2>1. \A s \in Slots : t[s] # m
      BY <1>3 DEF Hosts
    <2> QED
      BY <1>5, <2>1 DEF Single
  <1>9. Found(u, m)
    <2>1. \A j \in 0 .. k0 : u[Probe(m, j)] # Free
      BY <1>3, <1>5, <1>6, ProbeCovers
    <2>2. k0 \in Hits(u, m)
      BY <1>2, <1>3, <1>5, <2>1 DEF Hits, Searched
    <2> QED
      BY <2>2 DEF Found
  <1>10. ASSUME NEW n \in Macs, Found(t, n)
         PROVE  Found(u, n)
    <2>1. PICK k \in Slots : (\A j \in 0 .. k : t[Probe(n, j)] # Free) /\ t[Probe(n, k)] = n
      BY <1>10 DEF Found, Hits, Searched
    <2>2. n # Free /\ \A j \in 0 .. k : j \in Slots
      BY MacsAssumption, SizeAssumption DEF Slots
    <2>3. (\A j \in 0 .. k : u[Probe(n, j)] # Free) /\ u[Probe(n, k)] = n
      BY <1>2, <1>3, <1>5, <2>1, <2>2, ProbeCovers
    <2> QED
      BY <2>3 DEF Found, Hits, Searched
  <1> QED
    BY <1>7, <1>8, <1>9, <1>10 DEF u

\* As long as they fit, the second table holds the valid hosts of the iteration,
\* each in one slot and where the search comes to, because nothing is deleted
\* from it.
Fit == Cardinality(wanted) <= Size

Collection == Single(temp) /\ Hosts(temp) = wanted /\ \A m \in wanted : Found(temp, m)

Collected ==
    /\ at = "poll" => temp = NoHosts
    /\ at = "host" => todo \cap wanted = {}
    /\ at \in {"host", "sweep"} /\ Fit => Collection

LEMMA EmptyIsSingle == Single(NoHosts)
  BY DEF Single, NoHosts

LEMMA NextCollects == TypeOK /\ Collected /\ [Next]_vars => Collected'
  <1> SUFFICES ASSUME TypeOK, Collected, [Next]_vars
               PROVE  Collected'
    OBVIOUS
  <1>0. hash \in [Macs -> Slots] /\ temp \in Tables /\ hash' = hash
    BY DEF TypeOK, Tables, Next, Monitor, Poll, PollNone, InvalidHost, ValidHost, HostsDone,
           Sweep, SweepTo, Clean, Sync, SyncStart, SyncRead, SyncTell, vars
  <1>1. ASSUME temp' = temp, wanted' = wanted, Collection, wanted \subseteq Macs
        PROVE  Collection'
    BY <1>0, <1>1 DEF Collection, Hosts, Single, Found, Hits, Searched, Probe
  <1>2. ASSUME NEW report \in SUBSET Macs, Poll(report)
        PROVE  Collected'
    <2>1. temp' = NoHosts /\ wanted' = {}
      BY <1>2 DEF Poll, Collected
    <2>2. Collection'
      BY <2>1, EmptyTable, EmptyIsSingle DEF Collection, Hosts, Single
    <2> QED
      BY <1>2, <2>1, <2>2 DEF Poll, Collected
  <1>3. CASE PollNone
    BY <1>3 DEF PollNone, Collected
  <1>4. ASSUME NEW m \in Macs, InvalidHost(m)
        PROVE  Collected'
    BY <1>1, <1>4 DEF InvalidHost, Collected, Fit, TypeOK
  <1>5. ASSUME NEW m \in Macs, ValidHost(m)
        PROVE  Collected'
    <2>1. temp' = AddHost(temp, m) /\ at = "host" /\ at' = "host" /\ m \in todo
          /\ wanted' = wanted \cup {m} /\ todo' = todo \ {m} /\ wanted \subseteq Macs
      BY <1>5 DEF ValidHost, TypeOK
    <2>2. m \notin wanted /\ todo' \cap wanted' = {}
      BY <2>1 DEF Collected
    <2>3. IsFiniteSet(wanted) /\ Cardinality(wanted \cup {m}) = Cardinality(wanted) + 1
          /\ Cardinality(wanted) \in Nat
      BY <2>1, <2>2, MacsAssumption, FS_Subset, FS_AddElement, FS_CardinalityType
    <2>4. ASSUME Fit'
          PROVE  Collection'
      <3>1. Fit /\ Cardinality(wanted \cup {m}) <= Size
        BY <2>1, <2>3, <2>4, SizeAssumption DEF Fit
      <3>2. Single(temp) /\ Hosts(temp) = wanted /\ \A n \in wanted : Found(temp, n)
        BY <2>1, <3>1 DEF Collected, Collection
      <3>3. /\ Hosts(AddHost(temp, m)) = wanted \cup {m} /\ Single(AddHost(temp, m))
            /\ Found(AddHost(temp, m), m)
            /\ \A n \in Macs : Found(temp, n) => Found(AddHost(temp, m), n)
        BY <1>0, <2>2, <3>1, <3>2, AddedIsFound
      <3>4. \A n \in wanted' : Found(AddHost(temp, m), n)
        BY <2>1, <3>2, <3>3
      <3>5. \A n \in wanted' : Found(temp, n)'
        BY <1>0, <2>1, <3>4 DEF Found, Hits, Searched, Probe
      <3> QED
        BY <2>1, <3>3, <3>5 DEF Collection, Hosts, Single
    <2> QED
      BY <2>1, <2>2, <2>4 DEF Collected
  <1>6. CASE HostsDone
    BY <1>1, <1>6 DEF HostsDone, Collected, Fit, TypeOK
  <1>7. CASE Sweep
    BY <1>1, <1>7 DEF Sweep, SweepTo, Collected, Fit, TypeOK
  <1>8. CASE Clean
    BY <1>8 DEF Clean, Collected
  <1>9. CASE Sync \/ UNCHANGED vars
    <2>1. UNCHANGED <<temp, at, todo, wanted>>
      BY <1>9 DEF Sync, SyncStart, SyncRead, SyncTell, vars, monitor
    <2> QED
      BY <1>1, <2>1 DEF Collected, Fit, TypeOK
  <1> QED
    BY <1>2, <1>3, <1>4, <1>5, <1>6, <1>7, <1>8, <1>9 DEF Next, Monitor

\* EthHost_Sync takes a step of its own with each thing it does.
LEMMA SyncMoves == TypeOK /\ Sync => sync' # sync
  <1> SUFFICES ASSUME TypeOK, Sync, sync' = sync
               PROVE  FALSE
    OBVIOUS
  <1>1. CASE SyncStart
    BY <1>1 DEF SyncStart
  <1>2. sync.slot \in Slots /\ sync.slot + 1 # sync.slot
    BY SizeAssumption DEF TypeOK, Slots
  <1>3. SyncNext(sync.slot).at # "tell" /\ SyncNext(sync.slot) # sync
    <2>1. SyncNext(sync.slot).at \in {"idle", "read"}
      BY DEF SyncNext, NoSync
    <2>2. SyncNext(sync.slot).at = "read" => SyncNext(sync.slot).slot = sync.slot + 1
      BY DEF SyncNext, NoSync
    <2>3. sync.at \in {"read", "tell"}
      BY <1>1 DEF Sync, SyncRead, SyncTell
    <2> QED
      BY <1>2, <2>1, <2>2, <2>3
  <1>4. CASE SyncRead
    <2>1. [sync EXCEPT !.at = "tell", !.host = table[sync.slot]].at = "tell"
      BY DEF TypeOK
    <2> QED
      BY <1>3, <1>4, <2>1 DEF SyncRead
  <1>5. CASE SyncTell
    BY <1>3, <1>5 DEF SyncTell
  <1> QED
    BY <1>1, <1>4, <1>5 DEF Sync

\* However the hosts share hashes, and as long as there are slots for them: a
\* host that the report holds and that is valid is never told disconnected by
\* the comparison of the two tables.
THEOREM NoHostMissed == Spec => NoFalseDisconnect
  <1> DEFINE Step == at = "sweep" /\ sync' = sync /\ Cardinality(wanted) <= Size
                     => \A m \in wanted \ untold' : m \in view => m \in view'
  <1>1. Init => Collected
    BY DEF Init, Collected
  <1>2. TypeOK /\ Collected /\ [Next]_vars => Collected'
    BY NextCollects
  <1>3. TypeOK /\ Collected /\ [Next]_vars => [Step]_vars
    <2> SUFFICES ASSUME TypeOK, Collected, [Next]_vars, at = "sweep", sync' = sync,
                        Cardinality(wanted) <= Size, NEW m \in wanted, m \in view
                 PROVE  m \in view'
      OBVIOUS
    <2>1. CASE Sweep
      <3> DEFINE n == table[slot]
      <3>1. CASE n # Free /\ ~Found(temp, n)
        <4>1. n # m
          BY <3>1 DEF Collected, Collection, Fit
        <4>2. UNCHANGED told \/ Tell({n}, FALSE)
          BY <2>1, <3>1 DEF Sweep, SweepTo
        <4> QED
          BY <4>1, <4>2 DEF Tell, told
      <3>2. CASE ~(n # Free /\ ~Found(temp, n))
        BY <2>1, <3>2 DEF Sweep, SweepTo, told
      <3> QED
        BY <3>1, <3>2
    <2>2. CASE UNCHANGED vars
      BY <2>2 DEF vars, told
    <2>3. ~Sync
      BY SyncMoves
    <2>4. ASSUME Monitor
          PROVE  Sweep
      BY <2>4 DEF Monitor, Poll, PollNone, InvalidHost, ValidHost, HostsDone, Clean
    <2> QED
      BY <2>1, <2>2, <2>3, <2>4 DEF Next
  <1> QED
    BY HostTypes, <1>1, <1>2, <1>3, PTL DEF Spec, NoFalseDisconnect

-----------------------------------------------------------------------------
(* A table that is full *)

\* A host that is told connected is in the table from then on; one that leaves
\* the table is told disconnected.
LEMMA HostsOfTable ==
    ASSUME hash \in [Macs -> Slots], NEW t \in Tables, NEW m \in Macs
    PROVE  /\ Hosts(t) \subseteq Hosts(AddHost(t, m))
           /\ AddHost(t, m) # t => m \in Hosts(AddHost(t, m))
           /\ Hosts(t) \ {m} \subseteq Hosts(DeleteHost(t, m))
           /\ ~Found(t, m) => DeleteHost(t, m) = t
  <1> DEFINE empty == {k \in Slots : t[Probe(m, k)] = Free}
             put == Probe(m, Least(empty))
             found == FindHost(t, m)
  <1>1. m # Free
    BY MacsAssumption
  <1>2. ASSUME empty # {}
        PROVE  Hosts(t) \subseteq Hosts(AddHost(t, m)) /\ m \in Hosts(AddHost(t, m))
    <2>1. Least(empty) \in empty
      BY <1>2, LeastOfSlots
    <2>2. put \in Slots /\ t[put] = Free
      BY <2>1, ProbeCovers
    <2>3. AddHost(t, m) = [t EXCEPT ![put] = m]
      BY <1>2 DEF AddHost
    <2> HIDE DEF put
    <2>4. \A s \in Slots : AddHost(t, m)[s] = IF s = put THEN m ELSE t[s]
      BY <2>2, <2>3 DEF Tables
    <2> QED
      BY <1>1, <2>2, <2>4 DEF Hosts
  <1>3. empty = {} => AddHost(t, m) = t
    BY DEF AddHost
  <1>4. ASSUME Found(t, m)
        PROVE  Hosts(t) \ {m} \subseteq Hosts(DeleteHost(t, m))
    <2>1. Hits(t, m) \in SUBSET Slots /\ Hits(t, m) # {}
      BY <1>4 DEF Found, Hits, Searched
    <2>2. Least(Hits(t, m)) \in Hits(t, m)
      BY <2>1, LeastOfSlots
    <2>3. found \in Slots /\ t[found] = m
      BY <2>2, ProbeCovers DEF FindHost, Hits, Searched
    <2>4. DeleteHost(t, m) = [t EXCEPT ![found] = Free]
      BY <1>4 DEF DeleteHost
    <2> HIDE DEF found
    <2>5. \A s \in Slots : DeleteHost(t, m)[s] = IF s = found THEN Free ELSE t[s]
      BY <2>3, <2>4 DEF Tables
    <2> QED
      BY <2>3, <2>5 DEF Hosts
  <1>5. ~Found(t, m) => DeleteHost(t, m) = t
    BY DEF DeleteHost
  <1> QED
    BY <1>2, <1>3, <1>4, <1>5

\* Nobody is forgotten when those who leave the table, and nobody but those in
\* it, are told of.
LEMMA TellForgetsNone ==
    ASSUME NEW ms, NEW connected \in BOOLEAN, Tell(ms, connected), NoneForgotten,
           NEW left, Hosts(table) \ ms \subseteq left, connected => ms \subseteq left
    PROVE  view' \ untold' \subseteq left
  <1>1. PICK lost \in SUBSET (IF MayFail THEN ms ELSE {}) :
           /\ view' = IF connected THEN view \cup (ms \ lost) ELSE view \ (ms \ lost)
           /\ untold' = (untold \ ms) \cup lost
    BY DEF Tell
  <1>2. CASE connected
    BY <1>1, <1>2 DEF NoneForgotten
  <1>3. CASE ~connected
    BY <1>1, <1>3 DEF NoneForgotten
  <1> QED
    BY <1>2, <1>3

LEMMA MonitorForgetsNone == TypeOK /\ NoneForgotten /\ Monitor => NoneForgotten'
  <1> SUFFICES ASSUME TypeOK, NoneForgotten, Monitor
               PROVE  NoneForgotten'
    OBVIOUS
  <1>1. hash \in [Macs -> Slots] /\ table \in Tables /\ slot \in Slots /\ todo \subseteq Macs
    BY DEF TypeOK, Tables
  <1>2. Hosts(table)' = Hosts(table')
    BY DEF Hosts
  <1>3. ASSUME UNCHANGED <<table, view, untold>>
        PROVE  NoneForgotten'
    BY <1>2, <1>3 DEF NoneForgotten
  <1>4. ASSUME NEW m \in Macs, table' = DeleteHost(table, m),
               IF Found(table, m) THEN Tell({m}, FALSE) ELSE UNCHANGED told
        PROVE  NoneForgotten'
    <2>1. CASE Found(table, m)
      <3>1. Hosts(table) \ {m} \subseteq Hosts(table')
        BY <1>1, <1>4, HostsOfTable
      <3>2. Tell({m}, FALSE)
        BY <1>4, <2>1
      <3>3. view' \ untold' \subseteq Hosts(table')
        BY <3>1, <3>2, TellForgetsNone
      <3> QED
        BY <1>2, <3>3 DEF NoneForgotten
    <2>2. CASE ~Found(table, m)
      BY <1>1, <1>3, <1>4, <2>2, HostsOfTable DEF told
    <2> QED
      BY <2>1, <2>2
  <1>5. CASE PollNone
    <2>1. CASE allGone
      BY <1>3, <1>5, <2>1 DEF PollNone, told
    <2>2. CASE ~allGone
      BY <1>2, <1>5, <2>2, TellForgetsNone DEF PollNone, NoneForgotten
    <2> QED
      BY <2>1, <2>2
  <1>6. ASSUME NEW m \in Macs, InvalidHost(m)
        PROVE  NoneForgotten'
    BY <1>4, <1>6 DEF InvalidHost
  <1>7. ASSUME NEW m \in Macs, ValidHost(m)
        PROVE  NoneForgotten'
    <2>1. CASE UNCHANGED <<table, told>>
      BY <1>3, <2>1 DEF told
    <2>2. CASE table' = AddHost(table, m) /\ table' # table /\ Tell({m}, TRUE)
      <3>1. Hosts(table) \subseteq Hosts(table') /\ m \in Hosts(table')
        BY <1>1, <2>2, HostsOfTable
      <3>2. Hosts(table) \ {m} \subseteq Hosts(table') /\ {m} \subseteq Hosts(table')
        BY <3>1
      <3>3. Tell({m}, TRUE)
        BY <2>2
      <3>4. view' \ untold' \subseteq Hosts(table')
        BY <3>2, <3>3, TellForgetsNone
      <3> QED
        BY <1>2, <3>4 DEF NoneForgotten
    <2> QED
      BY <1>7, <2>1, <2>2 DEF ValidHost, told
  <1>8. CASE Sweep
    <2> DEFINE m == table[slot]
    <2>1. CASE m # Free /\ ~Found(temp, m)
      <3>1. m \in Macs
        BY <1>1, <2>1 DEF Tables
      <3> QED
        BY <1>4, <1>8, <2>1, <3>1 DEF Sweep, SweepTo
    <2>2. CASE ~(m # Free /\ ~Found(temp, m))
      BY <1>3, <1>8, <2>2 DEF Sweep, SweepTo, told
    <2> QED
      BY <2>1, <2>2
  <1>9. CASE (\E report \in SUBSET Macs : Poll(report)) \/ HostsDone \/ Clean
    BY <1>3, <1>9 DEF Poll, HostsDone, Clean, told
  <1> QED
    BY <1>5, <1>6, <1>7, <1>8, <1>9 DEF Monitor

\* EthHost_Sync tells of a host that is in the table, or what it read is noted
\* as false.
LEMMA SyncForgetsNone == TypeOK /\ Pointed /\ NoneForgotten /\ Sync => NoneForgotten'
  <1> SUFFICES ASSUME TypeOK, Pointed, NoneForgotten, Sync
               PROVE  NoneForgotten'
    OBVIOUS
  <1>1. table' = table /\ Hosts(table)' = Hosts(table)
    BY DEF Sync, SyncStart, SyncRead, SyncTell, Hosts
  <1>2. CASE UNCHANGED told
    BY <1>1, <1>2 DEF told, NoneForgotten
  <1>3. CASE SyncTell
    <2>1. CASE table[sync.slot] = sync.host /\ Tell({sync.host}, TRUE)
      <3>1. sync.at = "tell"
        BY <1>3 DEF SyncTell
      <3>2. sync.host \in Hosts(table)
        BY <2>1, <3>1, MacsAssumption DEF Pointed, Hosts, TypeOK
      <3>3. Hosts(table) \ {sync.host} \subseteq Hosts(table) /\ {sync.host} \subseteq Hosts(table)
        BY <3>2
      <3>4. Tell({sync.host}, TRUE)
        BY <2>1
      <3>5. view' \ untold' \subseteq Hosts(table)
        BY <3>3, <3>4, TellForgetsNone
      <3> QED
        BY <1>1, <3>5 DEF NoneForgotten
    <2>2. CASE TellFalsely
      BY <1>1, <2>2 DEF TellFalsely, told, NoneForgotten
    <2> QED
      BY <1>3, <2>1, <2>2 DEF SyncTell
  <1> QED
    BY <1>2, <1>3 DEF Sync, SyncStart, SyncRead

\* Whether or not they fit: LMLite takes no host for connected that the table
\* does not have, so that its disconnection can still be told.
THEOREM NobodyForgotten == Spec => []NoneForgotten
  <1>1. Init => NoneForgotten
    BY DEF Init, NoneForgotten
  <1>2. TypeOK /\ Pointed /\ NoneForgotten /\ [Next]_vars => NoneForgotten'
    <2> SUFFICES ASSUME TypeOK, Pointed, NoneForgotten, [Next]_vars
                 PROVE  NoneForgotten'
      OBVIOUS
    <2>1. CASE Monitor
      BY <2>1, MonitorForgetsNone
    <2>2. CASE Sync
      BY <2>2, SyncForgetsNone
    <2>3. CASE UNCHANGED vars
      BY <2>3 DEF vars, told, NoneForgotten, Hosts
    <2> QED
      BY <2>1, <2>2, <2>3 DEF Next
  <1> QED
    BY <1>1, <1>2, InitTypes, NextTypes, PTL DEF Spec
=============================================================================
