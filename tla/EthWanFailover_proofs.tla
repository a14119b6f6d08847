----------------------- MODULE EthWanFailover_proofs -----------------------
(***************************************************************************)
(* Proofs about the WAN failover simulation, for any number of threads, of *)
(* crashes and of failures, and however impatient the requester is.        *)
(***************************************************************************)
EXTENDS EthWanFailover, TLAPS

\* Linkdownlock excludes: between taking it and giving it up a thread owns it.
Excluded ==
    \A i \in Sims : sim[i].at \in {"down", "file", "wait", "up", "remove"} => owner = i

\* The thread that removes the file has brought the link up, and nobody else
\* could bring it down since.
UpBeforeRemove == \A i \in Sims : At(i, "remove") => played = "up"

Marked == TypeOK /\ Excluded /\ UpBeforeRemove /\ DownIsMarked

-----------------------------------------------------------------------------

LEMMA InitTyped == Init => TypeOK
  <1> SUFFICES ASSUME Init PROVE TypeOK
    OBVIOUS
  <1>1. NoThread \in Thread
    BY DEF NoThread, Thread, Steps
  <1>2. sim \in [Sims -> Thread]
    BY <1>1 DEF Init
  <1>3. crashes \in 0..MaxCrashes
    BY BoundAssumption DEF Init
  <1> QED
    BY <1>2, <1>3 DEF Init, TypeOK

\* Every variable keeps its type.
THEOREM TypeCorrect == Spec => []TypeOK
<1>1. Init => TypeOK
  BY InitTyped
<1>2. TypeOK /\ [Next]_vars => TypeOK'
  <2> SUFFICES ASSUME TypeOK, [Next]_vars PROVE TypeOK'
    OBVIOUS
  <2> USE DEF TypeOK, Thread, Steps, At, To, params
  <2>1. CASE Dispatcher
    <3>1. disturbed' \in BOOLEAN
      BY <2>1 DEF Dispatcher, SetLinkDown, SetTimeout, CreateThread, Signal, GetTimeout, Settled
    <3>2. sim' \in [Sims -> Thread]
      <4>1. sim' = sim \/ \E i \in Sims, at \in Steps : sim' = [sim EXCEPT ![i].at = at]
        BY <2>1 DEF Dispatcher, SetLinkDown, SetTimeout, CreateThread, Signal, GetTimeout
      <4> QED
        BY <4>1
    <3>3. linkDown' \in BOOLEAN /\ timeout' \in BOOLEAN /\ saved' \in BOOLEAN /\ rbus' \in {"idle", "call"}
      BY <2>1 DEF Dispatcher, SetLinkDown, SetTimeout, CreateThread, Signal, GetTimeout
    <3>4. UNCHANGED <<owner, played, file, boot, crashes, missed, remains>>
      BY <2>1 DEF Dispatcher, SetLinkDown, SetTimeout, CreateThread, Signal, GetTimeout
    <3> QED
      BY <3>1, <3>2, <3>3, <3>4
  <2>2. ASSUME NEW i \in Sims, Simulation(i) PROVE TypeOK'
    <3>1. CASE CondInit(i)
      <4>1. \A j \in Sims : sim'[j] \in Thread
        <5> SUFFICES ASSUME NEW j \in Sims PROVE sim'[j] \in Thread
          OBVIOUS
        <5>1. \/ sim'[j] = [sim[j] EXCEPT !.at = "lock"]
              \/ sim'[j] = [sim[j] EXCEPT !.stale = TRUE]
              \/ sim'[j] = sim[j]
          BY <3>1 DEF CondInit
        <5> QED
          BY <5>1
      <4>2. sim' \in [Sims -> Thread]
        BY <3>1, <4>1 DEF CondInit
      <4> QED
        BY <3>1, <4>2 DEF CondInit
    <3>2. CASE Wait(i) \/ RemoveFile(i)
      <4>1. \E t \in Thread : sim' = [sim EXCEPT ![i] = t]
        BY <3>2 DEF Wait, RemoveFile, NoThread
      <4>2. sim' \in [Sims -> Thread]
        BY <4>1
      <4>3. UNCHANGED <<linkDown, timeout, saved, rbus, played, boot, crashes, missed, disturbed>>
        BY <3>2 DEF Wait, RemoveFile
      <4>4. owner' = "none" /\ file' \in BOOLEAN /\ remains' \in BOOLEAN
        BY <3>2 DEF Wait, RemoveFile, RemoveIfFileExists
      <4> QED
        BY <4>2, <4>3, <4>4
    <3>3. CASE ~CondInit(i) /\ ~Wait(i) /\ ~RemoveFile(i)
      <4>1. \E a \in {"down", "file", "wait", "relock", "up", "remove"} : To(i, a)
        BY <2>2, <3>3, Zenon DEF Simulation, Lock, LinkDown, CreateFile, TimeOut, Relock, LinkUp
      <4>2. sim' \in [Sims -> Thread]
        BY <4>1
      <4>3. UNCHANGED <<timeout, saved, rbus, boot, crashes, remains, disturbed>>
        BY <2>2, <3>3 DEF Simulation, Lock, LinkDown, CreateFile, TimeOut, Relock, LinkUp
      <4>4. linkDown' \in BOOLEAN /\ owner' \in Sims \cup {"none"}
        BY <2>2, <3>3 DEF Simulation, Lock, LinkDown, CreateFile, TimeOut, Relock, LinkUp
      <4>5. played' \in {"up", "down"} /\ file' \in BOOLEAN /\ missed' \in BOOLEAN
        BY <2>2, <3>3 DEF Simulation, Lock, LinkDown, CreateFile, TimeOut, Relock, LinkUp
      <4> QED
        BY <4>2, <4>3, <4>4, <4>5
    <3> QED
      BY <3>1, <3>2, <3>3
  <2>3. CASE Boot
    <3>1. CASE initLinkStatus
      <4>1. boot' = "register" /\ linkDown' = FALSE /\ timeout' \in BOOLEAN
        BY <3>1 DEF initLinkStatus
      <4> QED
        BY <3>1, <4>1 DEF initLinkStatus
    <3>2. CASE BootRemove
      <4>1. boot' \in {"up", "done"} /\ file' \in BOOLEAN /\ remains' \in BOOLEAN
        BY <3>2 DEF BootRemove, RemoveIfFileExists
      <4> QED
        BY <3>2, <4>1 DEF BootRemove
    <3>3. CASE RegisterSignal
      BY <3>3 DEF RegisterSignal
    <3>4. CASE BootUp
      BY <3>4 DEF BootUp
    <3> QED
      BY <2>3, <3>1, <3>2, <3>3, <3>4 DEF Boot
  <2>4. CASE Crash
    <3>1. crashes' \in 0..MaxCrashes
      BY <2>4, BoundAssumption DEF Crash
    <3> QED
      BY <2>4, <3>1 DEF Crash, NoThread
  <2>5. CASE UNCHANGED vars
    BY <2>5 DEF vars
  <2> QED
    BY <2>1, <2>2, <2>3, <2>4, <2>5 DEF Next
<1> QED
  BY <1>1, <1>2, PTL DEF Spec

\* A step of a thread moves that thread only, or marks waiters stale.
LEMMA OthersKeepPlace ==
    ASSUME TypeOK, NEW i \in Sims, Simulation(i), NEW j \in Sims, j # i
    PROVE  sim'[j].at = sim[j].at
  <1> USE DEF TypeOK, Thread, At, To
  <1>1. CASE CondInit(i)
    BY <1>1 DEF CondInit
  <1>2. CASE Lock(i) \/ LinkDown(i) \/ CreateFile(i) \/ Wait(i)
    BY <1>2 DEF Lock, LinkDown, CreateFile, Wait
  <1>3. CASE TimeOut(i) \/ Relock(i) \/ LinkUp(i) \/ RemoveFile(i)
    BY <1>3 DEF TimeOut, Relock, LinkUp, RemoveFile
  <1> QED
    BY <1>1, <1>2, <1>3 DEF Simulation

\* The dispatcher leaves the lock, the link and the file alone; a thread that
\* it starts or wakes does not own the lock.
LEMMA DispatcherKeepsMarked ==
    ASSUME Marked, TypeOK', Dispatcher
    PROVE  Marked'
  <1> USE DEF Marked, TypeOK, Thread, At, To, params
  <1>1. UNCHANGED <<owner, played, file, boot, missed>>
    BY DEF Dispatcher, SetLinkDown, SetTimeout, CreateThread, Signal, GetTimeout
  <1>2. \A j \in Sims : \/ sim'[j].at = sim[j].at
                        \/ sim[j].at \in {"none", "waiting"} /\ sim'[j].at \in {"condInit", "relock"}
    BY DEF Dispatcher, SetLinkDown, SetTimeout, CreateThread, Signal, GetTimeout
  <1>3. Excluded' /\ UpBeforeRemove'
    BY <1>1, <1>2 DEF Excluded, UpBeforeRemove
  <1>4. DownIsMarked'
    BY <1>1, <1>2 DEF DownIsMarked
  <1> QED
    BY <1>3, <1>4

LEMMA SimulationKeepsMarked ==
    ASSUME Marked, TypeOK', NEW i \in Sims, Simulation(i)
    PROVE  Marked'
  <1> USE SimsAssumption DEF Marked, TypeOK, Thread, At, To, params
  <1>1. \A j \in Sims \ {i} : sim'[j].at = sim[j].at
    BY OthersKeepPlace
  <1>2. CASE CondInit(i) \/ TimeOut(i)
    <2>1. UNCHANGED <<owner, played, file, boot, missed>>
      BY <1>2 DEF CondInit, TimeOut
    <2>2. sim[i].at \in {"condInit", "waiting"} /\ sim'[i].at \in {"lock", "relock"}
      BY <1>2 DEF CondInit, TimeOut
    <2> QED
      BY <1>1, <2>1, <2>2 DEF Excluded, UpBeforeRemove, DownIsMarked
  <1>3. CASE Lock(i) \/ Relock(i)
    <2>1. UNCHANGED <<played, file, boot, missed>> /\ owner = "none" /\ owner' = i
      BY <1>3 DEF Lock, Relock
    <2>2. sim[i].at \in {"lock", "relock"} /\ sim'[i].at \in {"down", "up"}
      BY <1>3 DEF Lock, Relock
    <2> QED
      BY <1>1, <2>1, <2>2 DEF Excluded, UpBeforeRemove, DownIsMarked
  <1>4. CASE LinkDown(i)
    <2>1. owner = i /\ UNCHANGED <<owner, file, boot, missed>>
      BY <1>4 DEF LinkDown, Excluded
    <2>2. \/ sim'[i].at = "file"
          \/ sim'[i].at = "wait" /\ UNCHANGED played
      BY <1>4 DEF LinkDown
    <2>3. \A j \in Sims : ~(sim'[j].at = "remove")
      BY <1>1, <2>1, <2>2 DEF Excluded
    <2>4. Excluded'
      BY <1>1, <2>1 DEF Excluded
    <2>5. DownIsMarked'
      <3>1. CASE sim'[i].at = "file"
        BY <3>1 DEF DownIsMarked
      <3>2. CASE UNCHANGED played
        <4>1. \A j \in Sims : At(j, "file") => j # i
          BY <1>4 DEF LinkDown
        <4> QED
          BY <1>1, <2>1, <3>2, <4>1 DEF DownIsMarked
      <3> QED
        BY <2>2, <3>1, <3>2
    <2> QED
      BY <2>3, <2>4, <2>5 DEF UpBeforeRemove
  <1>5. CASE CreateFile(i)
    <2>1. owner = i /\ UNCHANGED <<owner, played, boot>> /\ sim'[i].at = "wait"
      BY <1>5 DEF CreateFile, Excluded
    <2>2. file' \/ missed'
      BY <1>5 DEF CreateFile
    <2> QED
      BY <1>1, <2>1, <2>2 DEF Excluded, UpBeforeRemove, DownIsMarked
  <1>6. CASE Wait(i)
    <2>1. owner = i /\ owner' = "none" /\ UNCHANGED <<played, file, boot, missed>>
      BY <1>6 DEF Wait, Excluded
    <2>2. sim[i].at = "wait" /\ sim'[i].at = "waiting"
      BY <1>6 DEF Wait
    <2> QED
      BY <1>1, <2>1, <2>2 DEF Excluded, UpBeforeRemove, DownIsMarked
  <1>7. CASE LinkUp(i)
    <2>1. owner = i /\ UNCHANGED owner /\ played' = "up"
      BY <1>7 DEF LinkUp, Excluded
    <2> QED
      BY <1>1, <2>1 DEF Excluded, UpBeforeRemove, DownIsMarked
  <1>8. CASE RemoveFile(i)
    <2>1. owner = i /\ owner' = "none" /\ played = "up" /\ UNCHANGED played
      BY <1>8 DEF RemoveFile, Excluded, UpBeforeRemove
    <2>2. sim'[i].at = "none"
      BY <1>8 DEF RemoveFile, NoThread
    <2> QED
      BY <1>1, <2>1, <2>2 DEF Excluded, UpBeforeRemove, DownIsMarked
  <1> QED
    BY <1>2, <1>3, <1>4, <1>5, <1>6, <1>7, <1>8 DEF Simulation

\* The start-up removes the file without the lock, and then brings the link
\* up; a crash between the two is recorded as such.
LEMMA BootKeepsMarked ==
    ASSUME Marked, TypeOK', Boot \/ Crash
    PROVE  Marked'
  <1> USE DEF Marked, TypeOK, Thread, At, To, params
  <1>1. CASE initLinkStatus \/ RegisterSignal
    BY <1>1 DEF initLinkStatus, RegisterSignal, Excluded, UpBeforeRemove, DownIsMarked
  <1>2. CASE BootRemove
    BY <1>2 DEF BootRemove, RemoveIfFileExists, Excluded, UpBeforeRemove, DownIsMarked
  <1>3. CASE BootUp
    BY <1>3 DEF BootUp, Excluded, UpBeforeRemove, DownIsMarked
  <1>4. CASE Crash
    <2>1. \A j \in Sims : sim'[j].at = "none"
      BY <1>4 DEF Crash, NoThread
    <2>2. DownIsMarked'
      BY <1>4 DEF Crash, DownIsMarked
    <2> QED
      BY <2>1, <2>2 DEF Excluded, UpBeforeRemove
  <1> QED
    BY <1>1, <1>2, <1>3, <1>4 DEF Boot

\* The invariant holds in every reachable state.
LEMMA MarkedHolds == Spec => []Marked
<1>1. Init => Marked
  <2> SUFFICES ASSUME Init PROVE Marked
    OBVIOUS
  <2>1. TypeOK
    BY InitTyped
  <2>2. \A i \in Sims : sim[i].at = "none"
    BY DEF Init, NoThread
  <2> QED
    BY <2>1, <2>2 DEF Init, Marked, Excluded, UpBeforeRemove, DownIsMarked
<1>2. Marked /\ TypeOK' /\ [Next]_vars => Marked'
  <2> SUFFICES ASSUME Marked, TypeOK', [Next]_vars PROVE Marked'
    OBVIOUS
  <2>1. CASE UNCHANGED vars
    BY <2>1 DEF vars, Marked, TypeOK, Excluded, UpBeforeRemove, DownIsMarked, At
  <2> QED
    BY <2>1, DispatcherKeepsMarked, SimulationKeepsMarked, BootKeepsMarked DEF Next
<1> QED
  BY <1>1, <1>2, TypeCorrect, PTL DEF Spec

\* A link that is down for a simulation is marked by the file, whatever number
\* of simulations overlap and wherever the agent crashes.
THEOREM DownMarked == Spec => []DownIsMarked
<1>1. Marked => DownIsMarked
  BY DEF Marked
<1> QED
  BY <1>1, MarkedHolds, PTL

\* The file never outlives the simulations and the start-up that remove it, but
\* for a removal that failed.
THEOREM FileRemoved == Spec => []FileIsRemoved
<1> DEFINE Rest(j) == sim[j].at \in {"wait", "waiting", "relock", "up", "remove"}
<1>1. Init => FileIsRemoved
  BY DEF Init, FileIsRemoved
<1>2. TypeOK /\ FileIsRemoved /\ [Next]_vars => FileIsRemoved'
  <2> SUFFICES ASSUME TypeOK, FileIsRemoved, [Next]_vars PROVE FileIsRemoved'
    OBVIOUS
  <2> USE DEF TypeOK, Thread, At, To, params
  <2>1. CASE Dispatcher
    <3>1. UNCHANGED <<file, boot, remains>>
      BY <2>1 DEF Dispatcher, SetLinkDown, SetTimeout, CreateThread, Signal, GetTimeout
    <3>2. \A j \in Sims : Rest(j) => Rest(j)'
      BY <2>1 DEF Dispatcher, SetLinkDown, SetTimeout, CreateThread, Signal, GetTimeout
    <3> QED
      BY <3>1, <3>2 DEF FileIsRemoved
  <2>2. ASSUME NEW i \in Sims, Simulation(i) PROVE FileIsRemoved'
    <3>1. CASE CreateFile(i)
      <4>1. Rest(i)'
        BY <3>1 DEF CreateFile
      <4> QED
        BY <4>1 DEF FileIsRemoved
    <3>2. CASE RemoveFile(i)
      BY <3>2 DEF RemoveFile, RemoveIfFileExists, FileIsRemoved
    <3>3. CASE ~CreateFile(i) /\ ~RemoveFile(i)
      <4>1. UNCHANGED <<file, boot, remains>>
        BY <2>2, <3>3 DEF Simulation, CondInit, Lock, LinkDown, Wait, TimeOut, Relock, LinkUp
      <4>2. Rest(i) => Rest(i)'
        BY <2>2, <3>3 DEF Simulation, CondInit, Lock, LinkDown, Wait, TimeOut, Relock, LinkUp
      <4>3. \A j \in Sims : Rest(j) => Rest(j)'
        BY <2>2, <4>2, OthersKeepPlace
      <4> QED
        BY <4>1, <4>3 DEF FileIsRemoved
    <3> QED
      BY <3>1, <3>2, <3>3
  <2>3. CASE Boot \/ Crash
    BY <2>3 DEF Boot, initLinkStatus, RegisterSignal, BootRemove, RemoveIfFileExists, BootUp, Crash,
                FileIsRemoved
  <2>4. CASE UNCHANGED vars
    BY <2>4 DEF vars, FileIsRemoved
  <2> QED
    BY <2>1, <2>2, <2>3, <2>4 DEF Next
<1> QED
  BY <1>1, <1>2, TypeCorrect, PTL DEF Spec

-----------------------------------------------------------------------------
(* The lock is given up, and a simulation that is told to end ends         *)

Held == {"down", "file", "wait", "up", "remove"}

LEMMA SimulationKeepsHolder ==
    ASSUME TypeOK, HolderRuns, NEW i \in Sims, Simulation(i)
    PROVE  HolderRuns'
  <1> USE SimsAssumption DEF TypeOK, Thread, At, To, params, Held
  <1>1. \A j \in Sims \ {i} : sim'[j].at = sim[j].at
    BY OthersKeepPlace
  <1>2. CASE Wait(i) \/ RemoveFile(i)
    <2>1. owner' = "none"
      BY <1>2 DEF Wait, RemoveFile
    <2> QED
      BY <2>1 DEF HolderRuns
  <1>3. CASE Lock(i) \/ Relock(i)
    <2>1. owner' = i /\ sim'[i].at \in {"down", "up"}
      BY <1>3 DEF Lock, Relock
    <2> QED
      BY <2>1 DEF HolderRuns
  <1>4. CASE LinkDown(i) \/ CreateFile(i) \/ LinkUp(i)
    <2>1. owner' = owner /\ sim'[i].at \in Held
      BY <1>4 DEF LinkDown, CreateFile, LinkUp
    <2> QED
      BY <1>1, <2>1 DEF HolderRuns
  <1>5. CASE CondInit(i) \/ TimeOut(i)
    <2>1. owner' = owner /\ ~(sim[i].at \in Held)
      BY <1>5 DEF CondInit, TimeOut
    <2> QED
      BY <1>1, <2>1 DEF HolderRuns
  <1> QED
    BY <1>2, <1>3, <1>4, <1>5 DEF Simulation

\* Linkdownlock is never held by a thread that waits, has ended or is yet to
\* take it, for any number of simulations.
THEOREM LockGivenUp == Spec => []HolderRuns
<1>1. Init => HolderRuns
  BY DEF Init, HolderRuns
<1>2. TypeOK /\ HolderRuns /\ [Next]_vars => HolderRuns'
  <2> SUFFICES ASSUME TypeOK, HolderRuns, [Next]_vars PROVE HolderRuns'
    OBVIOUS
  <2> USE DEF TypeOK, Thread, At, To, params
  <2>1. CASE Dispatcher
    <3>1. owner' = owner /\ \A j \in Sims : sim'[j].at = sim[j].at \/ sim[j].at \in {"none", "waiting"}
      BY <2>1 DEF Dispatcher, SetLinkDown, SetTimeout, CreateThread, Signal, GetTimeout
    <3> QED
      BY <3>1 DEF HolderRuns
  <2>2. CASE \E i \in Sims : Simulation(i)
    BY <2>2, SimulationKeepsHolder
  <2>3. CASE Boot \/ Crash
    BY <2>3 DEF Boot, initLinkStatus, RegisterSignal, BootRemove, BootUp, Crash, HolderRuns
  <2>4. CASE UNCHANGED vars
    BY <2>4 DEF vars, HolderRuns
  <2> QED
    BY <2>1, <2>2, <2>3, <2>4 DEF Next
<1> QED
  BY <1>1, <1>2, TypeCorrect, PTL DEF Spec

\* As long as the requester waits for one write to settle before the next, one
\* simulation is alive at most, its wait is for the signal that will be sent, and
\* once the link is to come up it is on its way there.
Alone == \A i, j \in Sims : ~At(i, "none") /\ ~At(j, "none") => i = j

NoneToStart == rbus = "call" /\ linkDown => \A i \in Sims : At(i, "none")

NoneStale == \A i \in Sims : At(i, "waiting") => ~sim[i].stale

Ending ==
    ~linkDown => \A i \in Sims : \/ sim[i].at \in {"none", "relock", "up", "remove"}
                                 \/ At(i, "waiting") /\ rbus = "call"

InTurn == ~disturbed => Alone /\ NoneToStart /\ NoneStale /\ Ending

LEMMA DispatcherInTurn ==
    ASSUME TypeOK, InTurn, Dispatcher
    PROVE  InTurn'
  <1> USE DEF TypeOK, Thread, At, To, params
  <1> SUFFICES ASSUME ~disturbed'
               PROVE  (Alone /\ NoneToStart /\ NoneStale /\ Ending)'
    BY DEF InTurn
  <1>1. ~disturbed
    BY DEF Dispatcher, SetLinkDown, SetTimeout, CreateThread, Signal, GetTimeout
  <1>2. Alone /\ NoneToStart /\ NoneStale /\ Ending
    BY <1>1 DEF InTurn
  <1>3. ASSUME NEW b \in BOOLEAN, SetLinkDown(b)
        PROVE  (Alone /\ NoneToStart /\ NoneStale /\ Ending)'
    <2>1. linkDown' = b /\ rbus' = "call" /\ sim' = sim /\ Settled(b)
      BY <1>3 DEF SetLinkDown
    <2>2. NoneToStart' /\ Ending'
      BY <2>1 DEF NoneToStart, Ending, Settled
    <2> QED
      BY <1>2, <2>1, <2>2 DEF Alone, NoneStale
  <1>4. CASE (\E b \in BOOLEAN : SetTimeout(b)) \/ GetTimeout
    <2>1. UNCHANGED <<linkDown, rbus, sim>>
      BY <1>4 DEF SetTimeout, GetTimeout
    <2> QED
      BY <1>2, <2>1 DEF Alone, NoneToStart, NoneStale, Ending
  <1>5. CASE CreateThread
    <2>1. linkDown' /\ rbus' = "idle" /\ \A i \in Sims : At(i, "none")
      BY <1>2, <1>5 DEF CreateThread, NoneToStart
    <2>2. sim' = sim \/ \E i \in Sims : To(i, "condInit")
      BY <1>5 DEF CreateThread
    <2>3. Alone' /\ NoneStale'
      BY <2>1, <2>2 DEF Alone, NoneStale
    <2> QED
      BY <2>1, <2>3 DEF NoneToStart, Ending
  <1>6. CASE Signal
    <2>1. ~linkDown' /\ rbus' = "idle" /\ rbus = "call" /\ ~linkDown
      BY <1>6 DEF Signal
    <2>2. CASE \E i \in Sims : At(i, "waiting") /\ To(i, "relock")
      <3>1. PICK i \in Sims : At(i, "waiting") /\ To(i, "relock")
        BY <2>2
      <3>2. \A j \in Sims \ {i} : At(j, "none") /\ sim'[j] = sim[j]
        BY <1>2, <3>1 DEF Alone
      <3>3. sim'[i].at = "relock"
        BY <3>1
      <3> QED
        BY <2>1, <3>2, <3>3 DEF Alone, NoneToStart, NoneStale, Ending
    <2>3. CASE (\A i \in Sims : At(i, "waiting") => sim[i].stale) /\ sim' = sim
      <3>1. \A i \in Sims : ~At(i, "waiting")
        BY <1>2, <2>3 DEF NoneStale
      <3> QED
        BY <1>2, <2>1, <2>3, <3>1 DEF Alone, NoneToStart, NoneStale, Ending
    <2> QED
      BY <1>6, <2>2, <2>3 DEF Signal
  <1> QED
    BY <1>3, <1>4, <1>5, <1>6 DEF Dispatcher

LEMMA SimulationInTurn ==
    ASSUME TypeOK, InTurn, NEW i \in Sims, Simulation(i)
    PROVE  InTurn'
  <1> USE DEF TypeOK, Thread, At, To, params
  <1> SUFFICES ASSUME ~disturbed'
               PROVE  (Alone /\ NoneToStart /\ NoneStale /\ Ending)'
    BY DEF InTurn
  <1>1. ~disturbed /\ rbus' = rbus /\ ~At(i, "none")
    BY DEF Simulation, CondInit, Lock, LinkDown, CreateFile, Wait, TimeOut, Relock, LinkUp, RemoveFile
  <1>2. Alone /\ NoneToStart /\ NoneStale /\ Ending
    BY <1>1 DEF InTurn
  <1>3. \A j \in Sims \ {i} : At(j, "none") /\ sim'[j].at = "none"
    BY <1>1, <1>2, OthersKeepPlace DEF Alone
  <1>4. Alone'
    BY <1>3 DEF Alone
  <1>5. ~(rbus = "call" /\ linkDown) /\ (linkDown' => linkDown)
    BY <1>1, <1>2 DEF NoneToStart, Simulation, CondInit, Lock, LinkDown, CreateFile, Wait,
                      TimeOut, Relock, LinkUp, RemoveFile
  <1>6. NoneToStart'
    BY <1>1, <1>5 DEF NoneToStart
  <1>7. sim'[i].at = "waiting" => ~sim'[i].stale
    <2>1. CASE Wait(i)
      BY <2>1 DEF Wait
    <2>2. CASE ~Wait(i)
      BY <2>2 DEF Simulation, CondInit, Lock, LinkDown, CreateFile, TimeOut, Relock, LinkUp,
                  RemoveFile, NoThread
    <2> QED
      BY <2>1, <2>2
  <1>8. NoneStale'
    BY <1>3, <1>7 DEF NoneStale
  <1>9. ~linkDown' => sim'[i].at \in {"none", "relock", "up", "remove"}
    <2>1. CASE CondInit(i) \/ Lock(i) \/ LinkDown(i) \/ CreateFile(i) \/ Wait(i)
      <3>1. linkDown
        BY <1>2, <2>1 DEF Ending, CondInit, Lock, LinkDown, CreateFile, Wait
      <3> QED
        BY <2>1, <3>1 DEF CondInit, Lock, LinkDown, CreateFile, Wait
    <2>2. CASE TimeOut(i) \/ Relock(i) \/ LinkUp(i) \/ RemoveFile(i)
      BY <2>2 DEF TimeOut, Relock, LinkUp, RemoveFile, NoThread
    <2> QED
      BY <2>1, <2>2 DEF Simulation
  <1>10. Ending'
    BY <1>3, <1>9 DEF Ending
  <1> QED
    BY <1>4, <1>6, <1>8, <1>10

\* No simulation starts before the signal function is registered.
NoneYet == boot \in {"init", "register"} => \A i \in Sims : At(i, "none")

LEMMA NoneYetHolds == Spec => []NoneYet
<1>1. Init => NoneYet
  <2> SUFFICES ASSUME Init, NEW i \in Sims PROVE sim[i].at = "none"
    BY DEF NoneYet, At
  <2> QED
    BY DEF Init, NoThread
<1>2. TypeOK /\ NoneYet /\ [Next]_vars => NoneYet'
  <2> SUFFICES ASSUME TypeOK, NoneYet, [Next]_vars PROVE NoneYet'
    OBVIOUS
  <2> USE DEF NoneYet, At, To
  <2>1. CASE Dispatcher
    BY <2>1 DEF Dispatcher, SetLinkDown, SetTimeout, CreateThread, Signal, GetTimeout
  <2>2. ASSUME NEW i \in Sims, Simulation(i) PROVE NoneYet'
    <3>1. ~At(i, "none") /\ boot' = boot
      BY <2>2 DEF Simulation, CondInit, Lock, LinkDown, CreateFile, Wait, TimeOut, Relock, LinkUp,
                  RemoveFile
    <3> QED
      BY <3>1
  <2>3. CASE Boot
    BY <2>3 DEF Boot, initLinkStatus, RegisterSignal, BootRemove, BootUp
  <2>4. CASE Crash
    BY <2>4 DEF Crash, NoThread
  <2>5. CASE UNCHANGED vars
    BY <2>5 DEF vars
  <2> QED
    BY <2>1, <2>2, <2>3, <2>4, <2>5 DEF Next
<1> QED
  BY <1>1, <1>2, TypeCorrect, PTL DEF Spec

\* While no write disturbs them, one simulation is alive at most, and it will not
\* miss the signal.
LEMMA TurnsKept == Spec => []InTurn
<1>1. Init => InTurn
  BY DEF Init, InTurn, Alone, NoneToStart, NoneStale, Ending, At, NoThread
<1>2. TypeOK /\ NoneYet /\ InTurn /\ [Next]_vars => InTurn'
  <2> SUFFICES ASSUME TypeOK, NoneYet, InTurn, [Next]_vars PROVE InTurn'
    OBVIOUS
  <2>1. CASE Boot
    <3>1. CASE initLinkStatus
      BY <3>1 DEF initLinkStatus, NoneYet, InTurn, Alone, NoneToStart, NoneStale, Ending, At
    <3>2. CASE RegisterSignal \/ BootRemove \/ BootUp
      BY <3>2 DEF RegisterSignal, BootRemove, BootUp, params, InTurn, Alone, NoneToStart,
                  NoneStale, Ending, At
    <3> QED
      BY <2>1, <3>1, <3>2 DEF Boot
  <2>2. CASE Crash
    <3>1. ~linkDown' /\ rbus' = "idle" /\ \A i \in Sims : sim'[i].at = "none"
      BY <2>2 DEF Crash, NoThread
    <3> QED
      BY <3>1 DEF InTurn, Alone, NoneToStart, NoneStale, Ending, At
  <2>3. CASE UNCHANGED vars
    BY <2>3 DEF vars, InTurn, Alone, NoneToStart, NoneStale, Ending, At
  <2> QED
    BY <2>1, <2>2, <2>3, DispatcherInTurn, SimulationInTurn DEF Next
<1> QED
  BY <1>1, <1>2, TypeCorrect, NoneYetHolds, PTL DEF Spec

\* A link that is down has a simulation that has still to bring it up, or the
\* start-up that finds the file.
Up(i) == sim[i].at \in {"file", "wait", "waiting", "relock", "up"}
InHand ==
    played = "down" /\ ~missed =>
        boot = "up" \/ (boot \in {"init", "register", "look"} /\ file) \/ \E i \in Sims : Up(i)

LEMMA DownInHand == Spec => []InHand
<1>1. Init => InHand
  BY DEF Init, InHand
<1>2. Marked /\ InHand /\ [Next]_vars => InHand'
  <2> SUFFICES ASSUME Marked, InHand, [Next]_vars PROVE InHand'
    OBVIOUS
  <2> USE DEF Marked, TypeOK, Thread, At, To, params
  <2>1. CASE Dispatcher
    <3>1. UNCHANGED <<played, missed, boot, file>>
      BY <2>1 DEF Dispatcher, SetLinkDown, SetTimeout, CreateThread, Signal, GetTimeout
    <3>2. \A j \in Sims : Up(j) => Up(j)'
      BY <2>1 DEF Up, Dispatcher, SetLinkDown, SetTimeout, CreateThread, Signal, GetTimeout
    <3> QED
      BY <3>1, <3>2 DEF InHand
  <2>2. ASSUME NEW i \in Sims, Simulation(i) PROVE InHand'
    <3>1. boot' = boot /\ (missed => missed')
      BY <2>2 DEF Simulation, CondInit, Lock, LinkDown, CreateFile, Wait, TimeOut, Relock, LinkUp,
                  RemoveFile
    <3>2. CASE LinkDown(i)
      <4>1. Up(i)' /\ ~Up(i)
        BY <3>2 DEF LinkDown, Up
      <4> QED
        BY <4>1 DEF InHand
    <3>3. CASE LinkUp(i)
      BY <3>3 DEF LinkUp, InHand
    <3>4. CASE RemoveFile(i)
      BY <3>4 DEF RemoveFile, UpBeforeRemove, InHand
    <3>5. CASE ~LinkDown(i) /\ ~LinkUp(i) /\ ~RemoveFile(i)
      <4>1. played' = played /\ (file => file')
        BY <2>2, <3>5 DEF Simulation, CondInit, Lock, CreateFile, Wait, TimeOut, Relock
      <4>2. Up(i) => Up(i)'
        BY <2>2, <3>5 DEF Up, Simulation, CondInit, Lock, CreateFile, Wait, TimeOut, Relock
      <4>3. \A j \in Sims : Up(j) => Up(j)'
        BY <2>2, <4>2, OthersKeepPlace DEF Up
      <4> QED
        BY <3>1, <4>1, <4>3 DEF InHand
    <3> QED
      BY <3>2, <3>3, <3>4, <3>5
  <2>3. CASE Boot
    <3>1. CASE initLinkStatus \/ RegisterSignal
      BY <3>1 DEF initLinkStatus, RegisterSignal, InHand, Up
    <3>2. CASE BootRemove
      BY <3>2 DEF BootRemove, RemoveIfFileExists, InHand, Up
    <3>3. CASE BootUp
      BY <3>3 DEF BootUp, InHand
    <3> QED
      BY <2>3, <3>1, <3>2, <3>3 DEF Boot
  <2>4. CASE Crash
    BY <2>4 DEF Crash, DownIsMarked, InHand
  <2>5. CASE UNCHANGED vars
    BY <2>5 DEF vars, InHand, Up
  <2> QED
    BY <2>1, <2>2, <2>3, <2>4, <2>5 DEF Next
<1> QED
  BY <1>1, <1>2, MarkedHolds, PTL DEF Spec

\* A link that was brought down and is to come up again has somebody who brings
\* it up: the simulation that has it in hand is on its way there, or is signalled.
THEOREM ReleaseNotMissed == Spec => []ReleaseUnderWay
<1>1. TypeOK /\ InHand /\ InTurn => ReleaseUnderWay
  <2> SUFFICES ASSUME TypeOK, InHand, InTurn, played = "down", ~linkDown, ~missed, ~disturbed,
                      boot # "up", ~(boot \in {"init", "register", "look"} /\ file)
               PROVE  \E i \in Sims : \/ sim[i].at \in {"relock", "up"}
                                      \/ At(i, "waiting") /\ rbus = "call" /\ ~sim[i].stale
    BY DEF ReleaseUnderWay
  <2>1. NoneStale /\ Ending
    BY DEF InTurn
  <2>2. PICK i \in Sims : Up(i)
    BY DEF InHand
  <2> QED
    BY <2>1, <2>2 DEF NoneStale, Ending, At, Up
<1> QED
  BY <1>1, TypeCorrect, DownInHand, TurnsKept, PTL
=============================================================================
