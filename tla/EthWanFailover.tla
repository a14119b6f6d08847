-------------------------- MODULE EthWanFailover ---------------------------
(***************************************************************************)
(* The WAN failover simulation: writing TRUE to the rbus parameter         *)
(* LinkDown starts a thread that plays "link down" on the WAN interface    *)
(* and waits on a condition variable, until the time LinkDownTimeout is    *)
(* over or LinkDown is written FALSE; then it plays "link up".  A file     *)
(* marks a simulation that runs, for the start-up after a crash.           *)
(*                                                                         *)
(* The rbus dispatcher writes EWanLinkDown and signals without the lock.   *)
(* Every simulation initialises the one condition variable again: a waiter *)
(* of an earlier initialisation may or may not get a later signal.  What   *)
(* the callbacks do with the link is EthLinkEvents'; here only the last    *)
(* one is kept.                                                            *)
(***************************************************************************)
EXTENDS Naturals

CONSTANTS
    Sims,               \* threads Wan_Failover_Simulation that may run at a time
    MayFail,            \* TRUE: pthread_create, the file and syscfg may fail
    MaxCrashes          \* bound on crashes of the agent

ASSUME SimsAssumption == Sims # {} /\ "none" \notin Sims
ASSUME BoundAssumption == MaxCrashes \in Nat
ASSUME FlagAssumption == MayFail \in BOOLEAN

VARIABLES
    linkDown,   \* EWanLinkDown
    timeout,    \* EWanLinkDownTimeout is not 0
    saved,      \* the same in syscfg
    rbus,       \* the dispatcher: "idle", or at "call" in Rbus_EthAgent_SetParamBoolValue
    sim,        \* the simulation threads
    owner,      \* the simulation that holds Linkdownlock, or "none"
    played,     \* the last callback made for the WAN interface
    file,       \* EWAN_LINK_DOWN_TEST_FILE exists
    boot,       \* the start-up's look at that file
    crashes,    \* crashes so far
    missed,     \* history: no start-up will know of a link that is down: the file could
                \* not be made, a crash came just before, or the start-up's removal failed
    remains,    \* history: the last removal of the file failed
    disturbed   \* history: LinkDown was written before the last write had settled,
                \* or pthread_create failed

params == <<linkDown, timeout, saved>>
vars == <<linkDown, timeout, saved, rbus, sim, owner, played, file, boot,
          crashes, missed, remains, disturbed>>

\* at is the next thing the thread does; waiters carry the way they wait and
\* whether the condition variable was initialised again since.
Steps == {"none", "condInit", "lock", "down", "file", "wait", "waiting", "relock",
          "up", "remove"}
Thread == [at : Steps, timed : BOOLEAN, stale : BOOLEAN]
NoThread == [at |-> "none", timed |-> FALSE, stale |-> FALSE]

At(i, step) == sim[i].at = step
To(i, step) == sim' = [sim EXCEPT ![i].at = step]

Init ==
    /\ linkDown = FALSE /\ timeout = FALSE /\ saved \in BOOLEAN
    /\ rbus = "idle"
    /\ sim = [i \in Sims |-> NoThread]
    /\ owner = "none"
    /\ played = "up" /\ file = FALSE
    /\ boot = "init" /\ crashes = 0
    /\ missed = FALSE /\ remains = FALSE /\ disturbed = FALSE

-----------------------------------------------------------------------------
(* The rbus dispatcher. *)

\* No simulation is about to wait or to end: LinkDown can be written.
Settled(b) ==
    /\ boot = "done"
    /\ \A i \in Sims : At(i, "none") \/ (~b /\ At(i, "waiting"))

\* The same value is refused; the number of Sims bounds the threads.
SetLinkDown(b) ==
    /\ rbus = "idle" /\ linkDown # b
    /\ b => \E i \in Sims : At(i, "none")
    /\ linkDown' = b
    /\ rbus' = "call"
    /\ disturbed' = (disturbed \/ ~Settled(b))
    /\ UNCHANGED <<timeout, saved, sim, owner, played, file, boot, crashes, missed, remains>>

\* Mutant: "up" is left to the timeout, LinkDown = FALSE signals nobody.
Bug_NoSignal ==
    /\ rbus = "call" /\ ~linkDown
    /\ rbus' = "idle"
    /\ UNCHANGED <<params, sim, owner, played, file, boot, crashes, missed, remains, disturbed>>

\* CreateThreadandSendCondSignalToPthread reads EWanLinkDown again.  Nothing
\* is called before SetEWanLinkDownSignalfunc.
CreateThread ==
    /\ rbus = "call" /\ linkDown
    /\ rbus' = "idle"
    /\ \/ /\ boot \notin {"init", "register"} /\ UNCHANGED disturbed
          /\ \E i \in Sims : At(i, "none") /\ To(i, "condInit")
       \/ boot \in {"init", "register"} /\ UNCHANGED <<sim, disturbed>>
       \/ MayFail /\ disturbed' = TRUE /\ UNCHANGED sim
    /\ UNCHANGED <<params, owner, played, file, boot, crashes, missed, remains>>

\* pthread_cond_signal: one waiter wakes, if there is one; waiters of an
\* earlier initialisation need not be among those it can find.
Signal ==
    /\ rbus = "call" /\ ~linkDown
    /\ rbus' = "idle"
    /\ \/ \E i \in Sims : At(i, "waiting") /\ To(i, "relock")
       \/ (\A i \in Sims : At(i, "waiting") => sim[i].stale) /\ UNCHANGED sim
    /\ UNCHANGED <<params, owner, played, file, boot, crashes, missed, remains, disturbed>>

\* LinkDownTimeout: written with its syscfg value, and overwritten by it when
\* the parameter is read.
SetTimeout(b) ==
    /\ rbus = "idle" /\ timeout # b
    /\ timeout' = b
    /\ saved' = b \/ (MayFail /\ UNCHANGED saved)
    /\ UNCHANGED <<linkDown, rbus, sim, owner, played, file, boot, crashes, missed, remains, disturbed>>

GetTimeout ==
    /\ rbus = "idle"
    /\ timeout' = saved
    /\ UNCHANGED <<linkDown, saved, rbus, sim, owner, played, file, boot, crashes, missed, remains, disturbed>>

-----------------------------------------------------------------------------
(* Wan_Failover_Simulation. *)

CondInit(i) ==
    /\ At(i, "condInit")
    /\ sim' = [j \in Sims |->
                 IF j = i THEN [sim[j] EXCEPT !.at = "lock"]
                 ELSE IF At(j, "waiting") THEN [sim[j] EXCEPT !.stale = TRUE]
                 ELSE sim[j]]
    /\ UNCHANGED <<params, rbus, owner, played, file, boot, crashes, missed, remains, disturbed>>

Lock(i) ==
    /\ At(i, "lock") /\ owner = "none"
    /\ owner' = i /\ To(i, "down")
    /\ UNCHANGED <<params, rbus, played, file, boot, crashes, missed, remains, disturbed>>

LinkDown(i) ==
    /\ At(i, "down")
    /\ IF linkDown THEN played' = "down" /\ To(i, "file")
       ELSE UNCHANGED played /\ To(i, "wait")
    /\ UNCHANGED <<params, rbus, owner, file, boot, crashes, missed, remains, disturbed>>

CreateFile(i) ==
    /\ At(i, "file")
    /\ \/ file' = TRUE /\ UNCHANGED missed
       \/ MayFail /\ UNCHANGED file /\ missed' = TRUE
    /\ To(i, "wait")
    /\ UNCHANGED <<params, rbus, owner, played, boot, crashes, remains, disturbed>>

\* The wait gives the lock up; which wait it is depends on the timeout now.
Wait(i) ==
    /\ At(i, "wait")
    /\ sim' = [sim EXCEPT ![i] = [at |-> "waiting", timed |-> timeout, stale |-> FALSE]]
    /\ owner' = "none"
    /\ UNCHANGED <<params, rbus, played, file, boot, crashes, missed, remains, disturbed>>

\* Mutant: the thread waits again for as long as EWanLinkDown is TRUE.
Bug_WaitsAgain(i) ==
    /\ At(i, "waiting") /\ sim[i].timed /\ ~linkDown
    /\ To(i, "relock")
    /\ UNCHANGED <<params, rbus, owner, played, file, boot, crashes, missed, remains, disturbed>>

TimeOut(i) ==
    /\ At(i, "waiting") /\ sim[i].timed
    /\ To(i, "relock")
    /\ UNCHANGED <<params, rbus, owner, played, file, boot, crashes, missed, remains, disturbed>>

\* The thread has the lock again; after a timed wait it clears EWanLinkDown.
Relock(i) ==
    /\ At(i, "relock") /\ owner = "none"
    /\ owner' = i /\ To(i, "up")
    /\ linkDown' = (linkDown /\ ~sim[i].timed)
    /\ UNCHANGED <<timeout, saved, rbus, played, file, boot, crashes, missed, remains, disturbed>>

\* Mutant: the file goes before the link is up.
Bug_RemoveFirst(i) ==
    /\ At(i, "up")
    /\ file' = FALSE /\ To(i, "remove")
    /\ UNCHANGED <<params, rbus, owner, played, boot, crashes, missed, remains, disturbed>>

LinkUp(i) ==
    /\ At(i, "up")
    /\ played' = "up" /\ To(i, "remove")
    /\ UNCHANGED <<params, rbus, owner, file, boot, crashes, missed, remains, disturbed>>

\* A file that cannot be opened or removed stays.
RemoveIfFileExists ==
    \/ file' = FALSE /\ remains' = FALSE
    \/ MayFail /\ file /\ UNCHANGED file /\ remains' = TRUE

\* Mutant: the thread leaves the file behind.
Bug_LeaveFile(i) ==
    /\ At(i, "remove")
    /\ owner' = "none"
    /\ sim' = [sim EXCEPT ![i] = NoThread]
    /\ UNCHANGED <<params, rbus, played, file, boot, crashes, missed, remains, disturbed>>

\* Mutant: the thread ends with the lock held.
Bug_NoUnlock(i) ==
    /\ At(i, "remove")
    /\ file' = FALSE
    /\ sim' = [sim EXCEPT ![i] = NoThread]
    /\ UNCHANGED <<params, rbus, owner, played, boot, crashes, missed, remains, disturbed>>

RemoveFile(i) ==
    /\ At(i, "remove")
    /\ RemoveIfFileExists
    /\ owner' = "none"
    /\ sim' = [sim EXCEPT ![i] = NoThread]
    /\ UNCHANGED <<params, rbus, played, boot, crashes, missed, disturbed>>

Simulation(i) ==
    \/ CondInit(i) \/ Lock(i) \/ LinkDown(i) \/ CreateFile(i) \/ Wait(i)
    \/ TimeOut(i) \/ Relock(i) \/ LinkUp(i) \/ RemoveFile(i)

-----------------------------------------------------------------------------
(* Start-up and crash. *)

\* CosaEthernetInitialize: the rbus parameters are served before they get their
\* first values, and before the signal function is registered.
initLinkStatus ==
    /\ boot = "init"
    /\ boot' = "register"
    /\ linkDown' = FALSE
    /\ timeout' = saved \/ (MayFail /\ UNCHANGED timeout)
    /\ UNCHANGED <<saved, rbus, sim, owner, played, file, crashes, missed, remains, disturbed>>

RegisterSignal ==
    /\ boot = "register"
    /\ boot' = "look"
    /\ UNCHANGED <<params, rbus, sim, owner, played, file, crashes, missed, remains, disturbed>>

\* It looks for the file without taking the lock, and brings the link up if it
\* could remove it.
BootRemove ==
    /\ boot = "look"
    /\ RemoveIfFileExists
    /\ boot' = IF file /\ ~file' THEN "up" ELSE "done"
    /\ missed' = (missed \/ file')
    /\ UNCHANGED <<params, rbus, sim, owner, played, crashes, disturbed>>

BootUp ==
    /\ boot = "up"
    /\ played' = "up"
    /\ boot' = "done"
    /\ UNCHANGED <<params, rbus, sim, owner, file, crashes, missed, remains, disturbed>>

Boot == initLinkStatus \/ RegisterSignal \/ BootRemove \/ BootUp

\* The parameters start over.  The file and what the WAN manager was last told
\* outlive the agent.
Crash ==
    /\ crashes < MaxCrashes
    /\ crashes' = crashes + 1
    /\ linkDown' = FALSE /\ timeout' = FALSE
    /\ rbus' = "idle"
    /\ sim' = [i \in Sims |-> NoThread]
    /\ owner' = "none"
    /\ boot' = "init"
    /\ missed' = (missed \/ boot = "up" \/ \E i \in Sims : At(i, "file"))
    /\ UNCHANGED <<saved, played, file, remains, disturbed>>

Dispatcher ==
    \/ \E b \in BOOLEAN : SetLinkDown(b) \/ SetTimeout(b)
    \/ CreateThread \/ Signal \/ GetTimeout

Next == Dispatcher \/ (\E i \in Sims : Simulation(i)) \/ Boot \/ Crash

Spec == Init /\ [][Next]_vars

\* Threads run, timers expire, the dispatcher finishes the call it is in.
FairSpec ==
    /\ Spec
    /\ WF_vars(CreateThread \/ Signal) /\ WF_vars(Boot)
    /\ \A i \in Sims : WF_vars(Simulation(i)) /\ SF_vars(Lock(i) \/ Relock(i))

-----------------------------------------------------------------------------
(* Properties. *)

TypeOK ==
    /\ linkDown \in BOOLEAN /\ timeout \in BOOLEAN /\ saved \in BOOLEAN
    /\ rbus \in {"idle", "call"}
    /\ sim \in [Sims -> Thread]
    /\ owner \in Sims \cup {"none"}
    /\ played \in {"up", "down"} /\ file \in BOOLEAN
    /\ boot \in {"init", "register", "look", "up", "done"}
    /\ crashes \in 0..MaxCrashes
    /\ missed \in BOOLEAN /\ remains \in BOOLEAN /\ disturbed \in BOOLEAN

\* A link that a simulation brought down is marked by the file, so that the
\* start-up after a crash brings it up again; the exceptions are the moment
\* between the two and a file that could not be made, or not be removed by the
\* start-up, which then does not bring the link up.
DownIsMarked ==
    (played = "down" /\ ~missed) =>
        file \/ boot = "up" \/ \E i \in Sims : At(i, "file")

\* The file does not outlive the simulations: somebody is there to remove it,
\* unless the last removal failed, which nobody repeats before the next start-up.
FileIsRemoved ==
    file => \/ boot \in {"init", "register", "look"} \/ remains
            \/ \E i \in Sims : sim[i].at \in {"wait", "waiting", "relock", "up", "remove"}

\* Who holds Linkdownlock is between taking it and giving it up, and nobody waits
\* for it in vain, however many simulations there are.
HolderRuns == owner # "none" => sim[owner].at \in {"down", "file", "wait", "up", "remove"}

\* A link that was brought down and is to come up again is never left to itself:
\* the start-up brings it up, or a simulation that has waited, or whose wait is
\* timed, or that the dispatcher is about to signal and that can get the signal.
\* The exceptions are those of DownIsMarked and of ReleaseEndsSimulation.
ReleaseUnderWay ==
    played = "down" /\ ~linkDown /\ ~missed /\ ~disturbed =>
        \/ boot = "up" \/ (boot \in {"init", "register", "look"} /\ file)
        \/ \E i \in Sims :
              \/ sim[i].at \in {"relock", "up"}
              \/ At(i, "waiting") /\ (sim[i].timed \/ (rbus = "call" /\ ~sim[i].stale))

\* A link that was brought down by a simulation which is told to end comes up
\* again, if need be by the start-up after a crash, unless LinkDown was written
\* while a simulation was about to wait or to end.
ReleaseEndsSimulation ==
    (played = "down" /\ ~linkDown) ~> (played = "up" \/ missed \/ disturbed)

\* A simulation whose wait is timed ends, whatever is written meanwhile.
TimeoutEndsSimulation ==
    \A i \in Sims : (At(i, "waiting") /\ sim[i].timed) ~> At(i, "none")

\* A simulation that is asked for in time takes place, unless the agent crashes
\* first.
RequestBringsDown ==
    (rbus = "call" /\ linkDown) ~> (played = "down" \/ boot # "done" \/ disturbed)
=============================================================================
