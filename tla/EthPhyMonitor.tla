--------------------------- MODULE EthPhyMonitor ---------------------------
(***************************************************************************)
(* RequestPhyStatus: the WAN manager writes an instance number and is told *)
(* the PHY status of that interface by a thread that waits for the link,   *)
(* at most PHY_STATUS_MONITOR_MAX_TIMEOUT, or for as long as /tmp/ethoff   *)
(* is there.  One flag keeps a second thread from being started; a request *)
(* made meanwhile only changes the number, which the thread reads once.    *)
(* Without WAN_MANAGER_UNIFICATION_ENABLED.                                *)
(***************************************************************************)
EXTENDS Naturals

CONSTANTS
    Instances,      \* interfaces the WAN manager may ask for
    Rounds,         \* PHY_STATUS_MONITOR_MAX_TIMEOUT in PHY_STATUS_QUERY_INTERVALs
    MayFail         \* whether the thread's creation and its call may fail

VARIABLES
    wanInstanceNumber,          \* the last one written
    MonitorPhyStatusAndNotify,  \* a monitor is running
    monitor,    \* the thread: where it is, for whom, rounds waited, status found
    link,       \* of the Ethernet WAN port
    ethoff,     \* whether /tmp/ethoff is there
    asked,      \* history: the instance of the last request, until it is answered
    excused     \* history: why that need not happen: "" if it must

vars == <<wanInstanceNumber, MonitorPhyStatusAndNotify, monitor, link, ethoff, asked, excused>>

None == 0
Idle == [at |-> "none", for |-> None, counter |-> 0, phyStatus |-> FALSE]

Init ==
    /\ wanInstanceNumber = None /\ MonitorPhyStatusAndNotify = FALSE
    /\ monitor = Idle
    /\ link \in BOOLEAN /\ ethoff \in BOOLEAN
    /\ asked = None /\ excused = ""

At(s) == monitor.at = s
Goes(s) == monitor' = [monitor EXCEPT !.at = s]

\* The monitor will not report for i any more: it has read another number, or
\* it has reported already and not taken the flag back.
TooLate(i) ==
    \/ monitor.at \in {"look", "sleep", "report"} /\ monitor.for # i
    \/ At("clear")

\* MUTANT of RequestPhyStatus: the number of a request made meanwhile is not kept.
Bug_BusyKeepsNumber(i) ==
    /\ wanInstanceNumber' = IF MonitorPhyStatusAndNotify THEN wanInstanceNumber ELSE i
    /\ asked' = i
    /\ IF MonitorPhyStatusAndNotify
       THEN /\ excused' = IF excused = "failed" THEN excused
                           ELSE IF TooLate(i) THEN "absorbed" ELSE ""
            /\ UNCHANGED <<MonitorPhyStatusAndNotify, monitor>>
       ELSE /\ MonitorPhyStatusAndNotify' = TRUE
            /\ \/ monitor' = [Idle EXCEPT !.at = "start"] /\ excused' = ""
               \/ MayFail /\ UNCHANGED monitor /\ excused' = "failed"
    /\ UNCHANGED <<link, ethoff>>

\* EthernetWAN_SetParamStringValue, RequestPhyStatus.
RequestPhyStatus(i) ==
    /\ wanInstanceNumber' = i
    /\ asked' = i
    /\ IF MonitorPhyStatusAndNotify
       THEN /\ excused' = IF excused = "failed" THEN excused
                           ELSE IF TooLate(i) THEN "absorbed" ELSE ""
            /\ UNCHANGED <<MonitorPhyStatusAndNotify, monitor>>
       ELSE /\ MonitorPhyStatusAndNotify' = TRUE
            /\ \/ monitor' = [Idle EXCEPT !.at = "start"] /\ excused' = ""
               \/ MayFail /\ UNCHANGED monitor /\ excused' = "failed"
    /\ UNCHANGED <<link, ethoff>>

\* ThreadMonitorPhyAndNotify reads the number.
StartMonitor ==
    /\ At("start")
    /\ monitor' = [monitor EXCEPT !.at = "look", !.for = wanInstanceNumber]
    /\ UNCHANGED <<wanInstanceNumber, MonitorPhyStatusAndNotify, link, ethoff, asked, excused>>

\* What the switch says of the port.
CosaDmlEthWanLinkStatus == link

\* MUTANT of Round: there is no end to the waiting.
Bug_WaitForLink ==
    monitor' = IF ethoff THEN [monitor EXCEPT !.phyStatus = FALSE]
               ELSE IF CosaDmlEthWanLinkStatus THEN [monitor EXCEPT !.at = "report", !.phyStatus = TRUE]
               ELSE [monitor EXCEPT !.at = "sleep"]

\* One look: the time counts only while /tmp/ethoff is not there.
Round ==
    monitor' = IF ethoff THEN [monitor EXCEPT !.phyStatus = FALSE]
               ELSE IF CosaDmlEthWanLinkStatus THEN [monitor EXCEPT !.at = "report", !.phyStatus = TRUE]
               ELSE IF monitor.counter >= Rounds THEN [monitor EXCEPT !.at = "report"]
               ELSE [monitor EXCEPT !.at = "sleep"]

Look ==
    /\ At("look") /\ Round
    /\ UNCHANGED <<wanInstanceNumber, MonitorPhyStatusAndNotify, link, ethoff, asked, excused>>

\* A query interval is over.
Sleep ==
    /\ At("sleep")
    /\ monitor' = [monitor EXCEPT !.at = "look",
                                  !.counter = IF @ < Rounds THEN @ + 1 ELSE @]
    /\ UNCHANGED <<wanInstanceNumber, MonitorPhyStatusAndNotify, link, ethoff, asked, excused>>

\* The WAN manager is told; a call that fails is not repeated.
Report ==
    /\ At("report") /\ Goes("clear")
    /\ \/ asked' = (IF asked = monitor.for THEN None ELSE asked) /\ UNCHANGED excused
       \/ /\ MayFail /\ UNCHANGED asked
          /\ excused' = IF asked = monitor.for THEN "failed" ELSE excused
    /\ UNCHANGED <<wanInstanceNumber, MonitorPhyStatusAndNotify, link, ethoff>>

\* Only then may the next request start a monitor.
EndMonitor ==
    /\ At("clear") /\ monitor' = Idle
    /\ MonitorPhyStatusAndNotify' = FALSE
    /\ UNCHANGED <<wanInstanceNumber, link, ethoff, asked, excused>>

ThreadMonitorPhyAndNotify == StartMonitor \/ Look \/ Sleep \/ Report \/ EndMonitor

LinkChanges ==
    /\ link' = ~link
    /\ UNCHANGED <<wanInstanceNumber, MonitorPhyStatusAndNotify, monitor, ethoff, asked, excused>>

EthOffChanges ==
    /\ ethoff' = ~ethoff
    /\ UNCHANGED <<wanInstanceNumber, MonitorPhyStatusAndNotify, monitor, link, asked, excused>>

\* The agent ends and starts again: nobody remembers a request.
MonitorRestarts ==
    /\ wanInstanceNumber' = None /\ MonitorPhyStatusAndNotify' = FALSE
    /\ monitor' = Idle
    /\ excused' = IF asked = None THEN "" ELSE "failed"
    /\ UNCHANGED asked

Next ==
    \/ \E i \in Instances : RequestPhyStatus(i)
    \/ ThreadMonitorPhyAndNotify
    \/ LinkChanges \/ EthOffChanges
    \/ MonitorRestarts /\ UNCHANGED <<link, ethoff>>

Fairness == WF_vars(ThreadMonitorPhyAndNotify)

Spec == Init /\ [][Next]_vars /\ Fairness

-----------------------------------------------------------------------------
\* The interface that was asked for last has a monitor that has read its number or
\* will read it, with the exceptions of RequestAnswered; and while that runs no
\* second one is started.
RequestUnderWay ==
    asked # None /\ excused = "" =>
        /\ MonitorPhyStatusAndNotify /\ asked = wanInstanceNumber
        /\ At("start") \/ (monitor.at \in {"look", "sleep", "report"} /\ monitor.for = asked)

\* The interface that was asked for last is reported in the end, whatever the
\* link does; unless the request came when a monitor had already read another
\* number or reported, a call failed, the agent restarted, or /tmp/ethoff is there
\* again and again.
RequestAnswered == asked # None ~> asked = None \/ excused # "" \/ ethoff
=============================================================================
