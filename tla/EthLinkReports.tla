-------------------------- MODULE EthLinkReports --------------------------
(***************************************************************************)
(* The two ways in which others learn of the WAN port's link, together:    *)
(* the status events on rbus, which follow the callbacks, and the PHY      *)
(* monitor of the WAN manager's requests, which asks the switch.  They     *)
(* share the link and the agent's process, and nothing else.               *)
(***************************************************************************)
EXTENDS EthLinkStatus

CONSTANTS Instances, Rounds, MayFail    \* of EthPhyMonitor

ASSUME InstancesAssumption == Instances \subseteq Nat \ {0}
ASSUME RoundsAssumption == Rounds \in Nat
ASSUME MayFailAssumption == MayFail \in BOOLEAN

VARIABLES wanInstanceNumber, MonitorPhyStatusAndNotify, monitor, ethoff, asked, unanswered

Phy == INSTANCE EthPhyMonitor WITH excused <- unanswered

phy == <<wanInstanceNumber, MonitorPhyStatusAndNotify, monitor, ethoff, asked, unanswered>>
vars == <<link, status, phy>>

Init == StatusInit /\ Phy!Init

AgentRestarts ==
    /\ StatusRestarts /\ Phy!MonitorRestarts
    /\ UNCHANGED <<link, ethoff>>

\* The cable, the debug file and the requests are Phy's.
PhyStep ==
    /\ \/ \E i \in Instances : Phy!RequestPhyStatus(i)
       \/ Phy!ThreadMonitorPhyAndNotify
       \/ Phy!LinkChanges \/ Phy!EthOffChanges
    /\ UNCHANGED status

StatusStep == StatusNext /\ UNCHANGED phy

Next == StatusStep \/ PhyStep \/ AgentRestarts

Spec == Init /\ [][Next]_vars /\ StatusFairness /\ Phy!Fairness

\* The interface the WAN manager asked for last has a monitor running for it (the
\* exceptions are EthPhyMonitor's), whatever restarts and reports meanwhile.
RequestUnderWay == Phy!RequestUnderWay

\* The interface the WAN manager asked for last is reported in the end, whatever
\* the link does and the other threads report meanwhile (EthPhyMonitor states the
\* exceptions).
RequestAnswered == Phy!RequestAnswered
=============================================================================
