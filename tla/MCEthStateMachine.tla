------------------------- MODULE MCEthStateMachine -------------------------
(***************************************************************************)
(* The state machine on small tables.  A run with one row has the WAN      *)
(* manager's view of that row's name, Iface, to compare with WanLinkReport.*)
(***************************************************************************)
EXTENDS EthStateMachine, TLC

\* Rows are interchangeable, and so are names.
Symmetry == Permutations(Slots) \cup Permutations(Names)

Iface == CHOOSE n \in Names : TRUE

\* Nothing is promised past a missed step, so a run of its invariants need
\* not go on from there.
NothingMissed == ~missed

\* The machine implements WanLinkReport for its only interface: it tells
\* the WAN manager "Up" or "Down" only as it saw the interface, in that
\* order, and while no step is missed it does tell it.
Report == INSTANCE WanLinkReport WITH
    ready <- ReadyFor(Iface), pending <- PendingFor(Iface), view <- wanLink[Iface],
    blind <- missed
ImplementsReport == Report!Spec
=============================================================================
