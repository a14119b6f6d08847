--------------------------- MODULE WanLinkReport ---------------------------
(***************************************************************************)
(* What the WAN manager may rely on about one interface, whatever the      *)
(* Ethernet agent does in between: a report follows a decision, a decision *)
(* follows what was seen of the interface at that moment, reports are made *)
(* in the order of the decisions, and as long as the agent is not blinded  *)
(* (a row or a call it needed failed) a report that is due is made.        *)
(***************************************************************************)

VARIABLES
    ready,      \* the interface is upstream, its link and its WAN are up
    pending,    \* the decision not reported yet, or "None"
    view,       \* the last LinkStatus the WAN manager was told, or "None"
    blind       \* a step of the agent was missed: nothing is promised any more

vars == <<ready, pending, view, blind>>
Reports == {"None", "Up", "Down"}

Init == ready = FALSE /\ pending = "None" /\ view = "None" /\ blind = FALSE

Change == ready' \in BOOLEAN /\ UNCHANGED <<pending, view, blind>>

DecideUp ==
    /\ pending = "None" /\ ready
    /\ pending' = "Up"
    /\ UNCHANGED <<ready, view, blind>>

DecideDown ==
    /\ pending = "None" /\ ~ready
    /\ pending' = "Down"
    /\ UNCHANGED <<ready, view, blind>>

Report ==
    /\ pending # "None"
    /\ view' = pending /\ pending' = "None"
    /\ UNCHANGED <<ready, blind>>

Blinded ==
    /\ blind' = TRUE
    /\ ready' \in BOOLEAN /\ pending' \in Reports /\ view' \in Reports

Next == Change \/ DecideUp \/ DecideDown \/ Report \/ Blinded

\* Reports that are due, unless blinded.
Due(A) == ~blind /\ A

Spec ==
    /\ Init /\ [][Next]_vars
    /\ WF_vars(Due(Report))
    /\ WF_vars(Due(DecideUp /\ view # "Up"))
    /\ WF_vars(Due(DecideDown /\ view = "Up"))

\* The safety part alone.
Safety == Init /\ [][Next]_vars
=============================================================================
