-------------------------- MODULE EthStatusChannel --------------------------
(***************************************************************************)
(* What the WAN manager may rely on about the link events, whatever the    *)
(* agent does in between and however often it crashes: Phy.Status changes  *)
(* by the messages that were queued, each of them once and in the order in *)
(* which they were queued, or because the start-up sets the one of the WAN *)
(* interface to UP itself; a message that is skipped leaves a trace.       *)
(***************************************************************************)
EXTENDS Naturals, Sequences

CONSTANTS
    Names,      \* of interfaces
    WanIface,   \* the one of the WAN
    Status,     \* what a message may say of an interface
    Capacity    \* messages that may be under way at a time

VARIABLES
    pending,    \* messages queued and not told yet, the oldest first
    view,       \* what the WAN manager was told last of each interface, or "None"
    lost        \* an event was missed: by the queue or on the way

vars == <<pending, view, lost>>

Init ==
    /\ pending = <<>>
    /\ view = [n \in Names |-> "None"]
    /\ lost = FALSE

Post ==
    /\ Len(pending) < Capacity
    /\ \E m \in [name : Names, status : Status] : pending' = Append(pending, m)
    /\ UNCHANGED <<view, lost>>

Tell ==
    /\ pending # <<>>
    /\ view' = [view EXCEPT ![Head(pending).name] = Head(pending).status]
    /\ pending' = Tail(pending)
    /\ UNCHANGED lost

Skip ==
    /\ pending # <<>>
    /\ pending' = Tail(pending) /\ lost' = TRUE
    /\ UNCHANGED view

Miss == lost' = TRUE /\ UNCHANGED <<pending, view>>

SetUp ==
    /\ view' = [view EXCEPT ![WanIface] = "UP"]
    /\ UNCHANGED <<pending, lost>>

Next == Post \/ Tell \/ Skip \/ Miss \/ SetUp

Spec == Init /\ [][Next]_vars
=============================================================================
