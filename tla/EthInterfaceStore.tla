------------------------- MODULE EthInterfaceStore -------------------------
(***************************************************************************)
(* What the table of the interfaces promises to those who use it, wherever *)
(* its rows are: every interface has a cell of its own, under a number     *)
(* that no other one is given while the agent runs.  A cell appears with   *)
(* its interface, keeps its value until one is put into it, and goes with  *)
(* its interface, which is never an internal one; no step touches two.     *)
(***************************************************************************)
EXTENDS Naturals

CONSTANTS
    Internal,   \* interfaces that are never deleted
    Initial,    \* interfaces there are when the agent has started
    Status      \* values of a cell

VARIABLES
    cells,      \* the cell of each interface
    next        \* the number of the next interface

vars == <<cells, next>>

Cell(i, v) == [inst |-> i, val |-> v]

FirstCells == {Cell(i, "DOWN") : i \in 1..Initial}

Init == cells = FirstCells /\ next = Initial + 1

Add ==
    /\ cells' = cells \cup {Cell(next, "DOWN")}
    /\ next' = next + 1

Put ==
    /\ \E c \in cells, v \in Status : cells' = (cells \ {c}) \cup {Cell(c.inst, v)}
    /\ UNCHANGED next

Remove ==
    /\ \E c \in cells : c.inst > Internal /\ cells' = cells \ {c}
    /\ UNCHANGED next

Restart == cells' = FirstCells /\ next' = Initial + 1

Next == Add \/ Put \/ Remove \/ Restart

Spec == Init /\ [][Next]_vars
=============================================================================
