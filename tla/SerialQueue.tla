---------------------------- MODULE SerialQueue -----------------------------
(***************************************************************************)
(* What the memory-root queue promises: numbers are issued in increasing   *)
(* order and never again, and only the lowest number still open is ever    *)
(* worked on, until it is finished or, while nobody works on it, dropped.  *)
(***************************************************************************)
EXTENDS Naturals

VARIABLES
    issued,  \* the last number issued
    open,    \* numbers issued and neither finished nor dropped
    active   \* the number being worked on: a set of at most one

vars == <<issued, open, active>>

Init == issued = 0 /\ open = {} /\ active = {}

Lowest(n) == n \in open /\ \A m \in open : n <= m

(* A number may be lost between its issue and its use.                      *)
Issue ==
    /\ issued' = issued + 1
    /\ open' \in {open, open \cup {issued + 1}}
    /\ UNCHANGED active

Take ==
    /\ active = {}
    /\ \E n \in open : Lowest(n) /\ active' = {n}
    /\ UNCHANGED <<issued, open>>

PutBack ==
    /\ active # {}
    /\ active' = {}
    /\ UNCHANGED <<issued, open>>

Finish ==
    /\ active # {}
    /\ open' = open \ active
    /\ active' = {}
    /\ UNCHANGED issued

Drop ==
    /\ active = {}
    /\ \E n \in open : Lowest(n) /\ open' = open \ {n}
    /\ UNCHANGED <<issued, active>>

Next == Issue \/ Take \/ PutBack \/ Finish \/ Drop

Spec == Init /\ [][Next]_vars
=============================================================================
