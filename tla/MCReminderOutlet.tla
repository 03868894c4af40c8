-------------------------- MODULE MCReminderOutlet --------------------------
(* Small instances of ReminderOutlet for TLC.                                *)
EXTENDS ReminderOutlet

CONSTANTS e1, e2, e3

\* e1 is the basis; the others, where present, are members with later deadlines.
MCBasis == [e \in Requests |-> e1]
MCWindowEnd == [e \in Requests |-> CASE e = e1 -> 0 [] e = e2 -> 1 [] OTHER -> 2]
MCDeadline == [e \in Requests |-> CASE e = e1 -> 2 [] e = e2 -> 3 [] OTHER -> 4]

=============================================================================
