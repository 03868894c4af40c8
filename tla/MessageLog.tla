----------------------------- MODULE MessageLog -----------------------------
(***************************************************************************)
(* What one conversation promises its readers: a log of messages with      *)
(* consecutive sequence numbers that only grows at its end, whose prefix   *)
(* is sealed for the background and later released.  Sequence numbers      *)
(* start at 0, and -1 stands for "nothing yet".  Files, crashes and        *)
(* recovery do not appear here.                                            *)
(***************************************************************************)
EXTENDS Integers, Functions

VARIABLES content,   \* sequence number -> message, of what is not released
          sealed,    \* the last sequence number of a published segment
          released   \* the last sequence number whose text was given up

vars == <<content, sealed, released>>

Init == content = [n \in {} |-> 0] /\ sealed = -1 /\ released = -1

(* Messages are added right behind the last one; no stored message changes. *)
Append ==
    /\ IsRestriction(content, content')
    /\ \E n \in DOMAIN content' :
          /\ DOMAIN content' = (released + 1)..n
          /\ n \notin DOMAIN content
    /\ UNCHANGED <<sealed, released>>

(* A non-empty unsealed prefix is sealed.                                   *)
Seal ==
    /\ \E n \in DOMAIN content : n > sealed /\ sealed' = n
    /\ UNCHANGED <<content, released>>

(* A prefix of what is sealed is released.                                  *)
Release ==
    /\ \E n \in (released + 1)..sealed :
          /\ released' = n
          /\ content' = Restrict(content, DOMAIN content \ (0..n))
    /\ UNCHANGED sealed

Next == Append \/ Seal \/ Release

Spec == Init /\ [][Next]_vars
=============================================================================
