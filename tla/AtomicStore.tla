---------------------------- MODULE AtomicStore -----------------------------
(***************************************************************************)
(* What multi-document commits promise to everybody who reads memory: one  *)
(* state of all documents at a time, replaced as a whole by a proposal     *)
(* whose read set is still current at that moment, once per attempt.       *)
(***************************************************************************)
CONSTANTS Doc, Attempt, Content

VARIABLES
    state,      \* Doc -> content
    proposals,  \* what attempts read and want to write
    applied     \* attempts that took effect

vars == <<state, proposals, applied>>

Proposal == [by: Attempt, scope: SUBSET Doc, changed: SUBSET Doc,
             before: [Doc -> Content], after: [Doc -> Content]]

Init ==
    /\ state \in [Doc -> Content]
    /\ proposals = {}
    /\ applied = {}

Propose ==
    /\ proposals \subseteq proposals'
    /\ proposals' \subseteq Proposal
    /\ \A p \in proposals' : p.changed \subseteq p.scope
    /\ UNCHANGED <<state, applied>>

Commit(p) ==
    /\ p.by \notin applied
    /\ \A d \in p.scope : state[d] = p.before[d]
    /\ state' = [d \in Doc |-> IF d \in p.changed THEN p.after[d] ELSE state[d]]
    /\ applied' = applied \cup {p.by}
    /\ UNCHANGED proposals

Next == Propose \/ \E p \in proposals : Commit(p)

Spec == Init /\ [][Next]_vars
=============================================================================
