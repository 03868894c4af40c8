--------------------------- MODULE MCSourceLedger ---------------------------
(* SourceLedger for TLC: three sources s1, s2, s3 with end sequences 1, 2   *)
(* and 3, delivered in order, or s1 rewound: released before, delivered     *)
(* again with new content after the plugin lost its state.                  *)
EXTENDS SourceLedger, SequencesExt, TLC

CONSTANTS s1, s2, s3

EndOf == (s1 :> 1) @@ (s2 :> 2) @@ (s3 :> 3)
EndSeq == [s \in Source |-> EndOf[s]]
\* A fault budget: what may happen once.
Once(kinds) == [k \in FaultKind |-> IF k \in kinds THEN 1 ELSE 0]

\* An overlap, a restart, a lost lease, a lost Output, or a refused put whose marker outlives its grace.
OneFault == {Once({k}) : k \in {"overlap", "crash", "lost", "damage"}} \cup {Once({"full", "aged"})}
\* A failure and a restart whose left-overs may outlive their grace.
FailAndCrash == {Once({"failure", "crash", "aged"})}

InOrder == SetToSortSeq(Source, LAMBDA a, b : EndOf[a] < EndOf[b])
=============================================================================
