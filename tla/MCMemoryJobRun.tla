--------------------------- MODULE MCMemoryJobRun ---------------------------
(* Instances of MemoryJobRun.  Workers and plans are interchangeable.       *)
EXTENDS MemoryJobRun, TLC

Symmetry == Permutations(Worker) \cup Permutations(Plan)
=============================================================================
