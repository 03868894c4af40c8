-------------------------- MODULE MCMemoryJobQueue --------------------------
(* Small instances of MemoryJobQueue for TLC.                               *)
EXTENDS MemoryJobQueue, TLC

Symmetry == Permutations(Source) \cup Permutations(Worker)
=============================================================================
