--------------------- MODULE MCMemoryCommitTransaction ----------------------
(* Small instances of MemoryCommitTransaction for TLC.                      *)
EXTENDS MemoryCommitTransaction, TLC

Symmetry == Permutations(Doc) \cup Permutations(Attempt)
=============================================================================
