------------------------- MODULE MCMemoryCompaction -------------------------
(* Small instances of MemoryCompaction for TLC.                              *)
EXTENDS MemoryCompaction, TLC

=============================================================================
