---------------------------- MODULE MCLockStore ----------------------------
(* Small instances of LockStore for TLC.                                    *)
EXTENDS LockStore, TLC

Symmetry == Permutations(Client) \cup Permutations(Key)
=============================================================================
