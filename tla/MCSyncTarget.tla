---------------------------- MODULE MCSyncTarget ----------------------------
(* Two targets that the settings may change between. *)
EXTENDS SyncTarget, TLC

Interchangeable == Permutations(Targets)
=============================================================================
