---------------------------- MODULE MCCoordinator ----------------------------
(* Coordinator for TLC: files and waiters are interchangeable.              *)
EXTENDS Coordinator, TLC

Interchangeable == Permutations(Path) \cup Permutations(Waiter)
============================================================================
