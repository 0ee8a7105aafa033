---------------------------- MODULE MCSnapshots ----------------------------
(* A small instance of Snapshots for TLC. *)
EXTENDS Snapshots, TLC

CONSTANTS p, q

Either == {p, q}
EitherSymmetric == Permutations(Either)
\* the device ahead by a second, the same time, the drive ahead by half of one
EitherWay == {-2, 0, 1}
=============================================================================
