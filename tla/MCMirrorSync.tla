---------------------------- MODULE MCMirrorSync ----------------------------
(* Small instances of MirrorSync: named contents with their sizes.          *)
EXTENDS MirrorSync, TLC

CONSTANTS a, b, c   \* contents; a and b have the same size, c another

Sizes == (a :> 1) @@ (b :> 1) @@ (c :> 2)
SizesOfContents == [x \in Content |-> Sizes[x]]

CONSTANTS n, m      \* paths

Pair == {n, m}
PathSymmetry == Permutations(Pair)
ContentSymmetry == Permutations({a, b})   \* they have one size
=============================================================================
