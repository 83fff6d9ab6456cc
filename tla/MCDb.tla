--------------------------------- MODULE MCDb ---------------------------------
EXTENDS DbStore, TLC
CONSTANTS p1, p2, k1, k2, k3, short, other, long, empty
TheHash == (k1 :> 1) @@ (k2 :> 1) @@ (k3 :> 2)
TheDatLen == (short :> 2) @@ (other :> 2) @@ (long :> 3) @@ (empty :> 1)
TheFlags == {{"insert"}, {"replace"}, {}}
Symmetry == Permutations({p1, p2})
=============================================================================
