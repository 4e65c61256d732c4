----------------------------- MODULE MCRegAlloc -----------------------------
(* Two granules of VLEN words for vectors and scalars to compete for.  One   *)
(* value is read twice.                                                     *)
EXTENDS RegAllocHistory, TLC

CONSTANTS v1, v2, s1, s2, s3

MCVecTag == {v1, v2}
MCScalarTag == {s1, s2, s3}
MCReadCounts == { [t \in MCVecTag \cup MCScalarTag |-> IF t = s1 THEN 2 ELSE 1] }
Symmetry == Permutations(MCVecTag) \cup Permutations({s2, s3})
=============================================================================
