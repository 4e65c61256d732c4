--------------------------- MODULE MCFuncUnitPool ---------------------------
(* Small units: two lanes, and an odd number of alu slots, so that a spill  *)
(* can be cut short.  Three elementwise nodes and two rigid ones compete    *)
(* for two valu slots, over as many cycles as they need.                    *)
EXTENDS FuncUnitPoolHistory, TLC

CONSTANTS e1, e2, e3, f1, f2, g1, d1

MCNode == {e1, e2, e3, f1, f2, g1, d1}
MCKind == [n \in MCNode |-> CASE n \in {e1, e2, e3} -> "vec_elem"
                              [] n \in {f1, f2}     -> "vec_fma"
                              [] n = g1             -> "gather"
                              [] n = d1             -> "debug"]
MCCapacity == [e \in Engine |-> CASE e = "alu" -> 5 [] e = "valu" -> 2 [] OTHER -> 1]
Symmetry == Permutations({e1, e2, e3}) \cup Permutations({f1, f2})
=============================================================================
