----------------------------- MODULE MCFrontEnd -----------------------------
(* Every program of up to MaxLen instructions over two variables and the    *)
(* pinned zero: constants, elementwise operations that read a variable      *)
(* twice, read what they overwrite or read the zero, stores and checks.     *)
EXTENDS FrontEnd

CONSTANTS x, y, zero

I(engine, dest, reads) == [engine |-> engine, dest |-> dest, reads |-> reads]

MCSym == {x, y}
MCPinned == {zero}
MCInstruction ==
  UNION { { I("load", {a}, <<>>), I("store", {}, <<zero, a>>), I("debug", {}, <<a>>),
            I("valu", {a}, <<a, a>>), I("valu", {a}, <<a, zero>>) } : a \in MCSym }
  \cup { I("valu", {x}, <<x, y>>), I("valu", {y}, <<x, x>>), I("debug", {}, <<zero>>) }
=============================================================================
