-------------------------- MODULE MCPauseBarriers --------------------------
(* Every pruned program over two loads, an elementwise operation, a select, *)
(* two stores and a debug check: each value reaches a store, and selects,   *)
(* stores and checks read something computed, as the kernel's do.  Only a   *)
(* store reads the select's result, so one of the two stores does.          *)
EXTENDS PauseBarriers

MCInstr == 1 .. 7
MCEngine == <<"load", "load", "valu", "flow", "store", "store", "debug">>
MCSlotLimits == [alu |-> 1, valu |-> 1, load |-> 2, store |-> 1, flow |-> 1, debug |-> 64]

One(S) == { {v} : v \in S }

MCPrograms ==
  { p \in { <<{}, {}, v, f, s, t, d>> : v \in {{}, {1}, {1, 2}},
                                        f \in (SUBSET {1, 2, 3}) \ {{}},
                                        s \in One(Values), t \in One({4}),
                                        d \in One(Values) } :
      \A v \in Values : \E i \in 3 .. 6 : v \in p[i] }
=============================================================================
