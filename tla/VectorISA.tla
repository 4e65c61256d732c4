----------------------------- MODULE VectorISA ------------------------------
(***************************************************************************)
(* The instructions the kernel is made of (ir.py) and what the machine     *)
(* computes for each (alu, valu, load, store, flow and the debug check of  *)
(* problem.py).  A register is named by its symbol and holds one word per  *)
(* lane, a scalar only lane 0.  An instruction is run as a whole.          *)
(*                                                                         *)
(* Beside its word every register carries the loads its value comes from:  *)
(* the dependency graph has edges through registers and no others.         *)
(***************************************************************************)
EXTENDS Words, Sequences, FiniteSets, Functions, TLC

CONSTANT VLEN

VectorLane == 0 .. VLEN - 1
Scalar == {0}

\* A machine: reg (symbol -> lane -> word), from (symbol -> loads behind it),
\* mem (address -> word), loads and stores done so far, and whether a debug
\* check has failed.
Blank(memory) == [reg |-> <<>>, from |-> <<>>, mem |-> memory,
                  loads |-> {}, stores |-> {}, raised |-> FALSE]

ScalarOp(o, d, a, b) == [kind |-> "Alu", op |-> o, dest |-> d, src |-> <<a, b>>]
VecElem(o, d, a, b) == [kind |-> "VecElem", op |-> o, dest |-> d, src |-> <<a, b>>]
VecFma(d, a, b, c)  == [kind |-> "VecFma", dest |-> d, src |-> <<a, b, c>>]
VBroadcast(d, a, j) == [kind |-> "VBroadcast", dest |-> d, src |-> <<a>>, lane |-> j]
VSelect(d, c, a, b) == [kind |-> "VSelect", dest |-> d, src |-> <<c, a, b>>]
Const(d, v)         == [kind |-> "Const", dest |-> d, src |-> <<>>, literal |-> v]
Load(d, a)          == [kind |-> "Load", dest |-> d, src |-> <<a>>]
VLoad(d, a)         == [kind |-> "VLoad", dest |-> d, src |-> <<a>>]
Gather(d, a)        == [kind |-> "Gather", dest |-> d, src |-> <<a>>]
VStore(a, s)        == [kind |-> "VStore", src |-> <<a, s>>]
DebugVCompare(a, k) == [kind |-> "DebugVCompare", src |-> <<a>>, key |-> k]

Loads == {"Load", "VLoad", "Gather"}

\* The address each lane reads or writes.
Address(m, i) ==
  LET a == m.reg[i.src[1]]
  IN  CASE i.kind = "Load" -> a
        [] i.kind \in {"VLoad", "VStore"} -> [l \in VectorLane |-> a[0] + l]
        [] i.kind = "Gather" -> a

Computed(m, i) ==
  LET r(k) == m.reg[i.src[k]]
  IN  CASE i.kind = "Alu"        -> [l \in Scalar |-> Alu(i.op, r(1)[0], r(2)[0])]
        [] i.kind = "VecElem"    -> [l \in VectorLane |-> Alu(i.op, r(1)[l], r(2)[l])]
        [] i.kind = "VecFma"     -> [l \in VectorLane |-> Fma(r(1)[l], r(2)[l], r(3)[l])]
        [] i.kind = "VBroadcast" -> [l \in VectorLane |-> r(1)[i.lane]]
        [] i.kind = "VSelect"    -> [l \in VectorLane |-> IF r(1)[l] # 0 THEN r(2)[l] ELSE r(3)[l]]
        [] i.kind = "Const"      -> [l \in Scalar |-> i.literal % M]
        [] i.kind \in Loads      -> [l \in DOMAIN Address(m, i) |-> m.mem[Address(m, i)[l]]]

\* The loads behind the registers an instruction reads.
Behind(m, i) == UNION { m.from[i.src[k]] : k \in DOMAIN i.src }

Written(f, d, v) == (d :> v) @@ f

Compute(m, i) == [m EXCEPT !.reg = Written(@, i.dest, Computed(m, i)),
                           !.from = Written(@, i.dest, Behind(m, i))]

\* A load is identified by its place among the loads.
LoadFrom(m, i) ==
  LET id == Cardinality(m.loads)
  IN  [m EXCEPT !.reg = Written(@, i.dest, Computed(m, i)),
                !.from = Written(@, i.dest, Behind(m, i) \cup {id}),
                !.loads = @ \cup {[id |-> id, addresses |-> Range(Address(m, i))]}]

StoreTo(m, i) ==
  LET a == Address(m, i)
  IN  [m EXCEPT !.mem = [x \in DOMAIN @ |-> IF x \in Range(a) THEN m.reg[i.src[2]][x - a[0]] ELSE @[x]],
                !.stores = @ \cup {[after |-> Behind(m, i), addresses |-> Range(a)]}]

\* recorded: the word the reference recorded for each lane.
Check(m, i, recorded) == [m EXCEPT !.raised = @ \/ m.reg[i.src[1]] # recorded]

Execute(m, i) == CASE i.kind = "VStore" -> StoreTo(m, i)
                   [] i.kind \in Loads -> LoadFrom(m, i)
                   [] OTHER -> Compute(m, i)
=============================================================================
