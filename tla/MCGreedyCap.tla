---------------------------- MODULE MCGreedyCap ----------------------------
(* The shortest pass with a gather, under the cap schedule() gives itself:  *)
(* len(dag) + 1.  Registers and slots are plenty.                           *)
EXTENDS GreedyScheduleProperties

CONSTANTS c, vx, gx

V(t) == [tag |-> t, lane |-> All]
S(t) == [tag |-> t, lane |-> 0]
I(kind, dest, reads) == [kind |-> kind, dest |-> dest, reads |-> reads]

MCProgram == << I("load", {c}, <<>>),
                I("vec_elem", {vx}, <<S(c)>>),
                I("gather", {gx}, <<V(vx)>>),
                I("store", {}, <<V(gx)>>) >>
MCVecTag == {vx, gx}
MCScalarTag == {c}
Engines == {"alu", "valu", "load", "store", "flow"}
MCCapacity == [e \in Engines |-> CASE e = "alu" -> 12 [] e = "valu" -> 6
                                       [] e = "flow" -> 1 [] OTHER -> 2]
MCCap == Len(MCProgram) + 1
=============================================================================
