------------------------- MODULE MCRolloutSchedule -------------------------
(* A gather, a fused multiply-add, elementwise work that spills, and two    *)
(* flow nodes that compete for one slot.  Up to five nodes are ready at     *)
(* once, so the trials see refusals, evictions, partial spills and scalar   *)
(* registers given back; five granules are too few for some orders.         *)
EXTENDS RolloutHistory

CONSTANTS Granules, c, vx, gx, fx, vy, ey, b, vz, d, k

V(t) == [tag |-> t, lane |-> All]
L(t, j) == [tag |-> t, lane |-> j]
S(t) == [tag |-> t, lane |-> 0]
I(kind, dest, reads) == [kind |-> kind, dest |-> dest, reads |-> reads]

MCProgram ==
  << I("load", {c}, <<>>),
     I("vec_elem", {vx}, <<S(c)>>),
     I("vec_elem", {vy}, <<S(c)>>),
     I("vec_elem", {vz}, <<S(c)>>),
     I("gather", {gx}, <<V(vx)>>),
     I("vec_fma", {fx}, <<V(vy), V(vy), V(vx)>>),
     I("store", {}, <<V(fx)>>),
     I("vec_elem", {ey}, <<V(gx), V(vy)>>),
     I("flow", {b}, <<L(ey, 1), S(c)>>),
     I("debug", {}, <<V(ey)>>),
     I("store", {}, <<S(b), V(ey)>>),
     I("flow", {d}, <<L(vz, 0), L(vz, 1)>>),
     I("flow", {k}, <<L(vz, 1), S(c)>>),
     I("store", {}, <<S(k), S(d)>>) >>

MCVecTag == {vx, gx, fx, vy, ey, vz}
MCScalarTag == {c, b, d, k}
MCScratch == (Granules + 1) * VLEN
Engines == {"alu", "valu", "load", "store", "flow"}
MCCapacity == [e \in Engines |-> IF e = "alu" THEN 3 ELSE 1]
=============================================================================
