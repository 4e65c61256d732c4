-------------------------- MODULE MCGreedySchedule --------------------------
(* Two chains that share a constant: a gather and a fused multiply-add, and *)
(* elementwise work that ends in a scalar read of one lane.  Granules       *)
(* registers are too few for some orders and enough for others.             *)
EXTENDS GreedyScheduleProperties

CONSTANTS Granules, c, vx, gx, fx, vy, gy, ey, b, vz, ez, d

V(t) == [tag |-> t, lane |-> All]
L(t, j) == [tag |-> t, lane |-> j]
S(t) == [tag |-> t, lane |-> 0]
I(kind, dest, reads) == [kind |-> kind, dest |-> dest, reads |-> reads]

MCProgram ==
  << I("load", {c}, <<>>),
     I("vec_elem", {vx}, <<S(c)>>),
     I("vec_elem", {vy}, <<S(c)>>),
     I("vec_elem", {vz}, <<S(c)>>),
     I("gather", {gx}, <<V(vx)>>),
     I("gather", {gy}, <<V(vy)>>),
     I("vec_fma", {fx}, <<V(gx), V(vx), V(vx)>>),
     I("store", {}, <<V(fx)>>),
     I("vec_elem", {ey}, <<V(gy), V(vy)>>),
     I("alu_scalar", {b}, <<L(ey, 1), S(c)>>),
     I("debug", {}, <<V(ey)>>),
     I("store", {}, <<S(b), V(ey)>>),
     I("vec_elem", {ez}, <<V(vz), V(vz)>>),
     I("flow", {d}, <<L(ez, 0), L(ez, 1)>>),
     I("store", {}, <<S(d), V(ez)>>) >>

MCVecTag == {vx, gx, fx, vy, gy, ey, vz, ez}
MCScalarTag == {c, b, d}
MCScratch == (Granules + 1) * VLEN
Engines == {"alu", "valu", "load", "store", "flow"}
MCCapacity == [e \in Engines |-> IF e = "alu" THEN 3 ELSE 1]
=============================================================================
