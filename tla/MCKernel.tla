------------------------------ MODULE MCKernel ------------------------------
(* Words of seven bits, with stages of the same shapes as the real ones and *)
(* constants taken from theirs.  A tree of height 5 has a level of gathers  *)
(* that are not leaves' (4) and the leaves (5); as in the real shape the    *)
(* last round is at level 4 of the second descent.  Two groups of eight     *)
(* lanes; values are below a quarter of the words, as generate() makes them.*)
EXTENDS Kernel

Bits == 7
Bit(x, b) == (x \div 2 ^ b) % 2

RECURSIVE XorBits(_, _, _)
XorBits(x, y, b) == IF b = Bits THEN 0
                    ELSE (((x + y) % 2) * 2 ^ b) + XorBits(x \div 2, y \div 2, b + 1)
XorTable == [x \in 0 .. 127 |-> [y \in 0 .. 127 |-> XorBits(x, y, 0)]]
MCXor(x, y) == XorTable[x][y]

S(o1, v1, o2, o3, v3) == [op1 |-> o1, val1 |-> v1, op2 |-> o2, op3 |-> o3, val3 |-> v3]
MCStages == (0 :> S("+", 22, "+", "<<", 1)) @@ (1 :> S("^", 60, "^", ">>", 3))
            @@ (2 :> S("+", 49, "+", "<<", 5)) @@ (3 :> S("+", 108, "^", "<<", 2))
            @@ (4 :> S("+", 69, "+", "<<", 3)) @@ (5 :> S("^", 91, "^", ">>", 2))

MCLevelStart == [l \in 0 .. FOREST_HEIGHT + 1 |-> 2 ^ l - 1]
MCTogether == { Members(g) : g \in Group }

Quarter == M \div 4
MCTrees == { [n \in Node |-> (7 * n + 3) % Quarter], [n \in Node |-> (13 * n + n \div 7) % Quarter] }
MCInputs == { [i \in Lane |-> 2 * i], [i \in Lane |-> 31 - 2 * i] }

Toggles(fuse, defer, direct, recompute, n, jit, both, consts) ==
  [FUSE_HASH_STAGES_23 |-> fuse, WRAP_ROOT_C5_DEFER |-> defer, LEVEL0_DIRECT_TREE0 |-> direct,
   RECOMPUTE_PATH_BITS |-> recompute, PRELOAD_L4_GROUPS |-> n, PRELOAD_L4_JIT |-> jit,
   PRELOAD_L4_BOTH_ROUNDS |-> both, COMPUTED_CONSTS |-> consts]

MCKnobs == { Toggles(fuse, defer, direct, recompute, n, jit, both, consts) :
               fuse \in BOOLEAN, defer \in BOOLEAN, direct \in BOOLEAN, recompute \in BOOLEAN,
               n \in 0 .. 2, jit \in BOOLEAN, both \in BOOLEAN, consts \in {SmallConsts, {}} }
=============================================================================
