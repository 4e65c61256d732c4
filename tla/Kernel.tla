------------------------------- MODULE Kernel -------------------------------
(***************************************************************************)
(* The program KernelBuilder.build_kernel emits, and what it computes when *)
(* it runs, against reference_kernel2 run in step with it (TreeWalk).      *)
(*                                                                         *)
(* A lane's value and tree address live in registers from the first load   *)
(* to the last store.  Nodes of the upper levels are preloaded and chosen  *)
(* by the path bits; deeper ones are gathered from memory.  The code comes *)
(* in pieces: three of the prologue, then one per round and group.  A      *)
(* piece runs in program order; the schedulers reorder it along the        *)
(* registers it reads and writes (FrontEnd, GreedySchedule,                *)
(* RolloutSchedule).                                                       *)
(***************************************************************************)
EXTENDS TreeWalk, VectorISA, SequencesExt

CONSTANT Knobs   \* the settings of the toggles the builder is run with

VARIABLES knobs,    \* the toggles of this build
          machine,  \* the machine the program runs on
          round,    \* the round and group whose code is next,
          group     \*   group < 0 in the prologue

kernelVars == <<knobs, machine, round, group>>
vars == <<walkVars, kernelVars>>

n_groups == BATCH \div VLEN
Group == 0 .. n_groups - 1
Members(g) == g * VLEN .. g * VLEN + VLEN - 1
DESCENT == FOREST_HEIGHT + 1

-----------------------------------------------------------------------------
\* The memory image of build_mem_image; it ends with the last value.
forest_values_p == 7
inp_indices_p == forest_values_p + n_nodes
inp_values_p == inp_indices_p + BATCH
header == <<ROUNDS, n_nodes, BATCH, FOREST_HEIGHT, forest_values_p, inp_indices_p, inp_values_p>>

MemImage == [a \in 0 .. inp_values_p + BATCH - 1 |->
               CASE a < forest_values_p -> header[a + 1]
                 [] a >= forest_values_p /\ a < inp_indices_p -> tree[a - forest_values_p]
                 [] a >= inp_indices_p /\ a < inp_values_p -> indices[a - inp_indices_p]
                 [] a >= inp_values_p -> values[a - inp_values_p]]

-----------------------------------------------------------------------------
\* Symbols of the kernel.  A constant vector is named by the value it holds.
Val(g) == <<"val", g>>
Addr(g) == <<"addr", g>>
Path(g, l) == <<"path", g, l>>
OutAddr(g) == <<"out_addr", g>>
Header(i) == <<"header", i>>
C(v) == <<"const_vec", v>>
TreeVec(n) == <<"tree_vec", n>>
t1 == <<"t1">>
t2 == <<"t2">>
t3 == <<"t3">>
t4 == <<"t4">>
nv == <<"nv">>
addr_a == <<"addr_a">>
l4_addr == <<"l4_addr">>
eight_const == <<"eight">>
forest_p_vec == <<"forest_p_vec">>
neg_fp1_vec == <<"neg_fp1_vec">>
pos_fp5_vec == <<"pos_fp5_vec">>
pos_fp7_vec == <<"pos_fp7_vec">>
tree0_xor5_vec == <<"tree0_xor5_vec">>
Preload(k) == <<"tree_preload", k>>

\* Code for each of n things, numbered from 0.
Each(n, Code(_)) == FlattenSeq([k \in 1 .. n |-> Code(k - 1)])
Where(cond, code) == IF cond THEN code ELSE <<>>

-----------------------------------------------------------------------------
\* Prologue: the header and the lanes' values.
LoadHeader == <<Const(eight_const, VLEN)>>
              \o Each(Len(header), LAMBDA i : <<Const(addr_a, i), Load(Header(i), addr_a)>>)

LoadValues ==
  <<ScalarOp("+", addr_a, Header(6), C(0))>>
  \o Each(n_groups, LAMBDA g : <<VLoad(Val(g), addr_a)>>
                               \o Where(g < n_groups - 1, <<ScalarOp("+", addr_a, addr_a, eight_const)>>))
  \o <<VBroadcast(forest_p_vec, Header(4), 0)>>

\* Constants: the stages' own, and the small ones that are not computed.
SmallConsts == {1, 2, 3, 9, 16, 19, 33, 4097}
Stage23Consts == IF knobs.FUSE_HASH_STAGES_23 THEN {FUSED23_ADD1, FUSED23_ADD2}
                 ELSE {HASH_STAGES[k].val1 : k \in {2, 3}}
Broadcast == {HASH_STAGES[k].val1 : k \in {0, 1, 4, 5}} \cup Stage23Consts
             \cup (SmallConsts \ knobs.COMPUTED_CONSTS)

BroadcastConsts == FoldSet(LAMBDA v, code : code \o <<Const(<<"const", v>>, v), VBroadcast(C(v), <<"const", v>>, 0)>>,
                           <<>>, Broadcast)

\* Each computed from the ones before it, whichever way those came about.
ComputeConsts ==
  LET for(v, code) == Where(v \in knobs.COMPUTED_CONSTS, code)
  IN  for(1, <<VecElem("==", C(1), C(0), C(0))>>)
      \o for(2, <<VecElem("+", C(2), C(1), C(1))>>)
      \o for(3, <<VecElem("+", C(3), C(1), C(2))>>)
      \o for(9, <<VecElem("*", C(9), C(3), C(3))>>)
      \o for(16, <<VecElem("<<", C(16), C(2), C(3))>>)
      \o for(19, <<VecElem("+", C(19), C(16), C(3))>>)
      \o for(33, <<VecFma(C(33), C(16), C(2), C(1))>>)
      \o for(4097, <<VecElem("<<", C(64), C(16), C(2)), VecFma(C(4097), C(64), C(64), C(1))>>)

ComputeDerived ==
  Where(knobs.FUSE_HASH_STAGES_23,
        <<VecElem("<<", C(FUSED23_MULT), C(Multiplier(2)), C(HASH_STAGES[3].val3))>>)
  \o <<VecElem("-", neg_fp1_vec, C(1), forest_p_vec),
       VecElem("+", pos_fp5_vec, C(2), C(3)),
       VecElem("+", pos_fp5_vec, pos_fp5_vec, forest_p_vec),
       VecElem("+", pos_fp7_vec, C(2), C(2)),
       VecElem("+", pos_fp7_vec, pos_fp7_vec, C(3)),
       VecElem("+", pos_fp7_vec, pos_fp7_vec, forest_p_vec)>>

\* Nodes first .. first + n - 1 from the lanes of a preload vector.
SpreadNodes(first, k, lane, n) == Each(n, LAMBDA j : <<VBroadcast(TreeVec(first + j), Preload(k), lane + j)>>)

PreloadTree ==
  <<ScalarOp("+", addr_a, Header(4), C(0)), VLoad(Preload(1), addr_a),
    ScalarOp("+", addr_a, addr_a, eight_const), VLoad(Preload(2), addr_a)>>
  \o SpreadNodes(0, 1, 0, 8) \o SpreadNodes(8, 2, 0, 7)
  \o Where(knobs.PRELOAD_L4_GROUPS > 0 /\ ~knobs.PRELOAD_L4_JIT,
           <<ScalarOp("+", addr_a, addr_a, eight_const), VLoad(Preload(3), addr_a),
             ScalarOp("+", addr_a, addr_a, eight_const), VLoad(Preload(4), addr_a)>>
           \o SpreadNodes(15, 2, 7, 1) \o SpreadNodes(16, 3, 0, 8) \o SpreadNodes(24, 4, 0, 7))

\* Mutant: the output addresses leave no room for the last lane of a group.
OutAddressesShort == Each(n_groups, LAMBDA g : <<Const(OutAddr(g), g * (VLEN - 1)),
                                                 ScalarOp("+", OutAddr(g), OutAddr(g), Header(6))>>)

OutAddresses == Each(n_groups, LAMBDA g : <<Const(OutAddr(g), g * VLEN),
                                            ScalarOp("+", OutAddr(g), OutAddr(g), Header(6))>>)

\* The prologue, in three pieces.
PrologueCode == <<LoadHeader \o LoadValues,
                  BroadcastConsts \o ComputeConsts \o ComputeDerived,
                  PreloadTree \o OutAddresses>>

-----------------------------------------------------------------------------
\* Mutant: the repair is forgotten.
NeverRepairs(r) == FALSE

\* The start of a round's code.
Repairs(r) == knobs.WRAP_ROOT_C5_DEFER /\ LevelOf(r) = 0 /\ r # 0
Defers(r) == knobs.WRAP_ROOT_C5_DEFER /\ LevelOf(r) = FOREST_HEIGHT
PreloadsL4(r) == LevelOf(r) = 4 /\ (knobs.PRELOAD_L4_BOTH_ROUNDS \/ r >= DESCENT)

RoundCode(r) ==
  Where(Repairs(r), <<VecElem("^", tree0_xor5_vec, TreeVec(0), C(HASH_STAGES[LastStage].val1))>>)
  \o Where(knobs.PRELOAD_L4_GROUPS > 0 /\ knobs.PRELOAD_L4_JIT /\ PreloadsL4(r),
           <<Const(l4_addr, 15), ScalarOp("+", l4_addr, l4_addr, Header(4)), VLoad(Preload(5), l4_addr),
             ScalarOp("+", l4_addr, l4_addr, eight_const), VLoad(Preload(6), l4_addr)>>
           \o SpreadNodes(15, 5, 0, 8) \o SpreadNodes(23, 6, 0, 8))

-----------------------------------------------------------------------------
\* The node a lane is on: by level, the root, a choice among the preloaded
\* nodes by the path bits, first the highest, or a gather.
RecomputePath(g) ==
  <<VecElem("-", t2, Addr(g), pos_fp7_vec), VecElem(">>", Path(g, 0), t2, C(2)),
    VecElem(">>", t1, t2, C(1)), VecElem("&", Path(g, 1), t1, C(1)), VecElem("&", Path(g, 2), t2, C(1))>>

RootVec(r) == IF Repairs(r) THEN tree0_xor5_vec ELSE TreeVec(0)
NodeVec(r) == IF LevelOf(r) = 0 /\ knobs.LEVEL0_DIRECT_TREE0 THEN RootVec(r) ELSE nv

\* dest := path bit b of the lane ? x : y
NodeCode(r, g) ==
  LET select(d, b, x, y) == VSelect(d, Path(g, b), x, y)
      n(k) == TreeVec(k)
      even(k) == TreeVec(15 + 2 * k)
      odd(k) == TreeVec(16 + 2 * k)
      level == LevelOf(r)
  IN  CASE level = 0 -> Where(~knobs.LEVEL0_DIRECT_TREE0, <<VecElem("^", nv, RootVec(r), C(0))>>)
        [] level = 1 -> <<select(nv, 0, n(2), n(1))>>
        [] level = 2 -> <<select(t1, 0, n(5), n(3)), select(t2, 0, n(6), n(4)), select(nv, 1, t2, t1)>>
        [] level = 3 ->
             Where(knobs.RECOMPUTE_PATH_BITS, RecomputePath(g))
             \o <<select(t1, 0, n(11), n(7)), select(t2, 0, n(12), n(8)), select(t3, 0, n(13), n(9)),
                  select(nv, 0, n(14), n(10)), select(t1, 1, t3, t1), select(t2, 1, nv, t2),
                  select(nv, 2, t2, t1)>>
        [] PreloadsL4(r) /\ g < knobs.PRELOAD_L4_GROUPS ->
             <<select(t1, 0, even(4), even(0)), select(t2, 0, even(5), even(1)),
               select(t3, 0, even(6), even(2)), select(t4, 0, even(7), even(3)),
               select(t1, 1, t3, t1), select(t2, 1, t4, t2), select(t4, 2, t2, t1),
               select(t1, 0, odd(4), odd(0)), select(t2, 0, odd(5), odd(1)),
               select(t3, 0, odd(6), odd(2)), select(nv, 0, odd(7), odd(3)),
               select(t1, 1, t3, t1), select(t2, 1, nv, t2), select(nv, 2, t2, t1),
               select(nv, 3, nv, t4)>>
        [] OTHER -> <<Gather(nv, Addr(g))>>

-----------------------------------------------------------------------------
\* build_vec_hash: the value is hashed in place, t1 and t2 are scratch.
HashStageCode(g, k, deferC5) ==
  LET s == HASH_STAGES[k]
      v == Val(g)
      check(i) == <<DebugVCompare(v, <<"hash_stage", i>>)>>
  IN  CASE knobs.FUSE_HASH_STAGES_23 /\ k = 2 ->
             <<VecFma(t1, v, C(Multiplier(2)), C(FUSED23_ADD1)),
               VecFma(t2, v, C(FUSED23_MULT), C(FUSED23_ADD2)), VecElem("^", v, t1, t2)>> \o check(3)
        [] knobs.FUSE_HASH_STAGES_23 /\ k = 3 -> <<>>
        [] deferC5 /\ k = LastStage -> <<VecElem(s.op3, t2, v, C(s.val3)), VecElem("^", v, v, t2)>>
        [] ~(knobs.FUSE_HASH_STAGES_23 /\ k \in {2, 3}) /\ s.op1 = "+" /\ s.op2 = "+" ->
             <<VecFma(v, v, C(Multiplier(k)), C(s.val1))>> \o check(k)
        [] OTHER -> <<VecElem(s.op1, t1, v, C(s.val1)), VecElem(s.op3, t2, v, C(s.val3)),
                      VecElem(s.op2, v, t1, t2)>> \o check(k)

HashCode(g, deferC5) == Each(LastStage + 1, LAMBDA k : HashStageCode(g, k, deferC5))

\* Mutant: the value before the entry xor is checked in every round.
EntryChecksAlways(r, g) == <<DebugVCompare(NodeVec(r), <<"node_val">>), DebugVCompare(Val(g), <<"val">>)>>

\* The value a round starts from lacks the xor the round before deferred.
EntryChecks(r, g) == Where(~Repairs(r), <<DebugVCompare(NodeVec(r), <<"node_val">>),
                                          DebugVCompare(Val(g), <<"val">>)>>)

\* addr = 2 * addr + (1 - forest_p) + path bit; a leaf wraps to the root, and
\* the first round has no address to start from.
AdvanceCode(r, g) ==
  LET bit == Path(g, LevelOf(r))
  IN  IF LevelOf(r) = FOREST_HEIGHT THEN <<VecElem("-", Addr(g), C(1), neg_fp1_vec)>>
      ELSE <<VecElem("&", bit, Val(g), C(1)),
             IF r = 0 THEN VecElem("-", t2, C(2), neg_fp1_vec)
                      ELSE VecFma(t2, Addr(g), C(2), neg_fp1_vec),
             VecElem("+", Addr(g), t2, bit)>>

GroupCode(r, g) ==
  NodeCode(r, g) \o EntryChecks(r, g) \o <<VecElem("^", Val(g), Val(g), NodeVec(r))>>
  \o HashCode(g, Defers(r))
  \o Where(~Defers(r), <<DebugVCompare(Val(g), <<"hashed_val">>)>>)
  \o AdvanceCode(r, g)
  \o Where(r = ROUNDS - 1, <<VStore(OutAddr(g), Val(g))>>)

-----------------------------------------------------------------------------
\* What reference_kernel2 records, for the lanes of a group, of the round
\* they are in.
Recorded(g, key, l) ==
  LET node  == tree[indices[g * VLEN + l]]
      value == values[g * VLEN + l]
  IN  CASE key[1] = "val" -> value
        [] key[1] = "node_val" -> node
        [] key[1] = "hashed_val" -> MyHash(Xor(value, node))
        [] key[1] = "hash_stage" -> AfterStage(key[2], Xor(value, node))

RunInstr(m, i) ==
  IF i.kind = "DebugVCompare" THEN Check(m, i, [l \in VectorLane |-> Recorded(group, i.key, l)])
                              ELSE Execute(m, i)

Run(code) == machine' = FoldLeft(RunInstr, machine, code)

Init == /\ WalkInit
        /\ knobs \in Knobs
        /\ machine = [Blank(MemImage) EXCEPT !.reg = (C(0) :> [l \in VectorLane |-> 0]),
                                             !.from = (C(0) :> {})]
        /\ round = 0 /\ group = -Len(PrologueCode)

Prologue == /\ group < 0
            /\ Run(PrologueCode[Len(PrologueCode) + group + 1])
            /\ group' = group + 1
            /\ UNCHANGED <<walkVars, knobs, round>>

\* The code of a round for a group, after the start of the round's code; the
\* reference takes the same round for the same lanes.
GroupRound ==
  /\ group >= 0 /\ round < ROUNDS
  /\ Run(Where(group = 0, RoundCode(round)) \o GroupCode(round, group))
  /\ Round(Members(group))
  /\ IF group = n_groups - 1 THEN round' = round + 1 /\ group' = 0
                             ELSE group' = group + 1 /\ UNCHANGED round
  /\ UNCHANGED knobs

Next == Prologue \/ GroupRound

Spec == Init /\ [][Next]_vars

-----------------------------------------------------------------------------
\* What the machine's registers stand for.  Before the prologue a lane's value
\* is in memory; after a round that deferred it lacks the last xor of the
\* hash; before the first round its address is not set.
RoundsDone(i) == IF i \div VLEN < group THEN round + 1 ELSE round

LaneValue(i) ==
  IF group < 0 THEN machine.mem[inp_values_p + i]
  ELSE LET v == machine.reg[Val(i \div VLEN)][i % VLEN]
       IN  IF RoundsDone(i) > 0 /\ Defers(RoundsDone(i) - 1)
           THEN Xor(v, HASH_STAGES[LastStage].val1) ELSE v

LaneIndex(i) == IF RoundsDone(i) = 0 THEN 0
                ELSE (machine.reg[Addr(i \div VLEN)][i % VLEN] - forest_values_p) % M

\* With any setting of the toggles, every lane's registers go through the
\* rounds of the reference, and its word in memory holds what the reference
\* finds there: the input before the last round, the final value after it.
FollowsTheWalk == \A i \in Lane : /\ done[i] = RoundsDone(i)
                                  /\ values[i] = LaneValue(i)
                                  /\ indices[i] = LaneIndex(i)
                                  /\ result[i] = machine.mem[inp_values_p + i]

\* The words stored are the final values of the reference.
ResultsStored == round = ROUNDS => \A i \in Lane : machine.mem[inp_values_p + i] = values[i]

\* No debug check of the program ever fails: what is fused or deferred is not
\* checked where it is not there, and everything else is.
OracleAgrees == ~machine.raised

\* The graph has no edges through memory, so the scheduler may move a load
\* across a store; if they touch the same word, the store must depend on the
\* load through registers.
MemoryNeedsNoOrder ==
  \A s \in machine.stores, l \in machine.loads :
    s.addresses \cap l.addresses # {} => l.id \in s.after
=============================================================================
