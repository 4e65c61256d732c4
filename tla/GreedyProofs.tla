---------------------------- MODULE GreedyProofs ----------------------------
(***************************************************************************)
(* regalloc.schedule is right for every program, register file and set of  *)
(* units, whatever order its picker chooses.                               *)
(*                                                                         *)
(* The inductive invariant is RunnerInv, which every call of the scheduler *)
(* keeps, with what the loop adds: its count of committed nodes, the nodes *)
(* it has still to offer, and why the ones it offered in a cycle that has  *)
(* emitted nothing were refused.                                           *)
(***************************************************************************)
EXTENDS GreedyScheduleProperties, CycleRunnerProofs

\* The nodes still to be offered are ready, and the node being placed is not
\* one of them.
WorkingOK ==
  /\ nCommitted = Cardinality(committed)
  /\ Filling => working \subseteq frontier
  /\ at \in {"write", "place", "unwrite", "read"} => node \notin working

\* In a cycle that has emitted nothing, every ready node that is no longer to
\* be offered was refused a register.
RefusedSoFar ==
  at \in {"pick", "write"} /\ Emitted = {} =>
    \A n \in frontier \ working : Refused(n) \/ (at = "write" /\ n = node)

\* The ends of the loop, and the collection before it goes round.
OutcomeOK ==
  /\ at \notin {"starved"}
  /\ StuckIsFinal
  /\ at \in {"top", "done"} => Reg!Reclaimable = {}
  /\ at = "done" => committed = Node

\* The invariant of the loop.
GreedyInv == RunnerInv /\ WorkingOK /\ RefusedSoFar /\ OutcomeOK

-----------------------------------------------------------------------------
\* The loop in its first state.
LEMMA GreedyInit == Init => GreedyInv
<1> SUFFICES ASSUME Init PROVE GreedyInv
  OBVIOUS
<1>1. RunnerInv /\ at = "top" /\ working = {} /\ nCommitted = 0
  BY RunnerStart DEF Init, RunnerInit
<1>2. committed = {} /\ Reg!Reclaimable = {}
  BY DEF Init, RunnerInit, Dag!Init, Dag!Fresh, Reg!Init, Reg!Empty, Reg!Reclaimable
<1>3. WorkingOK
  BY <1>1, <1>2, FS_EmptySet DEF WorkingOK, Filling
<1> QED
  BY <1>1, <1>2, <1>3 DEF GreedyInv, RefusedSoFar, OutcomeOK, StuckIsFinal

\* A cycle begins.
LEMMA BeginKeeps ==
  ASSUME GreedyInv, BeginCycle
  PROVE  GreedyInv'
<1>1. /\ RunnerInv /\ WorkingOK /\ OutcomeOK
      /\ at = "top" /\ at' = "pick" /\ frontier # {} /\ StartCycle(FALSE) /\ working' = frontier
      /\ UNCHANGED ownVars
  BY DEF GreedyInv, BeginCycle, Goto
<1>2. RunnerInv' /\ Emitted' = {} /\ committed' = committed /\ frontier' = frontier
  BY <1>1, StartStep
<1>3. WorkingOK'
  BY <1>1, <1>2 DEF WorkingOK, ownVars
<1>4. RefusedSoFar' /\ OutcomeOK'
  BY <1>1, <1>2 DEF RefusedSoFar, OutcomeOK, StuckIsFinal
<1> QED
  BY <1>2, <1>3, <1>4 DEF GreedyInv

\* A ready node is taken off the working set.
LEMMA PickKeeps ==
  ASSUME GreedyInv, Pick
  PROVE  GreedyInv'
<1>1. PICK n \in working : Take(n) /\ working' = working \ {n}
  BY DEF Pick
<1>2. /\ RunnerInv /\ WorkingOK /\ RefusedSoFar /\ at = "pick" /\ node' = n
      /\ at' \in {"place", "write"} /\ nCommitted' = nCommitted
  BY <1>1 DEF GreedyInv, Take, Goto
<1>3. n \in frontier /\ working \subseteq frontier
  BY <1>1, <1>2 DEF WorkingOK, Filling
<1>4. RunnerInv' /\ Emitted' = Emitted /\ UNCHANGED <<dagVars, regVars>>
  BY <1>1, <1>2, <1>3, TakeStep
<1>5. UNCHANGED <<committed, frontier, Reg!regs>>
  BY <1>4 DEF dagVars, regVars, Reg!regs
<1>6. WorkingOK'
  BY <1>1, <1>2, <1>3, <1>5 DEF WorkingOK
<1>7. RefusedSoFar'
  <2> SUFFICES ASSUME at' = "write", Emitted = {}, NEW m \in frontier, m \notin working \ {n}
               PROVE  Refused(m)' \/ m = n
    BY <1>1, <1>2, <1>4, <1>5 DEF RefusedSoFar
  <2>1. m # n => Refused(m)
    BY <1>2 DEF RefusedSoFar
  <2> QED
    BY <1>5, <2>1 DEF Refused, Reg!CanWrite, Reg!BestFit
<1>8. OutcomeOK'
  BY <1>2 DEF OutcomeOK, StuckIsFinal
<1> QED
  BY <1>4, <1>6, <1>7, <1>8 DEF GreedyInv

\* A step within the placing of a node leaves the loop's own state alone.
LEMMA LoopKept ==
  ASSUME GreedyInv, Filling, at # "pick", UNCHANGED <<dagVars, ownVars, working>>,
         at' \in {"pick", "place", "unwrite", "read"}
  PROVE  WorkingOK' /\ OutcomeOK'
<1>1. UNCHANGED <<committed, frontier, node, nCommitted>>
  BY DEF dagVars, ownVars
<1>2. WorkingOK'
  BY <1>1 DEF GreedyInv, WorkingOK, Filling
<1> QED
  BY <1>2 DEF OutcomeOK, StuckIsFinal

\* A node gets a register, keeps the one it has, or is refused one.
LEMMA AllocateKeeps ==
  ASSUME GreedyInv, Allocate, UNCHANGED working
  PROVE  GreedyInv'
<1>1. /\ RunnerInv /\ RefusedSoFar /\ at = "write" /\ Filling
      /\ UNCHANGED <<dagVars, poolVars, ownVars, machineVars>>
  BY DEF GreedyInv, Allocate, Filling
<1>2. CASE UNCHANGED regVars /\ at' = "place" /\ \A t \in Dest(node) : t \in DOMAIN assigned
  <2>1. RunnerInv'
    BY <1>1, <1>2, KeepOrRefuseStep DEF Holds
  <2>2. WorkingOK' /\ OutcomeOK'
    <3>1. UNCHANGED <<committed, frontier, node, nCommitted>>
      BY <1>1 DEF dagVars, ownVars
    <3> QED
      BY <1>1, <1>2, <3>1 DEF GreedyInv, WorkingOK, Filling, OutcomeOK, StuckIsFinal
  <2> QED
    BY <1>2, <2>1, <2>2 DEF GreedyInv, RefusedSoFar
<1>3. CASE at' = "place" /\ \E t \in Dest(node) : Reg!Write(t)
  <2>1. RunnerInv'
    BY <1>1, <1>3, WriteStep
  <2>2. WorkingOK' /\ OutcomeOK'
    <3>1. UNCHANGED <<committed, frontier, node, nCommitted>>
      BY <1>1 DEF dagVars, ownVars
    <3> QED
      BY <1>1, <1>3, <3>1 DEF GreedyInv, WorkingOK, Filling, OutcomeOK, StuckIsFinal
  <2> QED
    BY <1>3, <2>1, <2>2 DEF GreedyInv, RefusedSoFar
<1>4. CASE UNCHANGED regVars /\ at' = "pick" /\ \E t \in Dest(node) : ~Reg!CanWrite(Reg!regs, t)
  <2>1. RunnerInv' /\ Emitted' = Emitted
    BY <1>1, <1>4, KeepOrRefuseStep
  <2>2. UNCHANGED <<committed, frontier, node, nCommitted, Reg!regs>>
    BY <1>1, <1>4 DEF dagVars, ownVars, regVars, Reg!regs
  <2>3. WorkingOK' /\ OutcomeOK'
    BY <1>1, <1>4, <2>2 DEF GreedyInv, WorkingOK, Filling, OutcomeOK, StuckIsFinal
  <2>4. RefusedSoFar'
    <3> SUFFICES ASSUME Emitted = {}, NEW m \in frontier \ working
                 PROVE  Refused(m)'
      BY <2>1, <2>2 DEF RefusedSoFar
    <3>1. Refused(m)
      BY <1>1, <1>4 DEF RefusedSoFar, Refused
    <3> QED
      BY <2>2, <3>1 DEF Refused, Reg!CanWrite, Reg!BestFit
  <2> QED
    BY <2>1, <2>3, <2>4 DEF GreedyInv
<1> QED
  BY <1>2, <1>3, <1>4 DEF Allocate, Goto

\* The rest of the placing of a node: by then the cycle has emitted something.
LEMMA InnerKeeps ==
  ASSUME GreedyInv, PlaceNode \/ GiveBack \/ ConsumeRead, UNCHANGED working
  PROVE  GreedyInv'
<1>1. /\ RunnerInv /\ Filling /\ at # "pick" /\ at' \in {"pick", "place", "unwrite", "read"}
      /\ UNCHANGED <<dagVars, node, nCommitted, C>>
  BY DEF GreedyInv, PlaceNode, GiveBack, ConsumeRead, Filling, Goto, AfterPlace, ownVars
<1>2. RunnerInv' /\ Emitted' # {}
  <2>1. CASE PlaceNode
    BY <1>1, <2>1, PlaceStep
  <2>2. CASE GiveBack
    BY <1>1, <2>2, GiveBackStep DEF RunnerInv, RefusalOK, GiveBack
  <2>3. CASE ConsumeRead
    BY <1>1, <2>3, ConsumeStep DEF RunnerInv, RefusalOK, ConsumeRead
  <2> QED
    BY <2>1, <2>2, <2>3
<1>3. UNCHANGED <<committed, frontier>>
  BY <1>1 DEF dagVars
<1>4. WorkingOK'
  BY <1>1, <1>3 DEF GreedyInv, WorkingOK, Filling
<1>5. OutcomeOK' /\ RefusedSoFar'
  BY <1>1, <1>2 DEF OutcomeOK, StuckIsFinal, RefusedSoFar
<1> QED
  BY <1>2, <1>4, <1>5 DEF GreedyInv

\* A node is committed, and what it released joins the working set.
LEMMA CommitKeeps ==
  ASSUME GreedyInv, Commit
  PROVE  GreedyInv'
<1>1. /\ RunnerInv /\ WorkingOK /\ at = "read" /\ at' = "pick" /\ CommitNode
      /\ nCommitted' = nCommitted + 1 /\ working' = working \cup (frontier' \ frontier)
  BY DEF GreedyInv, Commit, CommitNode, Goto
<1>2. /\ RunnerInv' /\ Emitted' = Emitted
      /\ node \in Node \ committed /\ committed' = committed \cup {node}
      /\ frontier \ {node} \subseteq frontier' /\ node \notin frontier'
  BY <1>1, CommitStep
<1>3. Emitted # {} /\ nCommitted = Cardinality(committed) /\ working \subseteq frontier
      /\ node \notin working
  BY <1>1 DEF RunnerInv, RefusalOK, WorkingOK, Filling
<1>4. IsFiniteSet(committed)
  BY <1>1, <1>3, CountedNodes
<1>5. Cardinality(committed') = nCommitted + 1
  BY <1>2, <1>3, <1>4, FS_AddElement
<1>6. WorkingOK'
  BY <1>1, <1>2, <1>3, <1>5 DEF WorkingOK
<1>7. OutcomeOK' /\ RefusedSoFar'
  BY <1>1, <1>2, <1>3 DEF OutcomeOK, StuckIsFinal, RefusedSoFar
<1> QED
  BY <1>2, <1>6, <1>7 DEF GreedyInv

\* The bundle is executed, the graph advances, garbage is collected.
LEMMA EndOfCycleKeeps ==
  ASSUME GreedyInv, EmitBundle \/ Advance \/ Collect
  PROVE  GreedyInv'
<1>1. /\ RunnerInv /\ WorkingOK /\ at \in {"pick", "advance", "collect"}
      /\ at' \in {"advance", "collect", "top", "capped"} /\ ~Filling'
      /\ nCommitted' = nCommitted
  BY DEF GreedyInv, EmitBundle, Advance, Collect, CountCycle, Goto, Filling, ownVars
<1>2. RunnerInv' /\ committed' = committed /\ (at' = "top" => Reg!Reclaimable' = {})
  <2>1. CASE EmitBundle
    BY <1>1, <2>1, EmitStep DEF EmitBundle, Goto, dagVars
  <2>2. CASE Advance
    BY <1>1, <2>2, AdvanceStep DEF Advance, Goto, ownVars
  <2>3. CASE Collect
    <3>1. /\ at = "collect" /\ at' \in {"top", "capped"} /\ CollectGarbage
          /\ UNCHANGED <<node, todo, nCommitted, machineVars>>
      BY <2>3 DEF Collect, CountCycle, Goto
    <3>2. Reg!Reclaimable' = {}
      BY <1>1, <3>1, NothingReclaimable, InvParts
    <3> QED
      BY <1>1, <3>1, <3>2, CollectStep
  <2> QED
    BY <2>1, <2>2, <2>3
<1>3. WorkingOK'
  BY <1>1, <1>2 DEF WorkingOK, Filling
<1>4. OutcomeOK' /\ RefusedSoFar'
  BY <1>1, <1>2 DEF OutcomeOK, StuckIsFinal, RefusedSoFar
<1> QED
  BY <1>2, <1>3, <1>4 DEF GreedyInv

\* "stuck" is raised only when no ready node can get a register, and "starved"
\* never.
LEMMA FailKeeps ==
  ASSUME GreedyInv, Fail
  PROVE  GreedyInv'
<1>1. /\ RunnerInv /\ WorkingOK /\ RefusedSoFar /\ OutcomeOK
      /\ UNCHANGED <<dagVars, regVars, poolVars, ownVars, machineVars, working>>
      /\ at' = Failure
  BY DEF GreedyInv, Fail, Raise, Goto
<1>2. /\ at' = "stuck" /\ at = "pick" /\ working = {} /\ Emitted = {}
  <2>1. ~ (at = "top" /\ nCommitted < Len(Program) /\ frontier = {})
    <3> SUFFICES ASSUME at = "top", nCommitted < Len(Program) PROVE frontier # {}
      OBVIOUS
    <3>1. ~InCycle
      BY DEF InCycle, Filling
    <3>2. committed # Node
      BY <1>1, CountedNodes, ProgramFacts DEF WorkingOK
    <3> QED
      BY <1>1, <3>1, <3>2, SomeReady
  <2> QED
    BY <1>1, <2>1 DEF Fail, Failure
<1>3. RunnerInv'
  BY <1>1, <1>2, StopStep
<1>4. UNCHANGED <<committed, frontier, nCommitted, freeVec, freeWords, assigned>>
  BY <1>1 DEF dagVars, ownVars, regVars
<1>5. frontier # {} /\ \A n \in frontier : Refused(n)
  BY <1>1, <1>2 DEF RunnerInv, RefusalOK, RefusedSoFar, Filling
<1>6. StuckIsFinal'
  BY <1>1, <1>4, <1>5, RefusedIsFinal
<1>7. WorkingOK'
  BY <1>1, <1>2, <1>4 DEF WorkingOK, Filling
<1>8. OutcomeOK' /\ RefusedSoFar'
  BY <1>2, <1>6 DEF OutcomeOK, RefusedSoFar
<1> QED
  BY <1>3, <1>7, <1>8 DEF GreedyInv

\* The loop returns when every node is committed.
LEMMA ReturnKeeps ==
  ASSUME GreedyInv, Return
  PROVE  GreedyInv'
<1>1. /\ RunnerInv /\ WorkingOK /\ OutcomeOK /\ at = "top" /\ at' = "done" /\ nCommitted = Len(Program)
      /\ UNCHANGED <<dagVars, regVars, poolVars, ownVars, machineVars, working>>
  BY DEF GreedyInv, Return, Finish, Goto
<1>2. RunnerInv'
  BY <1>1, StopStep
<1>3. UNCHANGED <<committed, frontier, nCommitted, freeCount>>
  BY <1>1 DEF dagVars, ownVars, regVars
<1>4. committed = Node
  BY <1>1, CountedNodes DEF WorkingOK
<1>5. WorkingOK' /\ RefusedSoFar' /\ OutcomeOK'
  BY <1>1, <1>3, <1>4 DEF WorkingOK, RefusedSoFar, OutcomeOK, StuckIsFinal, Filling, Reg!Reclaimable
<1> QED
  BY <1>2, <1>5 DEF GreedyInv

\* A step of something else.
LEMMA StayKeeps ==
  ASSUME GreedyInv, UNCHANGED vars
  PROVE  GreedyInv'
<1>1. UNCHANGED <<dagVars, regVars, poolVars, at, ownVars, machineVars, working>>
  BY DEF vars
<1>2. RunnerInv' /\ Emitted' = Emitted
  BY <1>1, StutterStep DEF GreedyInv
<1>3. UNCHANGED <<committed, frontier, node, nCommitted, freeVec, freeWords, freeCount, assigned, Reg!regs>>
  BY <1>1 DEF dagVars, ownVars, regVars, Reg!regs
<1>4. WorkingOK'
  BY <1>1, <1>3 DEF GreedyInv, WorkingOK, Filling
<1>5. RefusedSoFar'
  BY <1>1, <1>2, <1>3 DEF GreedyInv, RefusedSoFar, Refused, Reg!CanWrite, Reg!BestFit
<1>6. OutcomeOK'
  BY <1>1, <1>3 DEF GreedyInv, OutcomeOK, StuckIsFinal, FreeWords, Reg!Reclaimable
<1> QED
  BY <1>2, <1>4, <1>5, <1>6 DEF GreedyInv
-----------------------------------------------------------------------------
\* The invariant of schedule().
THEOREM GreedyInvariant == Spec => []GreedyInv
<1>1. GreedyInv /\ [Next]_vars => GreedyInv'
  <2> SUFFICES ASSUME GreedyInv, [Next]_vars PROVE GreedyInv'
    OBVIOUS
  <2>1. CASE Inner
    BY <2>1, AllocateKeeps, InnerKeeps DEF Inner
  <2>2. CASE EmitBundle \/ Advance \/ Collect
    BY <2>2, EndOfCycleKeeps
  <2>3. CASE BeginCycle \/ Pick \/ Commit
    BY <2>3, BeginKeeps, PickKeeps, CommitKeeps
  <2>4. CASE Fail \/ Return
    BY <2>4, FailKeeps, ReturnKeeps
  <2>5. CASE UNCHANGED vars
    BY <2>5, StayKeeps
  <2> QED
    BY <2>1, <2>2, <2>3, <2>4, <2>5 DEF Next, Stay
<1> QED
  BY <1>1, GreedyInit, PTL DEF Spec

\* Every slot of every bundle that schedule() emits finds its operands in the
\* registers it names, whatever order the nodes were picked in and however they
\* were spilled, evicted or spread over cycles.
THEOREM GreedyOperandsIntact == Spec => []OperandsIntact
<1>1. GreedyInv => OperandsIntact
  BY DEF GreedyInv, RunnerInv, ReadsOK, OperandsIntact, Closing, Filling
<1> QED
  BY <1>1, GreedyInvariant, PTL

\* The "stuck" error of schedule() is final.
THEOREM GreedyStuckIsFinal == Spec => []StuckIsFinal
<1>1. GreedyInv => StuckIsFinal
  BY DEF GreedyInv, OutcomeOK
<1> QED
  BY <1>1, GreedyInvariant, PTL

\* "frontier empty ... cyclic DAG or counter bug" is never raised.
THEOREM GreedyNeverStarved == Spec => [](at # "starved")
<1>1. GreedyInv => at # "starved"
  BY DEF GreedyInv, OutcomeOK
<1> QED
  BY <1>1, GreedyInvariant, PTL

\* A complete schedule of a pruned program has given every register back.
THEOREM GreedyNothingLeaks ==
  ASSUME EveryTagRead
  PROVE  Spec => []NothingLeaks
<1>1. GreedyInv => NothingLeaks
  <2> SUFFICES ASSUME GreedyInv, at = "done"
               PROVE  DOMAIN assigned = {} /\ Len(freeVec) = (SCRATCH \div VLEN) - 1
    BY DEF NothingLeaks
  <2>1. DOMAIN assigned = {}
    BY AllGivenBack DEF GreedyInv, OutcomeOK
  <2> QED
    BY <2>1, PoolWhole, InvParts DEF GreedyInv, OutcomeOK
<1> QED
  BY <1>1, GreedyInvariant, PTL

-----------------------------------------------------------------------------
\* A step of the loop pays for the cycle it is in, or leaves what is paid.
LEMMA StepPays ==
  ASSUME SequentialCap, GreedyInv, BaselineOK, GreedyInv', [Next]_vars
  PROVE  BaselineOK'
<1>1. RunnerInv /\ RunnerInv' /\ WorkingOK
  BY DEF GreedyInv
<1>2. CASE BeginCycle
  <2>1. at' = "pick" /\ UNCHANGED <<committed, lanesDone, C>> /\ Emitted' = {}
    BY <1>1, <1>2, StartStep DEF BeginCycle, Goto, ownVars, StartCycle, Pool!NewCycle
  <2> QED
    BY <2>1, StillPaid
<1>3. CASE Pick \/ Inner
  BY <1>1, <1>3, TakePays, InnerPays DEF Pick, Inner
<1>4. CASE Commit
  BY <1>1, <1>4, CommitPays DEF Commit
<1>5. CASE EmitBundle
  <2>1. /\ at = "pick" /\ at' = "advance" /\ working = {} /\ Failure = "none" /\ Filling
        /\ UNCHANGED <<committed, lanesDone, C>>
    BY <1>5 DEF EmitBundle, Goto, dagVars, poolVars, ownVars, Filling
  <2>2. Emitted # {}
    <3> SUFFICES ASSUME Emitted = {} PROVE FALSE
      OBVIOUS
    <3>1. frontier # {} /\ \A n \in frontier : n \in Node \ committed
      BY <1>1, <2>1, DagFacts DEF RunnerInv, RefusalOK, PartsOK
    <3>2. committed # Node
      BY <3>1
    <3>3. nCommitted < Len(Program)
      BY <1>1, <3>2, CountedNodes, ProgramFacts, FS_CardinalityType DEF WorkingOK
    <3>4. Failure = "stuck"
      BY <2>1, <3>3 DEF Failure
    <3> QED
      BY <2>1, <3>4
  <2>3. C < Cardinality(Paid) /\ ~Filling'
    BY <2>1, <2>2 DEF BaselineOK, Filling
  <2> QED
    BY <2>1, <2>3, StillPaid
<1>6. CASE Advance
  <2>1. at = "advance" /\ at' = "collect" /\ ~Filling' /\ UNCHANGED <<committed, lanesDone, C>>
    BY <1>1, <1>6, AdvanceStep DEF Advance, AdvanceDag, Goto, ownVars, poolVars, Filling
  <2> QED
    BY <2>1, StillPaid DEF BaselineOK
<1>7. CASE Collect
  BY <1>7, CountedCyclePays DEF Collect
<1>8. CASE Fail \/ Return
  <2>1. at' \in {"starved", "stuck", "done"} /\ ~Filling' /\ UNCHANGED <<committed, lanesDone, C>>
    BY <1>8 DEF Fail, Failure, Raise, Return, Finish, Goto, dagVars, poolVars, ownVars, Filling
  <2> QED
    BY <2>1, StillPaid
<1>9. CASE UNCHANGED vars
  <2>1. UNCHANGED <<committed, lanesDone, C, node, at, Emitted, Filling>>
    BY <1>9 DEF vars, dagVars, poolVars, ownVars, Emitted, Filling
  <2> QED
    BY <2>1, StillPaid DEF BaselineOK
<1> QED
  BY <1>2, <1>3, <1>4, <1>5, <1>6, <1>7, <1>8, <1>9 DEF Next, Stay

\* No order of the nodes makes schedule() exceed a cap with room for a cycle
\* per node and a cycle per lane of each gather: "cycle count exceeded cap" and
\* "frontier empty" are never raised.
THEOREM GreedyWithinBaseline ==
  ASSUME SequentialCap
  PROVE  Spec => []WithinBaseline
<1>1. Init => BaselineOK
  BY NothingOwed DEF Init
<1>2. GreedyInv /\ GreedyInv' /\ BaselineOK /\ [Next]_vars => BaselineOK'
  BY StepPays
<1>3. GreedyInv /\ BaselineOK => WithinBaseline
  BY DEF GreedyInv, OutcomeOK, BaselineOK, WithinBaseline
<1> QED
  BY <1>1, <1>2, <1>3, GreedyInvariant, PTL DEF Spec
=============================================================================
