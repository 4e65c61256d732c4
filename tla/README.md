# A verification development for the VLIW kernel and its scheduler

The repository builds a kernel for a simulated VLIW machine and schedules it.
The kernel is generated as straight-line code over symbolic operands, renamed
so that every value has a tag of its own, turned into a dependency graph, and
scheduled cycle by cycle: registers are handed out while instructions are
placed, and each cycle may be tried out several times and rolled back before
one attempt is kept.  This directory holds TLA+ models of the kernel, of the
scheduler and of the machine, the TLC runs that check them and proofs that
TLAPS checks.

Run everything from this directory: `tlc -config MCDepDag.cfg MCDepDag.tla`
checks a model, `tlapm DepDagProofs.tla` checks the proofs of a module.

## 1. The system

```
 KernelBuilder (perf_takehome.py)         reference_kernel (problem.py)
   build_kernel, build_vec_hash                 the promised result
        | symbolic instructions (ir.py)
        v
 tag_raw_chains -> build_dag -> prune_to_stores -> recompute_read_count
        | tagged DAG and read counts            (regalloc.py, scheduler.py)
        v
 regalloc.schedule   or   rollout.schedule_rollout
        |  calls, once or several times per node and cycle:
        |    DAG                ready / commit / advance / checkpoint / rollback
        |    RegisterAllocator  can_write / write / unwrite / read / collect /
        |                       checkpoint / rollback
        |    FuncUnitPool       reset / place
        |    _Placement         checkpoint / rollback  (progress of a node)
        | bundles
        v
 _insert_pauses -> Machine (problem.py): run / step
```

Everything runs in one thread.  What makes it hard is not interleaving of
threads but the protocol between four pieces of mutable state that must agree:
each of them is mutated in several places of two loops, three of them keep an
undo log of their own, and the same decisions are taken once on speculative
state and again for good.  The cycle is also a small concurrent system in its
own right: the slots of a bundle run at once, they read what the cycle before
left, and a register freed by one slot may be written by the next.

| component | state | operations | what is hard | what makes it correct |
|---|---|---|---|---|
| `DAG` (scheduler.py) | RAW and WAR counters, buffered resolutions, committed set, frontier, undo log | `commit`, `advance`, `ready`, `checkpoint`, `rollback`, `reset` | two kinds of edges that release at different moments; incremental counters; undo by inverse entries, nested tokens | counters equal a recount, the frontier is exactly the ready nodes, undo retraces every state, a cycle never starts with nothing ready |
| `RegisterAllocator` (regalloc.py) | deque of granules, free words of claimed granules, claim marks, registers and remaining reads per tag, undo log | `can_write`, `write`, `unwrite`, `read`, `collect_scalar_garbage`, `checkpoint`, `rollback` | one pool for two shapes; claims and their reversal; order of the free lists decides later addresses | no word held twice or lost; a trial leaves no trace, order included; no granule stays claimed with nothing live in it |
| `FuncUnitPool`, `_Placement` (scheduler.py) | free slots per engine, bundle, list of evictable nodes; per node: lanes landed, engine; undo log | `reset`, `place` (with and without emission), `_spill_alu`, `_swap_elem_to_alu`, `checkpoint`, `rollback` | nodes spread over cycles and engines; eviction edits a bundle by a remembered index; two modes that must decide alike | slot limits hold and add up, each lane is computed once, eviction removes the slot it means |
| `schedule` (regalloc.py) | working set, bundles, counts, cycle | one loop | order of the calls; what is given back when a node is refused; ends in a schedule or an error | each slot reads the value it names; "stuck" only when nothing can ever be placed; ends |
| `schedule_rollout` (rollout.py) | as above, and the best order of the cycle | trials, scoring, rollback, replay | three logs rolled back in turn; replay in the other mode | trial leaves no trace; the replay reaches the state that was scored |
| tagging and graph construction (regalloc.py) | none (pure) | `tag_raw_chains`, `build_dag`, `recompute_read_count` | read before write within an instruction | edges are the data flow of the program |
| `prune_to_stores`, node properties (scheduler.py) | none (pure) | | renumbering; reverse walks | keeps what a store depends on |
| `Machine` (problem.py) | cores (pc, scratch, state), memory, cycle | `run`, `step` | writes land at the end of the cycle; pauses and resumption | a bundle is atomic |
| `KernelBuilder` (perf_takehome.py) | instruction list | `build_kernel`, `build_vec_hash`, `_insert_pauses` | eight toggles; fused hash stages, a constant deferred across the wrap, levels decided when building, addresses in place of indices; no ordering through memory | each lane goes through the rounds of the reference; no debug check fails |
| hash and reference (problem.py) | tree, values, indices of the lanes | `myhash`, `reference_kernel`, `reference_kernel2`, `build_mem_image` | all lanes wrap in the same round whatever their values | |
| trainers, sweeps, diagnostics, tests | | | | not part of the program's own logic |

The hazards of this code, each with its line and the properties that cover
it, are listed in `PROJECT.json`.

## 2. The modules

| module | models | state and actions |
|---|---|---|
| `DepDag` | `DAG` | one variable per field; `Commit`, `Advance`, `Checkpoint`, `Rollback`, `PopEntry`, `RollbackDone`, `Reset` |
| `IssueOrder` | what `DAG` promises | nodes done, nodes in flight, a trail to step back along; no counters |
| `DepDagHistory` | properties of `DepDag` | adds the nodes in flight and the states of the open trial; `ImplementsIssueOrder` |
| `DepDagProofs` | | the theorems of section 5 |
| `RegAlloc` | `RegisterAllocator` | one variable per field; `Write` (vector, word, claim), `Unwrite`, `Read`, `Collect`, and the undo loop |
| `RegFile` | what the allocator promises | live values and the words each holds; registers that are live at once share no word |
| `RegAllocHistory` | properties of `RegAlloc` | adds the states of the open trial; `ImplementsRegFile` |
| `RegAllocProofs` | | theorems about the allocator, and that it implements `RegFile` (section 5) |
| `FuncUnitPool` | `FuncUnitPool`, `_Placement` | `Place` (one action per branch of `place`, and the gather that the callers land), `NewCycle`, `Checkpoint`, `Rollback` |
| `FuncUnitPoolHistory` | properties of `FuncUnitPool` | adds what was emitted and the progress at each checkpoint |
| `FuncUnitPoolProofs` | | theorems about it (section 5) |
| `TaggedProgram` | a tagged program | `Graph` is `build_dag`, `ReadCount` is `recompute_read_count`; what each lane reads and writes |
| `CycleRunner` | what the two schedulers share | composes `DepDag`, `RegAlloc`, `FuncUnitPool` by INSTANCE; `at` is the position in the code, each action is one call of a component; `Execute` is `Machine.step` on scratch |
| `CycleRunnerProofs` | | what every call of a scheduler keeps, a lemma per call (section 5) |
| `GreedySchedule` | `regalloc.schedule` | `BeginCycle`, `Pick`, `Inner`, `Commit`, `EmitBundle`, `Advance`, `Collect`, the errors |
| `GreedyProofs` | | theorems about it (section 5) |
| `RolloutSchedule` | `rollout.schedule_rollout` | adds the search: `OpenTrial`, `StartTrial`, `EndTrial`, `Judge`, `UndoPlacements`, `UndoRegs`, `UndoDag`, `Replay`, `EndReplay`, `Advance` |
| `RolloutHistory` | properties of `RolloutSchedule` | adds the histories that `DepDagHistory` and `RegAllocHistory` keep of a trial |
| `RolloutParts`, `RolloutProofs` | | what a trial's calls do to each part, and the theorems (section 5) |
| `FrontEnd` | `_emit_regalloc` up to the scheduler: `tag_raw_chains`, `build_dag`, `prune_to_stores`, `recompute_read_count` | the program is chosen while it is tagged; `TagInstr`, `BuildNode`, `WalkBack`, `Compact`, `BeginRecount`, `RecountNode` |
| `NodeProps` | `_compute_props` | distances and sink groups of `DepDag`'s graphs, as recursive functions |
| `Words` | the words and the alu | operators; the number of words and the exclusive or are parameters with their laws |
| `HashStages` | `HASH_STAGES`, `myhash`, `myhash_traced`, the fused constants | operators |
| `TreeWalk` | `reference_kernel`, `reference_kernel2`: what the kernel promises | tree, and per lane value, node, rounds done, result; `Round` |
| `VectorISA` | the instructions of ir.py that the kernel emits, and what `Machine` computes for each | a machine as a record; `Compute`, `LoadFrom`, `StoreTo`, `Check` |
| `Kernel` | `build_kernel` and `build_vec_hash` with every toggle, run in step with `TreeWalk` | `Prologue`, `GroupRound`: the emitted code of a piece is run as a whole |
| `Machine` | `problem.Machine` | `Step`, `RunOffTheEnd`, `Resume`; what raises is in `machineError` |
| `PauseBarriers` | `_insert_pauses`, `do_kernel_test`, the submission test | composes a schedule (`EmitBundle`), `InsertPauses` and the calls of `run()` |
| `ProgramProofs` | | theorems about the kernel, the front end and the pauses (section 5) |
| `ScheduleProperties`, `GreedyScheduleProperties`, `RolloutScheduleProperties` | what a schedule must be | properties only |
| `MC*` | | instances for TLC |

The composed modules use the very actions of the component modules, so a
component's guard that the scheduler did not meet would show up as a deadlock
of the composed run: those runs also check that the schedulers keep the
protocol the component modules assume of their callers (commit ready nodes
only, unwrite only what was just written, offer a node once per cycle, close
the logs before replaying).

Abstractions, and why they lose nothing the properties speak of:

- *Order of nodes.*  Priorities, sort functions and scores depend on weights,
  look-ahead and a random generator.  The greedy loop may take its working set
  in any order, a trial may use any permutation of the ready nodes, and any
  trial that was not stuck may win.  What is shown holds for every picker,
  every weights file and every seed.
- *Log entries.*  The DAG's log has one entry per mutated field; here one
  entry holds what a single `commit()` or `advance()` mutated.  Tokens are only
  taken between calls, so no rollback stops inside one.  In the allocator the
  entries of one `read()` are one entry for the same reason.
- *Undoing the progress.*  `_Placement.rollback` restores logged values newest
  first, so a field ends with the value of its oldest entry since the token:
  `LanesBefore` and `ChoiceBefore` say that directly.
- *`_word_granule`.*  The table from word to granule is the arithmetic it
  tabulates (`Base`).
- *Data.*  A scratch word holds the name of the value (tag and lane) rather
  than a number, which is what lets `OperandsIntact` say that a slot read the
  right value.  There, loads produce their tag and stores only read.  In
  `Machine` a word of scratch or memory holds its final value or what it held
  at the start.
- *Division of the work.*  `FrontEnd` shows that programs reach the schedulers
  as `TaggedProgram` assumes them (`ProgramWellTagged`, `CountsMatchReaders`);
  the schedulers are then checked on given tagged programs.
- *Words of the kernel.*  `Kernel` is checked with words of seven bits and
  stages of the same shapes as the real ones; what depends on the width is
  proved for every number of words instead (section 5).
- *Order of the kernel's code.*  `Kernel` runs each piece of code in the order
  it is emitted and the groups of a round in turn.  The schedulers reorder
  instructions along registers only, which is shown to keep what each operand
  reads (`EdgesAreDataFlow`, `OperandsIntact`); `MemoryNeedsNoOrder` adds that
  nothing but registers needs an order.
- *Constant vectors* are named by the value they hold, so two constants of one
  value would share a name; the real ones have one symbol per value, too.
- *Pinned operands* (`const_vec_0` at address 0) have no register to lose and
  are left out; a tag without a register still resolves to address 0, as in
  `addr_of`, and would be caught.
- *Statistics and names* (`exhaustion_warnings`, `_names`) are left out, except
  the allocation counts a score reads.

## 3. The runs

Twelve runs.  The passing ones check every reachable state of their instance.

**dep_dag** (`MCDepDag`): every graph of at most four edges over four nodes,
RAW and WAR, two nodes joined by both included, with the client free to commit
in any order, advance, open checkpoints at any depth and roll back to any
token.  Four nodes hold every shape the updates distinguish: a diamond, a node
with both kinds of blockers, a chain across three cycles, a node unlocked in
the cycle it waits in.  WAR edges are checked because the class supports them;
`build_dag` makes none, since renaming leaves only RAW edges.
`CountersExact`, `FrontierExact`: the incremental state is what the edges say.
`NeverStarved`: with work left, a cycle that starts has a ready node, so the
"frontier empty" error of both schedulers is unreachable.  `UndoExact`:
rollback retraces the trial state by state.  `ImplementsIssueOrder`: the refinement.  On the graphs where
nothing is committed yet, with nodes of three kinds: `DistancesOverPaths` and
`GroupIsDeepestSink`, the passes of `_compute_props` agree with definitions
over all paths; ties between sinks, the reason for the order of the comparison,
need four nodes at most.

**reg_alloc** (`MCRegAlloc`): two granules of two words, two vectors and three
scalars, one of them read twice, up to four mutations in a trial.  Two
granules are the smallest pool in which vectors and scalars compete, a claim
may empty the pool, and the deque has an order; three scalars overflow one
claimed granule.  Four mutations hold a claim, a sibling's write, a free and an
unwrite.  Values of one shape and read count are symmetric; the properties name
none of them.
`Partition`: every word is free once or held once.  `CountsAgree`: the counts
that choose the best fit agree with the lists.  `ClaimReversalSafe`: the
unchecked reversal of a claim happens only where it is safe, as the comment at
regalloc.py:396 asserts.  `UndoExact`: rollback restores the order of the deque
and of each list, too.  `NoGranuleStranded`: after collection a claimed granule
has a live word.  `ImplementsRegFile`: the refinement.

**func_unit_pool** (`MCFuncUnitPool`): three elementwise nodes, two fused
multiply-adds, a gather and a debug node, VLEN 2, two valu slots and five alu
slots: the valu overflows, an eviction and a spill compete for the alu, a spill
and a gather take two cycles.  Two checkpoints nest.
`BudgetExact`: slots left and slots emitted add up to the limits that
`Machine.step` asserts, and no engine is overdrawn.  `LanesOnce`: over all cycles each lane of each node is
emitted once, by one engine at a time.  `EvictionIndexValid`: the remembered
index of each evictable node is the index of its slot.  `RollbackRestores`:
rollback restores the progress of every node, the evicted ones included.

**greedy** (`MCGreedySchedule`): fifteen instructions of every kind, six
granules.  Some orders complete, others run out of registers; both ends are
reached.  The cap is the sequential cycle count.
`OperandsIntact`: each operand of each emitted slot reads the value it names,
lane by lane.  `StuckIsFinal`: the "stuck" error comes only when no ready node
can get a register and no read is left to free one, so no later cycle would
help.  `NothingLeaks`: a complete schedule has every register back.
`Completes`: every run ends in a schedule or in the stuck error.

**rollout** (`MCRolloutSchedule`): fourteen instructions, five granules, two
trials per cycle.  Up to five nodes are ready at once, so trials differ, refuse
nodes, evict, spill in part and hand back registers; completion and deadlock
are both reached.  Two trials are enough: what a trial leaves behind would be
seen by the next, and the best may be the first or the last.
`TrialLeavesNoTrace`: after each trial graph, allocator and progress are what
they were.  `ReplayMatchesTrial`: the replay, which emits and resolves, ends in
the state its trial was scored on ("identical decisions", rollout.py:191).
`OperandsIntact`, `StuckIsFinal`, `NothingLeaks` as above; `WithinBaseline`:
never starved and never longer than one slot at a time.

**front_end** (`MCFrontEnd`): every program of up to five instructions over two
variables and the pinned zero: constants, operations that read a variable twice
or overwrite what they read, stores, debug checks; with and without pruning.
Five instructions hold a chain that is overwritten, a dead one beside a live
one, and a check of either.  A program without a store ends in the assertion of
`prune_to_stores`, hence no deadlock check.
`EdgesAreDataFlow`: the final graph is the data flow of the source program.
`ProgramWellTagged`: one writer per tag, before its readers.
`CountsMatchReaders`: the counts are those of the operands that are left, and
with pruning every tag that is written is read, so every register is freed.
`KeptIsNeeded`: pruning keeps what stores depend on, and the checks of it.

**kernel** (`MCKernel`): 384 settings of the toggles, two trees and two
inputs, two groups of eight lanes.  A tree of height 5 has the root, the levels
chosen by path bits (1 to 3), a level that is preloaded or gathered (4) and the
leaves; eleven rounds descend, wrap, and end at level 4 of the second descent,
where the real shape ends, too.  One group is among those whose level 4 is
preloaded and one is not, or both, or none.  The program has no branch, so a
setting has one behaviour.
`FollowsTheWalk`: after every piece of code the registers of every lane stand
for the value and the node of the reference, through fused stages, the deferred
constant and the wrap, and memory holds the results when the reference's does.
`OracleAgrees`: no debug check fails, and those that the deferral would make
fail are the ones left out.  `MemoryNeedsNoOrder`: a store depends, through
registers, on every load of a word it writes, so the lack of edges through
memory is harmless.  `LevelKnown`: the level of a round is that of every lane,
whatever the data.

**pauses** (`MCPauseBarriers`): programs of two loads, an operation, a select,
two stores and a debug check as pruning leaves them, every schedule of each
within the slot limits, run by the development test and by grading.  The flow
engine has one slot, as in the machine, so that pauses compete for it.
`MemoryAtEachReturn`: memory is untouched when the first `run()` of the
development test returns, and final when the last one does, there and in grading.
`NothingRaised`: neither `_insert_pauses` nor the machine raises, debug checks
and their trace included.  `PausesAreFree`: with the pauses the machine counts
no cycle more than the scheduler emitted.  It rests on two facts the model
makes explicit: after pruning a select has a reader in a later bundle, so the
last flow slot is free; and a debug check is never postponed, so the last
bundle is never one of checks alone, which the pause would make a cycle.

Four runs end in a violation, where the code does not do what a document or an
assertion of it says.

- **cap_of_a_gather** (`MCGreedyCap`): the default cap is `len(dag) + 1`, one
  cycle per node, while a gather is one node and takes VLEN / 2 cycles.  A chain
  of a constant, a broadcast, a gather and a store is refused although it is
  shorter than the sequential baseline the notes define the cap by.
- **held_by_a_gather** (`MCGatherHold.cfg`): a gather that finds no load slot
  keeps the register it was just given, while the module's header says a
  register is assigned when its writer is placed.  The register is not lost
  (`NothingLeaks`), but other nodes may stall on it.
- **reg_delta** (`MCRegDelta.cfg`): a register given back by `unwrite` still
  counts as an allocation, so the score's `reg_delta` is not the change of the
  pool it is said to be.
- **one_descent** (`MCKernelOneDescent.cfg`): with as many rounds as the tree
  has levels the last round is the one that defers its constant, no later round
  repairs it, and the stored results lack the last exclusive or of the hash.
  `build_kernel` asserts the shapes it supports but says nothing of the number
  of rounds; the sixteen rounds of the repository end elsewhere.

Every property of a passing run has a mutant in `PROJECT.json`: a plausible
bug in one mapped definition under which TLC finds the property violated.

## 4. Fairness

Only the schedulers have a liveness property.  Each is a single loop in one
thread: while it can take a step it takes it.  That is `WF_vars(Next)`; no
single action is assumed fair, and no choice among the actions is assumed.
The components have no fairness: nothing obliges a client to call them.

## 5. The proofs

`DepDagProofs` proves, for every finite set of nodes and every set of graphs
whose edges run forward, what the run dep_dag checks on four nodes:

| theorem | statement |
|---|---|
| `DagInvariant` | `HSpec => []DagInv` |
| `DagTypeCorrect` | `HSpec => []TypeOK` |
| `DagCountersExact` | `HSpec => []CountersExact` |
| `DagFrontierExact` | `HSpec => []FrontierExact` |
| `DagUndoExact` | `HSpec => []UndoExact` |
| `DagNeverStarved` | `HSpec => []NeverStarved` |
| `DagImplementsIssueOrder` | `HSpec => ImplementsIssueOrder` |

Assumptions: nodes are natural numbers and finitely many (`NodeAssumption`;
they are list indices), and every edge goes from a lower index to a higher one
(`GraphsAssumption`; `build_dag` adds an edge only from a writer it has already
seen).

None of `CountersExact`, `FrontierExact`, `UndoExact` is inductive alone.
`FrontierExact` needs the counters, since the code decides by them; the
counters need that a committed node has only committed predecessors, since
`commit()` skips committed readers; and a step of the undo loop lands in a
state of the past, so all of this must hold of every state the open trial can
return to, not only of the present one.  `DagInv` therefore says that each
point, past or present, is a good one, and that undoing each log entry leads
from the point after it to the point before.

The argument follows one point at a time: `CommitPoint`, `AdvancePoint` and
`FreshPoint` show that a call makes a good point from a good point, by counting
lemmas about subsets of the nodes (`CountSplit`, `CountOne`, `ZeroCounters`);
`UndoDo` shows that undoing what a call recorded restores the point it was made
at; `RecordedStep` carries both along the log; `NextDagInv` goes through the
actions.  `DagNeverStarved` takes the least uncommitted node (`FirstNode`):
everything it waits for is earlier, hence committed, and nothing is in flight at
the start of a cycle.  `DagImplementsIssueOrder` maps the counters to the sets
they count: a node in the frontier is ready by the invariant, and the trail is
the history.

`FuncUnitPoolProofs` proves, for every set of nodes of every kind, every vector
length and every slot limits (`PoolAssumption`), what the run func_unit_pool
checks:

| theorem | statement |
|---|---|
| `PoolInvariant` | `HSpec => []PoolInv` |
| `PoolTypes` | `HSpec => []TypeOK` |
| `PoolBudgetExact` | `HSpec => []BudgetExact` |
| `PoolLanesOnce` | `HSpec => []LanesOnce` |
| `PoolEvictionIndexValid` | `HSpec => []EvictionIndexValid` |
| `PoolRollbackRestores` | `HSpec => RollbackRestores` |

`LanesOnce` speaks of the time outside trials, and a trial changes the progress
it is about: the inductive form `LandedOnce` measures against the progress saved
by the first checkpoint while a trial is open.  That a rollback returns to it
needs `LogExact`, that the log leads from the present back to what each open
checkpoint saw, and `Modes`, that a trial's cycles are dry, so that a bundle
never holds a slot whose landing is taken back.  `EvictionIndexValid` needs
`IndicesGrow`: deleting a slot moves those after it, and the victim's is the
last of the remembered ones.  Lemmas count the slots of a lane in a bundle under
concatenation and removal (`TimesConcat`, `TimesRemove`) and follow the oldest
entry of a field when the log grows or is cut (`EntriesAdded`, `EntriesCut`);
`PlaceCases` reduces the branches of `place` that land slots to one form,
`Lands`, and leaves the eviction, where slots move between engines.

`RegAllocProofs` proves, for all finite or infinite sets of
vector and scalar values, every granule size and every size of scratch
(`SizeAssumption`: the size is a multiple of VLEN, no value has both shapes,
read counts are numbers), what the run reg_alloc checks on two granules:

| theorem | statement |
|---|---|
| `RegInvariant` | `HSpec => []RegInv` |
| `RegTypes` | `HSpec => []TypeOK` |
| `RegPartition` | `HSpec => []Partition` |
| `RegCountsAgree` | `HSpec => []CountsAgree` |
| `RegUndoExact` | `HSpec => []UndoExact` |
| `RegClaimReversalSafe` | `HSpec => []ClaimReversalSafe` |
| `RegNoGranuleStranded` | `HSpec => NoGranuleStranded` |
| `AllocatorKeepsPromise` | `HSpec => ImplementsRegFile` |

As for the graph, the loop of `rollback()` lands in states of the past, so
`RegInv` asks of every state behind the log what it asks of the present one
(`TrialGood`), and that undoing an entry leads exactly from the state after it
to the state before.  `UndoExact` compares lists with their order, and that is
what the two ways of giving back a word turn on: a claim is reversed by
building the list of its granule anew, which gives the old list only if no
sibling was taken and put back in between.  `LatestFresh` is the fact that
makes it so: the tag that may be unwritten is the one just written, so its
granule is still as it was split.  A reversal in `rollback()` is safe for
another reason, that the state after the claim is one of those the undo passes
through.

Lists of the members of a set (`ListOf`) carry the argument: `ListFront`,
`ListTail`, `ListCons`, `ListAppend` and `ListConcat` say what taking and
returning a register makes of them, `ListLength` that a list of all the words of
a granule is one of VLEN words, which ties the free counts to reclamation.  A
lemma per kind of log entry shows a good state after the call and the old state
after undoing it (`VecTaken`, `VecReturned`, `WordTaken`, `WordReturned`,
`ClaimTaken`, `ClaimReversed`, `ReadOne`); `RecordedStep` appends it to the log,
`PopStep` takes it off, `CollectGood` moves the free granules.  The refinement
maps a vector to the words of its granule and a scalar to its word;
`Footprints` gets from `Partition` that no two values share a word, and every
`PopEntry` is a step back along the trail.

`ProgramProofs` proves what the kernel's
arithmetic rests on, for every number of words, every exclusive or with the
laws of `XorAssumption`, every tree height, batch and number of rounds:

| theorem | statement |
|---|---|
| `LinearStage` | a stage of two sums and a shift is one multiply-add |
| `FusedStages` | two multiply-adds and one exclusive or compute stages 2 and 3 |
| `FusedMultiplierComputed` | the prologue's shift computes the fused multiplier |
| `DeferralRepaired` | leaving out the last constant and reading the root exclusive-or'ed with it gives the next round the same operand |
| `WalkLevelKnown` | `WalkSpec => []LevelKnown` |
| `KernelLevelKnown` | `Spec => []LevelKnown` of the kernel |
| `AddressFollows` | the address arithmetic of the kernel gives the address of the node the walk goes to, in the first round, in every other and at the wrap |

They assume that words are `0 .. M - 1` (`WordAssumption`), that exclusive or is
a commutative group of order two on them (`XorAssumption`) which flips the low
bit when 1 is added (`LowBitAssumption`), the stage shapes that
perf_takehome.py asserts (`ShapeAssumption`, `ShiftAssumption`), that the
hash of a word is a word (`HashAssumption`), and that levels start at
`2 * start + 1` of the level before (`LevelAssumption`).  TLC evaluates all of
them in the run kernel.  The arithmetic theorems go through a few lemmas on
remainders (`ModUnique`: a remainder is the only word at a multiple of `M` from
the sum), so that each step is linear for the solver.  `LevelKnown` is not
inductive without the types of values and nodes (`WalkInv`); that levels grow
is shown by a least counterexample, since induction over data is out of the
prover's reach.

`ProgramProofs` proves, too, for programs of every length over any symbols, with and
without pruning, all four properties that the run front_end checks up to five
instructions:

| theorem | statement |
|---|---|
| `FrontInvariant` | `FrontSpec => []FrontInv` |
| `FrontEdgesAreDataFlow` | `FrontSpec => []EdgesAreDataFlow` |
| `FrontWellTagged` | `FrontSpec => []ProgramWellTagged` |
| `FrontKeptIsNeeded` | `FrontSpec => []KeptIsNeeded` |
| `FrontCountsMatchReaders` | `FrontSpec => []CountsMatchReaders` |

`InstructionAssumption` says what an instruction is: a sequence of operands,
symbols or pinned ones; at most one symbol written, and none by a store or a
check; and that no pinned name is a tag.
`FrontInv` follows the passes.  `TaggedOK` says which tag an operand has: one
that the last write of its symbol made.  It is inductive with `CurrentOK`, that
`current` holds the tag of the last write, and `CounterOK`, that the counter
makes tags never seen.  `BuildOK` turns the tagging round: `writer` finds the
node that made a tag, so the edges into the nodes made so far are their data
flow.  `WalkOK` holds the two halves of the backward walk against each other:
what is marked lies in every closed set around the stores, and what a finished
node reads is marked, so that an empty work list leaves the least closed set.
`FinalOK` says that compaction keeps order and edges, `Counts` that the counts
are those of the instructions passed, in both places where the code counts.
What a store depends on is stated as that least closed set (`DependsOn`)
instead of by paths, since induction over data is out of the prover's reach.

`CycleRunnerProofs` and `GreedyProofs` prove `regalloc.schedule` right for
every program, every register file, every unit capacities and every order its
picker may choose:

| theorem | statement |
|---|---|
| `GreedyInvariant` | `Spec => []GreedyInv` |
| `GreedyOperandsIntact` | `Spec => []OperandsIntact` |
| `GreedyStuckIsFinal` | `Spec => []StuckIsFinal` |
| `GreedyNeverStarved` | `Spec => [](at # "starved")` |
| `GreedyNothingLeaks` | `EveryTagRead` implies `Spec => []NothingLeaks` |
| `GreedyWithinBaseline` | `SequentialCap` implies `Spec => []WithinBaseline` |

They assume that every tag has one writer, which comes before its readers, that
an elementwise operation writes a vector and a check nothing
(`ProgramAssumption`; `FrontWellTagged` is the first half); that scratch is a
multiple of VLEN, capacities are positive and every kind is one the units know
(`SizesAssumption`).  `EveryTagRead` is a hypothesis of one theorem only: a
register whose value nobody reads is never given back, and
`FrontCountsMatchReaders` is why the pruned program has none.

The graph, the allocator and the units are the verified modules, and their
inductive invariants come with their proofs by INSTANCE, with no trial open:
`PartsOK`.  `RunnerInv` adds what ties them together.  `CountsOK` is the heart:
the allocator's count of a tag is the number of its operands that uncommitted
nodes have still to read, the node half way through its reads included; so a
register is given back only when no later slot names it.  `ProgressOK` says that
a node keeps its register from its first lane to its last, `BundleOK` that the
slots of the open bundle are resolved to the registers their values have,
`ScratchOK` that a landed lane is in its register unless its slot is in the
bundle still to be executed, `ReadsOK` that each slot of the open bundle reads
what it names.  The last is stable although registers are given back and taken
again within the cycle, because a write only takes effect when the bundle
is executed; it holds of a new slot because a ready node's operands are written
by committed nodes, whose lanes have all landed in an earlier cycle, and have an
unread count of at least one.  `RefusalOK` with `RefusedSoFar` is what makes
"stuck" final: in a cycle that emitted nothing each ready node was refused by
`can_write`, no node was committed, and so no read is on its way to free a
register.

There is one lemma for each call (`TakeStep`, `WriteStep`, `PlaceStep`,
`GiveBackStep`, `ConsumeStep`, `CommitStep`, `EmitStep`, `AdvanceStep`,
`CollectStep`, ...), under it one step for each part of `RunnerInv`; `GreedyInvariant` picks the lemmas of the
calls its actions make.  `GreedyNeverStarved` rests on `FirstIsReady` of
`DepDagProofs`, stated on the next state because the loop looks at the frontier
before anything else.

`GreedyWithinBaseline` says that the error "cycle count exceeded cap" ("the
placer has regressed below the baseline", notes/scheduler_design.md:244) is
never raised.  Its hypothesis `SequentialCap` is that the cap has
room for a cycle per node (debug nodes included) and a cycle per lane of each gather, and that the
alu takes a whole vector, as SLOT_LIMITS (12 slots, 8 lanes) has it.  The
default cap of one cycle per node and one more satisfies it for programs
without gathers; with gathers it need not, which is what the run cap_of_a_gather shows.
The argument (`BaselineOK`) is that each emitted cycle is paid for by a cycle of
the schedule that issues one slot at a time (`Paid`): a cycle is emitted only if something was
placed in it, the first node placed in an empty cycle lands whatever the slot
limits are (`FirstLands`), a gather one lane at least and any other node all it
has left, and landed lanes are never taken back (`LanesGrow`).  The run
rollout checks the same with a tighter cap, in which debug nodes are free.

`RolloutParts` and `RolloutProofs` prove `rollout.schedule_rollout` right in the
same generality, for every number of trials, every orders they try and every
choice of the winner:

| theorem | statement |
|---|---|
| `RolloutInvariant` | `HSpec => []RolloutInv` |
| `RolloutTrialLeavesNoTrace` | `HSpec => []TrialLeavesNoTrace` |
| `RolloutOperandsIntact` | `HSpec => []OperandsIntact` |
| `RolloutStuckIsFinal` | `HSpec => []StuckIsFinal` |
| `RolloutNeverStarved` | `HSpec => [](at # "starved")` |
| `RolloutNothingLeaks` | `EveryTagRead` implies `HSpec => []NothingLeaks` |
| `RolloutWithinBaseline` | `SequentialCap` implies `HSpec => []WithinBaseline` |

`HSpec` is the specification with three variables that only watch: the nodes in
flight and the states behind the logs of the graph and the allocator, which are
the histories the proofs about those components are stated with.
The only new assumption is that there is a trial (`TrialsAssumption`).

`RolloutInv` has two faces (`PhaseOK`).  With no trial open it is `RunnerInv`, and
the lemmas of `CycleRunnerProofs` take the replay through the same calls as
`schedule()`.  While a trial is open `RunnerInv` is not to be had: the bundle is
not emitted, so what the graph believes landed has not.  Instead the three
parts' own invariants hold with their histories (`TrialParts`), each history
begins at the state before the trial (`TrialStart`, by `Root`), and the tables
that tie the parts together held there (`OriginOK`).  A call of the trial extends
the histories at their end and a rollback shortens them there, so their
beginning stays (`RegsLogged`, `RegsPopped`, `DagsLogged`, `DagsPopped`,
`UnitsBack`), and when they are empty the present state is that beginning
(`RegsBack`, `DagsBack`): `UndoDagKeeps` turns the one face back into the other,
and is at the same time why a trial leaves no trace.  The order of the rollbacks
is in `TrialPlace`.  That "stuck" is final needs an argument about trials that
fail: `TrialStuckOK` says that one that took no slot and committed nothing was
refused a register by each node it offered, with the allocator as it was at the
start of the cycle, so every other order would be refused as well.

`RolloutWithinBaseline` adds `CapOK`.  In `schedule()` an empty cycle raises the
stuck error; in `schedule_rollout` the replay is emitted whatever it placed, on the
ground that its trial was not stuck.  The proof must therefore show that the
replay places something.  A trial that gets somewhere shows that
not every ready node is refused a register at the start of the cycle
(`Stalled`), and a replay that has placed nothing yet has offered only
nodes that are (`RefusedSoFar`); so it places one before its order ends,
and that one lands.  It is not used that replay and trial make the same
choices.

Of the pauses `ProgramProofs` proves, for every pruned program and every schedule
of it:

| theorem | statement |
|---|---|
| `PauseInvariant` | `PauseSpec => []PauseInv` |
| `PauseMemory` | `PauseSpec => []MemoryAtEachReturn` |
| `PauseRaisesNothing` | `PauseSpec => []NothingRaised` |
| `PausesCostNothing` | `PauseSpec => []PausesAreFree` |

They assume that instructions are finitely many (`InstrAssumption`), that a
bundle has a flow slot (`LimitAssumption`), and of the program what pruning
leaves and the kernel's instructions are (`ProgramsAssumption`): only values are
read, stores, checks and selects read something, and every value is read by
something that is not a check.  `ScheduleOK` says what any schedule
looks like: operands come from earlier bundles, and a check reads
something of the bundle just before it, since nothing holds it back.
`FirstBundle` and `LastBundle` draw the conclusions: nothing that reads is in the
first bundle, so it has neither stores nor checks and a free flow slot; nothing
that is read is in the last, so its flow slot is free, too, and not only checks
are in it, since the value they would wait for has another reader.  `RunOK`
follows a run bundle by bundle: scratch and memory hold the results of the
bundles behind, and the cycles are the number of those that cost one.

Model-checked only, and why:

- `ReplayMatchesTrial`: it relates the replay to a trial that was undone, call by
  call, in two modes of the units; the invariants here are about one run of the
  cycle at a time.
- `Completes`: liveness under fairness is outside the prover's reach.  That a run
  cannot go on for ever emitting cycles is `GreedyWithinBaseline` and
  `RolloutWithinBaseline`.
- `NodeProps`: recursive definitions, again induction over data.
- `FollowsTheWalk`, `OracleAgrees`, `MemoryNeedsNoOrder`: runs of whole pieces
  of emitted code; their arithmetic is proved, their composition is not.

## 6. What is not modelled

- Sorting functions, pickers and scores: they choose among behaviours that are
  all checked.
- Writes to one lane of a vector: the allocator could not place them
  (perf_takehome.py:526), and the kernel emits none.
- Instructions the kernel never emits (scalar stores and selects, `add_imm`,
  division, comparison, jumps, halt), further cores and the trace output.
- A node spread over several cycles counts, in `PauseBarriers`, where its last
  lane lands.
- `reset()` of a graph in the middle of a trial: no caller does it.
- Training and diagnostic tools, tests, weights: offline; tests were read for
  what they promise.

## 7. Plan

Written so far, in this order: dependency graph, allocator and functional units
with their proofs, the composition, both schedulers, the front end, the node
properties, the machine with the pauses, the hash, the reference and the kernel
with their proofs, and the proofs of the front end, the pauses and both
schedulers.  Next:

1. `ReplayMatchesTrial`: the trial's calls as a history, and the replay a
   refinement of it.
2. `FollowsTheWalk` for every setting: the theorems on the hash and the
   addresses are its steps.
