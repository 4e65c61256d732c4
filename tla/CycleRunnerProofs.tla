-------------------------- MODULE CycleRunnerProofs --------------------------
(***************************************************************************)
(* What every call of a scheduler keeps, for every program, register file  *)
(* and set of units: RunnerInv.  The graph, the allocator and the units    *)
(* are the verified modules, and their own inductive invariants come with  *)
(* the proofs about them, by INSTANCE; RunnerInv adds what ties them       *)
(* together.  There is a lemma for each call (TakeStep, WriteStep,         *)
(* PlaceStep, CommitStep, EmitStep, ...); a scheduler's proof picks the    *)
(* lemmas of the calls its actions make.                                   *)
(***************************************************************************)
EXTENDS ScheduleProperties, FiniteSetTheorems, SequenceTheorems,
        WellFoundedInduction, TLAPS

\* Nodes committed this cycle that some node waits for.
HasReader(n) == \E d \in Node : <<n, d>> \in Graph.raw
InFlight == IF InCycle THEN { n \in committed \cap offered : HasReader(n) } ELSE {}

\* No trial is open while the runner is used as schedule() uses it, so the
\* histories that the parts' proofs keep of a trial are empty, and so is the
\* record of the lanes emitted in earlier cycles.
NoLanes == [nl \in { x \in Node \X (0 .. VLEN - 1) : x[2] < Pool!LanesTotal(x[1]) } |-> 0]

DagP == INSTANCE DepDagProofs WITH Graphs <- {Graph}, recording <- dagRecording,
          log <- dagLog, target <- dagTarget, inFlight <- InFlight, past <- <<>>
RegP == INSTANCE RegAllocProofs WITH ReadCounts <- {ReadCount}, MaxLog <- LogRoom,
          recording <- regRecording, log <- regLog, target <- regTarget, past <- <<>>
PoolP == INSTANCE FuncUnitPoolProofs WITH MaxTokens <- 1, recording <- poolRecording,
          log <- poolLog, executed <- NoLanes, saved <- <<>>

\* The parts are in order, and no trial is open.
DagIdle == DagP!DagInv /\ ~dagRecording /\ dagTarget = -1
RegIdle == RegP!RegInv /\ ~regRecording /\ regTarget = -1
PoolIdle == /\ PoolP!TypeOK /\ PoolP!Modes /\ PoolP!BudgetExact /\ PoolP!IndicesGrow
            /\ PoolP!EvictionIndexValid /\ ~poolRecording /\ (InCycle => ~dry)
PartsOK == DagIdle /\ RegIdle /\ PoolIdle

\* The lanes of a node that have landed.
LandedLanes(n) ==
  IF Kind[n] \in {"gather", "vec_elem"} THEN 0 .. lanesDone[n] - 1
  ELSE IF lanesDone[n] = 1 THEN LanesOf(n) ELSE {}

\* The node's result has a register.
Holds(n) == Dest(n) \subseteq DOMAIN assigned

\* What an instruction reads: a tag, and the lane it names.
Operand == [tag : Tag, lane : {All} \cup 0 .. VLEN - 1]

\* Where the scheduler is, and the node it is placing.
PlaceOK ==
  /\ at \in {"top", "try", "collect", "done", "starved", "stuck", "capped"} \/ InCycle
  /\ scratch \in [0 .. SCRATCH - 1 -> [tag : Tag \cup {"none"}, lane : Nat]]
  /\ at \in {"write", "place", "unwrite", "read"} => node \in frontier
  /\ at \in {"place", "unwrite", "read"} => Holds(node)
  /\ at \in {"unwrite", "read"} => node \in offered
  /\ at = "unwrite" => lanesDone[node] = 0
  /\ at = "read" => /\ lanesDone[node] = Pool!LanesTotal(node)
                    /\ todo \in Seq(Operand) /\ Len(todo) <= Len(Reads(node))
                    /\ \A i \in 1 .. Len(todo) :
                         todo[i] = Reads(node)[Len(Reads(node)) - Len(todo) + i]

\* A node has a register while its lanes land.
ProgressOK ==
  \A n \in Node : /\ n \in committed => lanesDone[n] = Pool!LanesTotal(n)
                  /\ n \notin committed /\ lanesDone[n] > 0 => Holds(n)

\* Reads still to be consumed.
Consumed(o) == at = "read" /\ o[1] = node /\ o[2] <= Len(Reads(node)) - Len(todo)
Unread(t) == { o \in ReadersOf(t) : o[1] \notin committed /\ ~Consumed(o) }

\* The allocator's counts are of the reads still to come, and a register that
\* was given back has none.
CountsOK ==
  /\ readCount = ReadCount
  /\ \A t \in DOMAIN assigned : /\ remaining[t] = Cardinality(Unread(t))
                                /\ remaining[t] = 0 => ReadCount[t] = 0
  /\ \A n \in committed : \A t \in Dest(n) \ DOMAIN assigned : Unread(t) = {}

\* A slot of the bundle, and the registers it was resolved to.
BundleOK ==
  InCycle => \A slot \in Emitted :
    /\ slot.node \in offered \cap DOMAIN resolved
    /\ Dest(slot.node) # {} => lanesDone[slot.node] > 0
    /\ Holds(slot.node)
    /\ \A t \in Dest(slot.node) : resolved[slot.node][t] = assigned[t]

\* A lane that has landed is in its register, unless its slot is in the bundle
\* that has not been executed.
ScratchOK ==
  \A n \in Node : \A t \in Dest(n) \cap DOMAIN assigned : \A j \in LandedLanes(n) :
    \A v \in LanesWritten(n, j) :
      \/ Filling /\ <<n, j>> \in EmittedRuns
      \/ scratch[assigned[t] + v.lane] = v

\* While a cycle is filled, each slot in its bundle reads what it names.
ReadsOK == Filling => SlotsReadRight

\* A node that was refused in a cycle that has emitted nothing so far found no
\* register.
Refused(n) == \E t \in Dest(n) : ~Reg!CanWrite(Reg!regs, t)
\* With an empty bundle nothing is committed, and nothing got as far as its
\* reads.
RefusalOK ==
  /\ Filling /\ Emitted = {} => frontier # {} /\ committed \cap offered = {}
  /\ at \in {"unwrite", "read"} => Emitted # {}

\* The invariant of the calls.
RunnerInv == /\ PartsOK /\ PlaceOK /\ ProgressOK /\ CountsOK /\ BundleOK
             /\ ScratchOK /\ ReadsOK /\ RefusalOK
-----------------------------------------------------------------------------
\* The nodes are the positions of the program; an instruction's parts are typed.
LEMMA ProgramFacts ==
  /\ Len(Program) \in Nat /\ Node = 1 .. Len(Program) /\ IsFiniteSet(Node) /\ Node \subseteq Nat
  /\ \A n \in Node : /\ Dest(n) \subseteq Tag
                     /\ Reads(n) \in Seq(Operand)
                     /\ Len(Reads(n)) \in Nat /\ DOMAIN Reads(n) = 1 .. Len(Reads(n))
<1> DEFINE Instruction == [kind : STRING, dest : SUBSET Tag, reads : Seq(Operand)]
<1>1. Program \in Seq(Instruction)
  BY ProgramAssumption DEF Operand
<1> HIDE DEF Instruction
<1>2. Len(Program) \in Nat /\ Node = 1 .. Len(Program) /\ \A n \in Node : Program[n] \in Instruction
  BY <1>1, LenProperties, ElementOfSeq DEF Node
<1>3. IsFiniteSet(Node) /\ Node \subseteq Nat
  BY <1>2, FS_Interval
<1>4. ASSUME NEW n \in Node
      PROVE  /\ Dest(n) \subseteq Tag /\ Reads(n) \in Seq(Operand)
             /\ Len(Reads(n)) \in Nat /\ DOMAIN Reads(n) = 1 .. Len(Reads(n))
  <2>1. Dest(n) \subseteq Tag /\ Reads(n) \in Seq(Operand)
    BY <1>2 DEF Instruction, Dest, Reads
  <2> QED
    BY <2>1, LenProperties
<1> QED
  BY <1>2, <1>3, <1>4

\* The instruction that writes a tag, and how often it is read.
LEMMA OperandsFinite ==
  /\ IsFiniteSet(Operands)
  /\ \A t : IsFiniteSet(ReadersOf(t)) /\ Cardinality(ReadersOf(t)) \in Nat
  /\ ReadCount \in [Tag -> Nat]
<1> DEFINE f == [n \in Node |-> {n} \X DOMAIN Reads(n)]
           T == { {n} \X DOMAIN Reads(n) : n \in Node }
<1>1. IsFiniteSet(T)
  <2>1. f \in Surjection(Node, T)
    BY DEF Surjection
  <2> QED
    BY <2>1, ProgramFacts, FS_Surjection
<1>2. ASSUME NEW n \in Node PROVE IsFiniteSet({n} \X DOMAIN Reads(n))
  <2>1. IsFiniteSet({n})
    BY FS_Singleton
  <2>2. IsFiniteSet(1 .. Len(Reads(n)))
    BY ProgramFacts, FS_Interval
  <2> QED
    BY <2>1, <2>2, ProgramFacts, FS_Product
<1>3. IsFiniteSet(Operands)
  BY <1>1, <1>2, FS_UNION DEF Operands
<1>4. ASSUME NEW t PROVE IsFiniteSet(ReadersOf(t)) /\ Cardinality(ReadersOf(t)) \in Nat
  BY <1>3, FS_Subset, FS_CardinalityType DEF ReadersOf
<1> QED
  BY <1>3, <1>4 DEF ReadCount

\* What the allocator's proofs assume of its parameters.
LEMMA RegSizes ==
  /\ VLEN \in Nat \ {0} /\ SCRATCH \in Nat /\ SCRATCH % VLEN = 0
  /\ VecTag \cap ScalarTag = {}
  /\ {ReadCount} \subseteq [RegP!Tag -> Nat]
BY ProgramAssumption, SizesAssumption, OperandsFinite DEF RegP!Tag, Tag

\* What the graph's proofs assume of theirs.
LEMMA DagSizes ==
  /\ Node \subseteq Nat /\ DagP!IsFiniteSet(Node)
  /\ {Graph} \subseteq [raw : SUBSET DagP!Forward, war : SUBSET DagP!Forward]
<1>1. DagP!IsFiniteSet(Node)
  BY ProgramFacts DEF IsFiniteSet, DagP!IsFiniteSet
<1> QED
  BY <1>1, ProgramFacts DEF Graph, DagP!Forward

\* What the proofs about the units assume of theirs.
LEMMA PoolSizes ==
  /\ VLEN \in Nat \ {0}
  /\ Capacity \in [PoolP!Engine -> Nat \ {0}]
  /\ Kind \in [Node -> PoolP!Kinds]
BY ProgramAssumption, SizesAssumption DEF PoolP!Engine, PoolP!Kinds, Pool!Engine, Pool!Kinds



-----------------------------------------------------------------------------
\* A call of the allocator is a step of the allocator its proofs are about.
LEMMA RegCalls ==
  /\ Reg!Init => RegP!HInit
  /\ \A t : Reg!Write(t) /\ ~regRecording => RegP!HWrite(t)
  /\ \A t : Reg!Unwrite(t) /\ ~regRecording => RegP!HUnwrite(t)
  /\ \A t : Reg!Read(t) /\ ~regRecording => RegP!HRead(t)
  /\ Reg!Collect => RegP!HCollect
<1> USE DEF Reg!Become, RegP!Become, Reg!Record, RegP!Record, Reg!Entry, RegP!Entry,
            Reg!regs, RegP!regs, Reg!Bind, RegP!Bind, Reg!Unbind, RegP!Unbind,
            Reg!With, RegP!With, Reg!Without, RegP!Without, Reg!Restrict, RegP!Restrict,
            Reg!Idle, RegP!Idle, Reg!Room, RegP!Room, Reg!Base, RegP!Base
<1>1. Reg!Init => RegP!HInit
  BY DEF Reg!Init, RegP!HInit, RegP!Init, Reg!Empty, RegP!Empty
<1>2. ASSUME NEW t, Reg!WriteVec(t) PROVE RegP!WriteVec(t)
  BY <1>2 DEF Reg!WriteVec, RegP!WriteVec
<1>3. ASSUME NEW t, Reg!WriteWord(t) PROVE RegP!WriteWord(t)
  BY <1>3 DEF Reg!WriteWord, RegP!WriteWord, Reg!BestFit, RegP!BestFit, Reg!Last, RegP!Last,
              Reg!PopWord, RegP!PopWord, Reg!Front, RegP!Front
<1>4. ASSUME NEW t, Reg!WriteClaim(t) PROVE RegP!WriteClaim(t)
  <2>1. Reg!BestFit(Reg!regs) = RegP!BestFit(RegP!regs)
    BY DEF Reg!BestFit, RegP!BestFit
  <2>2. \A s, g : Reg!PopWord(s, g) = RegP!PopWord(s, g) /\ Reg!Claim(s, g) = RegP!Claim(s, g)
    BY DEF Reg!PopWord, RegP!PopWord, Reg!Front, RegP!Front, Reg!Claim, RegP!Claim,
           Reg!WordsInOrder, RegP!WordsInOrder
  <2> QED
    BY <1>4, <2>1, <2>2 DEF Reg!WriteClaim, RegP!WriteClaim
<1>5. ASSUME NEW t, Reg!Write(t), ~regRecording PROVE RegP!HWrite(t)
  <2>1. RegP!WriteVec(t) \/ RegP!WriteWord(t) \/ RegP!WriteClaim(t)
    BY <1>2, <1>3, <1>4, <1>5 DEF Reg!Write
  <2>2. RegP!CanWrite(RegP!regs, t)
    BY <1>5 DEF Reg!Write, Reg!CanWrite, RegP!CanWrite, Reg!BestFit, RegP!BestFit
  <2> QED
    BY <1>5, <2>1, <2>2 DEF Reg!Write, RegP!HWrite, RegP!Write, RegP!Note
<1>6. ASSUME NEW t, Reg!Unwrite(t), ~regRecording PROVE RegP!HUnwrite(t)
  BY <1>6 DEF Reg!Unwrite, RegP!HUnwrite, RegP!Unwrite, RegP!Note, Reg!Reversible, RegP!Reversible,
              Reg!Unclaim, RegP!Unclaim, Reg!PutWord, RegP!PutWord
<1>7. ASSUME NEW t, Reg!Read(t), ~regRecording PROVE RegP!HRead(t)
  BY <1>7 DEF Reg!Read, RegP!HRead, RegP!Read, RegP!Note, Reg!PutWord, RegP!PutWord
<1>8. Reg!Collect => RegP!HCollect
  BY DEF Reg!Collect, RegP!HCollect, RegP!Collect, Reg!Reclaimable, RegP!Reclaimable,
         Reg!SetToSeqs, RegP!SetToSeqs, Reg!IsInjective, RegP!IsInjective,
         Reg!Range, RegP!Range, Reg!Cardinality, RegP!Cardinality
<1> QED
  BY <1>1, <1>5, <1>6, <1>7, <1>8

\* And likewise for the dependency graph.
LEMMA DagCalls ==
  /\ Dag!Init /\ InFlight = {} => DagP!HInit
  /\ \A n : /\ Dag!Commit(n) /\ ~dagRecording
             /\ InFlight' = (IF DagP!HasReader(graph, n) THEN InFlight \cup {n} ELSE InFlight)
             => DagP!HCommit(n)
  /\ Dag!Advance /\ ~dagRecording /\ InFlight' = {} => DagP!HAdvance
<1> USE DEF Dag!Become, DagP!Become, Dag!Record, DagP!Record, Dag!live, DagP!live,
            Dag!Idle, DagP!Idle, Dag!Do, DagP!Do, Dag!One, DagP!One
<1>1. Dag!Init /\ InFlight = {} => DagP!HInit
  BY DEF Dag!Init, DagP!HInit, DagP!Init, Dag!Fresh, DagP!Fresh, Dag!RawIn, DagP!RawIn,
         Dag!WarIn, DagP!WarIn, DagP!Cardinality, Dag!Cardinality
<1>2. ASSUME NEW n, Dag!Commit(n), ~dagRecording,
             InFlight' = IF DagP!HasReader(graph, n) THEN InFlight \cup {n} ELSE InFlight
      PROVE  DagP!HCommit(n)
  BY <1>2 DEF Dag!Commit, DagP!HCommit, DagP!Commit, DagP!Note, Dag!CommitEntry, DagP!CommitEntry,
         Dag!WarOut, DagP!WarOut, Dag!RawOut, DagP!RawOut
<1>3. ASSUME Dag!Advance, ~dagRecording, InFlight' = {} PROVE DagP!HAdvance
  BY <1>3 DEF Dag!Advance, DagP!HAdvance, DagP!Advance, DagP!Note, Dag!AdvanceEntry, DagP!AdvanceEntry
<1> QED
  BY <1>1, <1>2, <1>3

\* And for the units.
LEMMA PoolCalls ==
  /\ Pool!Init => PoolP!HInit
  /\ \A n : Pool!Place(n) => PoolP!Place(n)
  /\ \A d : Pool!NewCycle(d) => PoolP!NewCycle(d)
  /\ \A n : Pool!Offer(n) => PoolP!Offer(n)
  /\ \A n : Pool!PlaceByEviction(n) => PoolP!PlaceByEviction(n)
<1> USE DEF Pool!Engine, PoolP!Engine, Pool!NoSlots, PoolP!NoSlots, Pool!NoEngine, PoolP!NoEngine,
            Pool!Slot, PoolP!Slot, Pool!All, PoolP!All, Pool!Emit, PoolP!Emit, Pool!Land, PoolP!Land,
            Pool!Record, PoolP!Record, Pool!OldLanes, PoolP!OldLanes, Pool!OldChoice, PoolP!OldChoice,
            Pool!Lanes, PoolP!Lanes, Pool!Refused, PoolP!Refused, Pool!Lesser, PoolP!Lesser,
            Pool!Native, PoolP!Native, Pool!Whole, PoolP!Whole, Pool!LanesTotal, PoolP!LanesTotal,
            Pool!CanEvict, PoolP!CanEvict, Pool!Victim, PoolP!Victim, Pool!LastPlaced, PoolP!LastPlaced,
            Pool!RemoveAt, PoolP!RemoveAt
<1>2. ASSUME NEW n, Pool!Offer(n) PROVE PoolP!Offer(n)
  BY <1>2 DEF Pool!Offer, PoolP!Offer, Pool!Complete, PoolP!Complete
<1>3. ASSUME NEW n, Pool!PlaceOnValu(n) PROVE PoolP!PlaceOnValu(n)
  BY <1>3 DEF Pool!PlaceOnValu, PoolP!PlaceOnValu
<1>4. ASSUME NEW n, Pool!Spill(n) PROVE PoolP!Spill(n)
  BY <1>4 DEF Pool!Spill, PoolP!Spill
<1>5. ASSUME NEW n, Pool!PlaceWhole(n) PROVE PoolP!PlaceWhole(n)
  BY <1>5 DEF Pool!PlaceWhole, PoolP!PlaceWhole
<1>6. ASSUME NEW n, Pool!PlaceByEviction(n) PROVE PoolP!PlaceByEviction(n)
  BY <1>6 DEF Pool!PlaceByEviction, PoolP!PlaceByEviction
<1>7. ASSUME NEW n, Pool!RefuseWhole(n) PROVE PoolP!RefuseWhole(n)
  BY <1>7 DEF Pool!RefuseWhole, PoolP!RefuseWhole
<1>8. ASSUME NEW n, Pool!PlaceGather(n) PROVE PoolP!PlaceGather(n)
  BY <1>8 DEF Pool!PlaceGather, PoolP!PlaceGather
<1>9. ASSUME NEW n, Pool!PlaceDebug(n) PROVE PoolP!PlaceDebug(n)
  BY <1>9 DEF Pool!PlaceDebug, PoolP!PlaceDebug
<1>10. ASSUME NEW n, Pool!Place(n) PROVE PoolP!Place(n)
  <2> HIDE DEF Pool!RemoveAt, PoolP!RemoveAt, Pool!Refused, PoolP!Refused
  <2> QED
    BY <1>2, <1>3, <1>4, <1>5, <1>6, <1>7, <1>8, <1>9, <1>10 DEF Pool!Place, PoolP!Place
<1>11. ASSUME NEW d, Pool!NewCycle(d) PROVE PoolP!NewCycle(d)
  BY <1>11 DEF Pool!NewCycle, PoolP!NewCycle
<1>12. Pool!Init => PoolP!HInit
  BY DEF Pool!Init, PoolP!HInit, PoolP!Init, NoLanes, PoolP!NodeLanes, PoolP!Lane
<1> QED
  BY <1>2, <1>6, <1>10, <1>11, <1>12

-----------------------------------------------------------------------------
\* What a call of the allocator does to the tables of live values.
Gains(f, h, x, v) == /\ DOMAIN h = DOMAIN f \cup {x} /\ h[x] = v
                     /\ \A y \in DOMAIN f \ {x} : h[y] = f[y]
Loses(f, h, x) == /\ DOMAIN h = DOMAIN f \ {x}
                  /\ \A y \in DOMAIN f \ {x} : h[y] = f[y]

\* The tables are about the same values, and those are tags of the program.
LEMMA LiveTags ==
  ASSUME RegP!RegInv
  PROVE  /\ DOMAIN assigned \subseteq Tag /\ DOMAIN remaining = DOMAIN assigned
         /\ \A t \in DOMAIN assigned : remaining[t] \in Nat
BY RegP!Ready, RegSizes DEF Tag, RegP!Tag

\* A step of the allocator the proofs are about keeps their invariant.
LEMMA RegKept ==
  ASSUME RegIdle, RegP!HNext, UNCHANGED <<regRecording, regTarget>>
  PROVE  RegIdle'
<1>1. RegP!RegInv'
  BY RegP!NextInv, RegSizes DEF RegIdle
<1> QED
  BY <1>1 DEF RegIdle

\* write() of a tag that has no register gives it one and no other.
LEMMA WriteEffect ==
  ASSUME RegIdle, NEW t \in Tag, Reg!Write(t)
  PROVE  /\ RegIdle' /\ readCount' = readCount /\ t \notin DOMAIN assigned
         /\ Gains(assigned, assigned', t, assigned'[t])
         /\ Gains(remaining, remaining', t, readCount[t])
<1>1. RegIdle'
  BY RegCalls, RegKept DEF RegIdle, RegP!HNext, RegP!Tag, Tag, Reg!Write
<1>2. readCount' = readCount /\ t \notin DOMAIN assigned /\ DOMAIN remaining = DOMAIN assigned
  BY LiveTags DEF RegIdle, Reg!Write
<1>3. /\ assigned' = Reg!With(assigned, t, assigned'[t])
      /\ remaining' = Reg!With(remaining, t, readCount[t])
  <2> USE DEF Reg!Become, Reg!Bind, Reg!regs
  <2>1. CASE Reg!WriteVec(t)
    BY <2>1 DEF Reg!WriteVec, Reg!With
  <2>2. CASE Reg!WriteWord(t)
    <3>1. PICK g : LET w == Reg!Last(freeWords[g])
                   IN  Reg!Become(Reg!Bind(Reg!PopWord(Reg!regs, g), t, w, readCount[t]))
      BY <2>2 DEF Reg!WriteWord
    <3> HIDE DEF Reg!Last
    <3> QED
      BY <3>1 DEF Reg!PopWord, Reg!With
  <2>3. CASE Reg!WriteClaim(t)
    BY <2>3 DEF Reg!WriteClaim, Reg!PopWord, Reg!Claim, Reg!With
  <2> QED
    BY <2>1, <2>2, <2>3 DEF Reg!Write
<1> QED
  BY <1>1, <1>2, <1>3 DEF Gains, Reg!With

\* unwrite() takes back the register of its tag and no other.
LEMMA UnwriteEffect ==
  ASSUME RegIdle, NEW t \in Tag, Reg!Unwrite(t)
  PROVE  /\ RegIdle' /\ readCount' = readCount /\ t \in DOMAIN assigned
         /\ Loses(assigned, assigned', t) /\ Loses(remaining, remaining', t)
<1>1. RegIdle'
  BY RegCalls, RegKept DEF RegIdle, RegP!HNext, RegP!Tag, Tag, Reg!Unwrite
<1>2. readCount' = readCount /\ t \in DOMAIN assigned /\ DOMAIN remaining = DOMAIN assigned
  BY LiveTags DEF RegIdle, Reg!Unwrite
<1>3. assigned' = Reg!Without(assigned, t) /\ remaining' = Reg!Without(remaining, t)
  BY DEF Reg!Unwrite, Reg!Become, Reg!Unbind, Reg!regs, Reg!PutWord, Reg!Unclaim
<1> QED
  BY <1>1, <1>2, <1>3 DEF Loses, Reg!Without, Reg!Restrict

\* read() counts one read of its tag; the last one takes the register back.
LEMMA ReadEffect ==
  ASSUME RegIdle, NEW t \in Tag, Reg!Read(t)
  PROVE  /\ RegIdle' /\ readCount' = readCount /\ t \in DOMAIN assigned
         /\ \/ /\ remaining[t] > 1 /\ assigned' = assigned
               /\ Gains(remaining, remaining', t, remaining[t] - 1)
            \/ /\ remaining[t] = 1
               /\ Loses(assigned, assigned', t) /\ Loses(remaining, remaining', t)
<1>1. RegIdle'
  BY RegCalls, RegKept DEF RegIdle, RegP!HNext, RegP!Tag, Tag, Reg!Read
<1>2. readCount' = readCount /\ t \in DOMAIN assigned /\ DOMAIN remaining = DOMAIN assigned
  BY LiveTags DEF RegIdle, Reg!Read
<1>3. \/ remaining[t] > 1 /\ assigned' = assigned /\ remaining' = [remaining EXCEPT ![t] = @ - 1]
      \/ /\ remaining[t] = 1
         /\ assigned' = Reg!Without(assigned, t) /\ remaining' = Reg!Without(remaining, t)
  BY DEF Reg!Read, Reg!Become, Reg!Unbind, Reg!regs, Reg!PutWord
<1> QED
  BY <1>1, <1>2, <1>3 DEF Gains, Loses, Reg!Without, Reg!Restrict

\* The collection of garbage touches no live value.
LEMMA CollectEffect ==
  ASSUME RegIdle, Reg!Collect
  PROVE  RegIdle' /\ UNCHANGED <<readCount, assigned, remaining>>
<1>1. RegIdle'
  BY RegCalls, RegKept DEF RegIdle, RegP!HNext, Reg!Collect
<1> QED
  BY <1>1 DEF Reg!Collect

\* A call that leaves the allocator alone.
LEMMA RegAlone ==
  ASSUME RegIdle, UNCHANGED regVars
  PROVE  RegIdle'
<1>1. RegP!RegInv'
  <2>1. UNCHANGED RegP!vars
    BY DEF RegP!vars, regVars
  <2> QED
    BY <2>1, RegP!NextInv, RegSizes DEF RegIdle
<1> QED
  BY <1>1 DEF RegIdle, regVars

-----------------------------------------------------------------------------
\* The lanes of a register.
FootLanes(t) == IF t \in ScalarTag THEN {0} ELSE 0 .. VLEN - 1

\* A granule ends within scratch.
LEMMA GranuleEnds ==
  ASSUME NEW g \in RegP!Granule
  PROVE  g + VLEN <= SCRATCH
<1> DEFINE a == g \div VLEN  b == SCRATCH \div VLEN
<1>1. VLEN \in Nat /\ VLEN > 0 /\ SCRATCH \in Nat /\ g \in Int /\ g < SCRATCH
      /\ g % VLEN = 0 /\ SCRATCH % VLEN = 0
  BY RegSizes DEF RegP!Granule
<1>2. a \in Int /\ b \in Int /\ g = VLEN * a /\ SCRATCH = VLEN * b
  BY <1>1
<1> HIDE DEF a, b
<1>3. VLEN * (b - a) = SCRATCH - g
  BY <1>1, <1>2
<1>4. b - a > 0
  <2>1. SUFFICES ASSUME b - a <= 0 PROVE FALSE
    BY <1>2
  <2>2. VLEN * (b - a) <= 0
    BY <1>1, <1>2, <2>1
  <2> QED
    BY <1>1, <1>3, <2>2
<1>5. \A k \in Int : k > 0 => VLEN * k >= VLEN
  BY <1>1
<1> QED
  BY <1>1, <1>2, <1>3, <1>4, <1>5

\* A register is in scratch, and its words are the lanes of one value only.
LEMMA Registers ==
  ASSUME RegIdle, NEW t \in DOMAIN assigned, NEW i \in FootLanes(t)
  PROVE  /\ assigned[t] \in Nat /\ assigned[t] + i \in 0 .. SCRATCH - 1
         /\ \A u \in DOMAIN assigned : \A j \in FootLanes(u) :
              assigned[u] + j = assigned[t] + i => u = t /\ j = i
<1>1. RegP!Good(RegP!regs) /\ RegP!regs.assigned = assigned /\ DOMAIN assigned \subseteq Tag
  BY RegP!Ready, RegSizes, LiveTags DEF RegIdle
<1>2. VecTag \cap ScalarTag = {} /\ VLEN \in Nat /\ VLEN > 0 /\ SCRATCH \in Nat
  BY RegSizes
<1>3. \A u \in DOMAIN assigned : assigned[u] \in RegP!Word
  BY <1>1 DEF RegP!Good, RegP!TypeAt
<1>4. \A w \in RegP!Word : w \in Nat
  BY RegP!WordFacts, RegSizes
<1>5. \A g \in RegP!Granule : g \in Nat
  BY RegP!GranuleFacts, RegSizes
<1>6. ASSUME NEW u \in DOMAIN assigned, NEW j \in FootLanes(u)
      PROVE  assigned[u] + j \in RegP!Footprint(u, assigned[u])
  BY <1>1, <1>2, <1>3, <1>4, <1>6 DEF FootLanes, RegP!Footprint, RegP!Words, Tag
<1>7. assigned[t] + i \in 0 .. SCRATCH - 1
  <2>1. RegP!Footprint(t, assigned[t]) \in RegP!FileRegisters(t)
    BY <1>1, RegP!Footprints, RegSizes
  <2>2. PICK g \in RegP!Granule : assigned[t] + i \in RegP!Words(g)
    BY <1>6, <2>1 DEF RegP!FileRegisters
  <2> QED
    BY <1>2, <1>5, <2>2, GranuleEnds DEF RegP!Words
<1>8. ASSUME NEW u \in DOMAIN assigned, NEW j \in FootLanes(u), assigned[u] + j = assigned[t] + i
      PROVE  u = t
  <2>1. SUFFICES ASSUME u # t PROVE FALSE
    OBVIOUS
  <2>2. RegP!Footprint(u, assigned[u]) \cap RegP!Footprint(t, assigned[t]) = {}
    BY <1>1, <2>1, RegP!Footprints, RegSizes
  <2> QED
    BY <1>6, <1>8, <2>2
<1>9. \A u \in DOMAIN assigned : FootLanes(u) \subseteq Nat
  BY <1>2 DEF FootLanes
<1> QED
  BY <1>3, <1>4, <1>7, <1>8, <1>9

-----------------------------------------------------------------------------
\* A ready node waits for no one: what it reads was committed in an earlier
\* cycle; and nothing is committed before what it reads.
LEMMA DagFacts ==
  ASSUME DagIdle
  PROVE  /\ graph = Graph /\ committed \subseteq Node /\ frontier \subseteq Node
         /\ InFlight \subseteq committed
         /\ \A n \in frontier : /\ n \notin committed
                                /\ \A m \in Node : <<m, n>> \in Graph.raw => m \in committed \ InFlight
         /\ \A n \in committed : \A m \in Node : <<m, n>> \in Graph.raw => m \in committed
<1>1. DagP!TypeOK /\ DagP!PointOK(graph, DagP!now)
  BY DEF DagIdle, DagP!DagInv
<1>2. graph = Graph /\ committed \subseteq Node /\ frontier \subseteq Node
  BY <1>1 DEF DagP!TypeOK, DagP!State, DagP!live
<1>3. /\ DagP!FrontierOf(graph, DagP!live, InFlight) /\ DagP!ClosedBelow(graph, DagP!live, InFlight)
  BY <1>1 DEF DagP!PointOK, DagP!now
<1>4. /\ InFlight \subseteq committed
      /\ \A n \in committed : DagP!RawIn(Graph, n) \subseteq committed
  BY <1>2, <1>3 DEF DagP!ClosedBelow, DagP!live
<1>5. \A n \in frontier : n \notin committed /\ DagP!RawIn(Graph, n) \subseteq committed \ InFlight
  BY <1>2, <1>3 DEF DagP!FrontierOf, DagP!live
<1> QED
  BY <1>2, <1>4, <1>5 DEF DagP!RawIn

\* A step of the graph the proofs are about keeps their invariant.
LEMMA DagKept ==
  ASSUME DagIdle, DagP!HNext, UNCHANGED <<dagRecording, dagTarget>>
  PROVE  DagIdle'
<1>1. DagP!DagInv'
  BY DagP!NextDagInv, DagSizes DEF DagIdle
<1> QED
  BY <1>1 DEF DagIdle

\* commit() takes its node off the frontier and nothing else.
LEMMA CommitEffect ==
  ASSUME DagIdle, NEW n \in Node, Dag!Commit(n),
         InFlight' = IF HasReader(n) THEN InFlight \cup {n} ELSE InFlight
  PROVE  /\ DagIdle' /\ n \in frontier
         /\ committed' = committed \cup {n} /\ n \notin frontier' /\ frontier \ {n} \subseteq frontier'
<1>1. DagP!HasReader(graph, n) <=> HasReader(n)
  BY DagFacts DEF DagP!HasReader, HasReader, DagP!RawOut
<1>2. DagP!HCommit(n)
  BY <1>1, DagCalls DEF DagIdle
<1>3. DagIdle' /\ n \in frontier
  BY <1>2, DagKept DEF DagIdle, DagP!HNext, Dag!Commit
<1>4. committed' = committed \cup {n} /\ frontier \ {n} \subseteq frontier'
  BY <1>3 DEF Dag!Commit, Dag!Become, Dag!Do, Dag!CommitEntry, Dag!live
<1> QED
  BY <1>3, <1>4, DagFacts DEF DagIdle, DagP!DagInv, DagP!TypeOK, DagP!PointOK, DagP!now,
     DagP!FrontierOf, DagP!live

\* With nothing buffered, nothing is in flight.
LEMMA NothingBuffered ==
  ASSUME DagIdle, \A d \in Node : pending[d] = 0
  PROVE  InFlight = {}
<1>1. /\ DagP!CountersOf(graph, DagP!live, InFlight) /\ DagP!ClosedBelow(graph, DagP!live, InFlight)
      /\ DagP!live \in DagP!State /\ InFlight \in SUBSET Node /\ graph \in {Graph}
  BY DEF DagIdle, DagP!DagInv, DagP!TypeOK, DagP!PointOK, DagP!now
<1>2. \A d \in Node : DagP!live.pending[d] = 0 <=> DagP!RawIn(graph, d) \cap InFlight = {}
  <2> DEFINE s == DagP!live
             f == InFlight
  <2>1. ASSUME NEW d \in Node PROVE s.pending[d] = 0 <=> DagP!RawIn(graph, d) \cap f = {}
    <3>1. DagP!CountersOf(graph, s, f) /\ s \in DagP!State /\ f \in SUBSET Node /\ graph \in {Graph}
      BY <1>1
    <3> HIDE DEF s, f
    <3> QED
      BY <3>1, DagP!ZeroCounters, DagSizes
  <2> QED
    BY <2>1
<1>3. \A d \in Node : DagP!RawIn(graph, d) \cap InFlight = {}
  BY <1>2 DEF DagP!live
<1> QED
  BY <1>1, <1>3 DEF DagP!ClosedBelow, DagP!HasReader, DagP!RawOut, DagP!RawIn

\* The end of a cycle commits nothing.
LEMMA AdvanceEffect ==
  ASSUME DagIdle, InFlight' = {},
         IF \E d \in Node : pending[d] > 0 THEN Dag!Advance ELSE UNCHANGED dagVars
  PROVE  DagIdle' /\ committed' = committed
<1>1. DagP!TypeOK
  BY DEF DagIdle, DagP!DagInv
<1>2. CASE Dag!Advance
  <2>1. DagIdle'
    BY <1>2, DagCalls, DagKept DEF DagIdle, DagP!HNext, Dag!Advance
  <2> QED
    BY <1>2, <2>1 DEF Dag!Advance, Dag!Become, Dag!Do, Dag!AdvanceEntry, Dag!live
<1>3. CASE UNCHANGED dagVars /\ ~ \E d \in Node : pending[d] > 0
  <2>1. \A d \in Node : pending[d] = 0
    BY <1>1, <1>3 DEF DagP!TypeOK, DagP!State, DagP!live
  <2>2. UNCHANGED DagP!vars
    BY <1>3, <2>1, NothingBuffered DEF dagVars, DagP!vars
  <2> QED
    BY <1>3, <2>2, DagP!NextDagInv, DagSizes DEF DagIdle, dagVars
<1> QED
  BY <1>2, <1>3

\* A call that leaves the graph alone.
LEMMA DagAlone ==
  ASSUME DagIdle, UNCHANGED dagVars, InFlight' = InFlight
  PROVE  DagIdle'
<1>1. UNCHANGED DagP!vars
  BY DEF dagVars, DagP!vars
<1> QED
  BY <1>1, DagP!NextDagInv, DagSizes DEF DagIdle, dagVars

-----------------------------------------------------------------------------
\* Where a slot goes, and what it is.
Unit == Pool!Engine \cup {"debug"}
SlotType == [node : Node, lane : (0 .. VLEN - 1) \cup {All}]

\* The units of a cycle: what they are given, and an engine with no slot left
\* has emitted one.
LEMMA PoolFacts ==
  ASSUME PoolIdle
  PROVE  /\ bundle \in [Unit -> Seq(SlotType)] /\ offered \subseteq Node
         /\ lanesDone \in [Node -> Nat]
         /\ \A n \in Node : lanesDone[n] <= Pool!LanesTotal(n) /\ Pool!LanesTotal(n) \in Nat
         /\ \A e \in Pool!Engine : free[e] \in Nat /\ (~dry /\ free[e] = 0 => Len(bundle[e]) > 0)
<1>1. /\ bundle \in [Unit -> Seq(SlotType)] /\ offered \subseteq Node
      /\ lanesDone \in [Node -> Nat] /\ \A n \in Node : lanesDone[n] <= Pool!LanesTotal(n)
      /\ \A e \in Pool!Engine : free[e] \in Nat
  BY DEF PoolIdle, PoolP!TypeOK, PoolP!progress, PoolP!ProgressType, PoolP!SlotType, PoolP!Lane,
         Unit, SlotType, Pool!Engine, PoolP!Engine, PoolP!All, All, Pool!LanesTotal, PoolP!LanesTotal
<1>2. \A n \in Node : Pool!LanesTotal(n) \in Nat
  BY PoolSizes DEF Pool!LanesTotal
<1>3. ASSUME NEW e \in Pool!Engine, ~dry, free[e] = 0 PROVE Len(bundle[e]) > 0
  BY <1>3, PoolSizes DEF PoolIdle, PoolP!BudgetExact, Pool!Engine, PoolP!Engine
<1> QED
  BY <1>1, <1>2, <1>3

\* Slots added to an engine are added to the bundle.
LEMMA SlotsEmitted ==
  ASSUME bundle \in [Unit -> Seq(SlotType)], NEW e \in Unit, NEW slots \in Seq(SlotType),
         bundle' = [bundle EXCEPT ![e] = bundle[e] \o slots]
  PROVE  Emitted' = Emitted \cup Range(slots)
<1>1. bundle[e] \in Seq(SlotType)
  OBVIOUS
<1>2. Range(bundle[e] \o slots) = Range(bundle[e]) \cup Range(slots)
  BY <1>1, RangeConcatenation
<1>3. \A d \in Unit : bundle'[d] = IF d = e THEN bundle[e] \o slots ELSE bundle[d]
  OBVIOUS
<1>4. DOMAIN bundle = Unit /\ DOMAIN bundle' = Unit
  OBVIOUS
<1> QED
  BY <1>2, <1>3, <1>4 DEF Emitted

\* What placing a node adds to the bundle: lanes J of it run.
Ran(n, J) ==
  /\ J \subseteq 0 .. VLEN - 1
  /\ EmittedRuns' = EmittedRuns \cup ({n} \X J)
  /\ LandedLanes(n)' \subseteq LandedLanes(n) \cup J
  /\ Emitted' # {}
  /\ \A slot \in Emitted' : \/ \E s \in Emitted : s.node = slot.node
                            \/ slot.node = n /\ (Kind[n] = "debug" \/ lanesDone'[n] > 0)

\* The lanes of an instruction.
LEMMA LaneFacts ==
  /\ VLEN \in Nat /\ VLEN > 0 /\ \A n : LanesOf(n) \subseteq 0 .. VLEN - 1 /\ 0 \in LanesOf(n)
  /\ \A n \in Node : Kind[n] = "vec_elem" => LanesOf(n) = 0 .. VLEN - 1
<1>1. VLEN \in Nat /\ VLEN > 0
  BY ProgramAssumption
<1> QED
  BY <1>1, ProgramAssumption DEF LanesOf, IsVector

\* The runs of the bundle once slots of a node are added to it.
LEMMA RunsAdded ==
  ASSUME NEW n, NEW S, Emitted' = Emitted \cup S, NEW J,
         UNION { {s.node} \X LanesRun(s) : s \in S } = {n} \X J
  PROVE  EmittedRuns' = EmittedRuns \cup ({n} \X J)
BY DEF EmittedRuns, LanesRun

\* A slot for all lanes of a node, and one slot for each of some lanes.
LEMMA WholeRuns ==
  ASSUME NEW n
  PROVE  /\ Range(<<Pool!Slot(n, All)>>) = {Pool!Slot(n, All)}
         /\ UNION { {s.node} \X LanesRun(s) : s \in {Pool!Slot(n, All)} } = {n} \X LanesOf(n)
BY DEF Range, Pool!Slot, LanesRun

\* One slot for each of some lanes runs those lanes.
LEMMA LaneRuns ==
  ASSUME NEW n \in Node, NEW from \in Nat, NEW count \in Nat, from + count <= VLEN
  PROVE  LET slots == Pool!Lanes(n, from, count)
         IN  /\ slots \in Seq(SlotType)
             /\ \A s \in Range(slots) : s.node = n
             /\ UNION { {s.node} \X LanesRun(s) : s \in Range(slots) } = {n} \X (from .. from + count - 1)
             /\ count > 0 => Range(slots) # {}
<1> DEFINE slots == Pool!Lanes(n, from, count)
<1>1. \A k \in 1 .. count : Pool!Slot(n, from + k - 1) \in SlotType
  BY LaneFacts DEF Pool!Slot, SlotType
<1>2. slots \in Seq(SlotType) /\ DOMAIN slots = 1 .. count
      /\ \A k \in 1 .. count : slots[k] = Pool!Slot(n, from + k - 1)
  BY <1>1 DEF Pool!Lanes
<1>3. Range(slots) = { Pool!Slot(n, j) : j \in from .. from + count - 1 }
  <2> HIDE DEF slots
  <2>1. Range(slots) = { slots[k] : k \in 1 .. count }
    BY <1>2 DEF Range
  <2>2. ASSUME NEW k \in 1 .. count
        PROVE  \E j \in from .. from + count - 1 : slots[k] = Pool!Slot(n, j)
    <3>1. from + k - 1 \in from .. from + count - 1
      OBVIOUS
    <3> QED
      BY <1>2, <3>1
  <2>3. ASSUME NEW j \in from .. from + count - 1
        PROVE  \E k \in 1 .. count : Pool!Slot(n, j) = slots[k]
    <3>1. j - from + 1 \in 1 .. count /\ from + (j - from + 1) - 1 = j
      OBVIOUS
    <3>2. slots[j - from + 1] = Pool!Slot(n, from + (j - from + 1) - 1)
      BY <1>2, <3>1
    <3> QED
      BY <3>1, <3>2
  <2> QED
    BY <2>1, <2>2, <2>3
<1>4. \A j \in from .. from + count - 1 : Pool!Slot(n, j).node = n /\ LanesRun(Pool!Slot(n, j)) = {j}
  BY DEF Pool!Slot, LanesRun, All
<1>5. UNION { {s.node} \X LanesRun(s) : s \in Range(slots) } = {n} \X (from .. from + count - 1)
  BY <1>3, <1>4
<1>6. count > 0 => from \in from .. from + count - 1
  OBVIOUS
<1> HIDE DEF slots
<1>7. count > 0 => Range(slots) # {}
  BY <1>3, <1>6
<1> QED
  BY <1>2, <1>3, <1>4, <1>5, <1>7 DEF slots

-----------------------------------------------------------------------------
\* Slots of a node that were added to the bundle ran its lanes J.
LEMMA SlotsRan ==
  ASSUME PoolIdle, NEW n \in Node, NEW e \in Unit, NEW slots \in Seq(SlotType), Range(slots) # {},
         bundle' = [bundle EXCEPT ![e] = bundle[e] \o slots],
         \A s \in Range(slots) : s.node = n,
         NEW J, J \subseteq 0 .. VLEN - 1,
         UNION { {s.node} \X LanesRun(s) : s \in Range(slots) } = {n} \X J,
         LandedLanes(n)' \subseteq LandedLanes(n) \cup J,
         Kind[n] = "debug" \/ lanesDone'[n] > 0
  PROVE  Ran(n, J)
<1>1. Emitted' = Emitted \cup Range(slots)
  BY PoolFacts, SlotsEmitted
<1>2. EmittedRuns' = EmittedRuns \cup ({n} \X J)
  BY <1>1, RunsAdded
<1> QED
  BY <1>1, <1>2 DEF Ran

\* A node emitted in one slot.
LEMMA WholeRan ==
  ASSUME PoolIdle, NEW n \in Node, NEW e \in Unit,
         bundle' = [bundle EXCEPT ![e] = bundle[e] \o <<Pool!Slot(n, All)>>],
         LandedLanes(n)' \subseteq LandedLanes(n) \cup LanesOf(n),
         Kind[n] = "debug" \/ lanesDone'[n] > 0
  PROVE  Ran(n, LanesOf(n))
<1> DEFINE slots == <<Pool!Slot(n, All)>>
<1>1. slots \in Seq(SlotType)
  BY DEF Pool!Slot, SlotType
<1>2. Range(slots) = {Pool!Slot(n, All)} /\ Pool!Slot(n, All).node = n
      /\ UNION { {s.node} \X LanesRun(s) : s \in {Pool!Slot(n, All)} } = {n} \X LanesOf(n)
  BY WholeRuns DEF Pool!Slot
<1>3. LanesOf(n) \subseteq 0 .. VLEN - 1
  BY LaneFacts
<1> HIDE DEF slots
<1>4. bundle' = [bundle EXCEPT ![e] = bundle[e] \o slots]
  BY DEF slots
<1>5. Range(slots) # {} /\ \A s \in Range(slots) : s.node = n
  BY <1>2
<1>6. UNION { {s.node} \X LanesRun(s) : s \in Range(slots) } = {n} \X LanesOf(n)
  BY <1>2
<1> QED
  BY <1>1, <1>3, <1>4, <1>5, <1>6, SlotsRan

\* A node some lanes of which were emitted one by one.
LEMMA LanesRan ==
  ASSUME PoolIdle, NEW n \in Node, NEW e \in Unit, NEW count \in Nat, count > 0,
         Kind[n] \in {"gather", "vec_elem"},
         lanesDone[n] + count <= VLEN,
         bundle' = [bundle EXCEPT ![e] = bundle[e] \o Pool!Lanes(n, lanesDone[n], count)],
         lanesDone'[n] = lanesDone[n] + count
  PROVE  Ran(n, lanesDone[n] .. lanesDone[n] + count - 1)
<1> DEFINE slots == Pool!Lanes(n, lanesDone[n], count)
           J == lanesDone[n] .. lanesDone[n] + count - 1
<1>1. lanesDone[n] \in Nat /\ VLEN \in Nat
  BY PoolFacts, LaneFacts
<1>2. /\ slots \in Seq(SlotType) /\ \A s \in Range(slots) : s.node = n
      /\ UNION { {s.node} \X LanesRun(s) : s \in Range(slots) } = {n} \X J
      /\ Range(slots) # {}
  BY <1>1, LaneRuns
<1>3. J \subseteq 0 .. VLEN - 1 /\ LandedLanes(n)' \subseteq LandedLanes(n) \cup J
  BY <1>1 DEF LandedLanes
<1>4. bundle' = [bundle EXCEPT ![e] = bundle[e] \o slots]
  OBVIOUS
<1>5. lanesDone'[n] > 0
  BY <1>1
<1> HIDE DEF slots, J
<1>6. Ran(n, J)
  BY <1>2, <1>3, <1>4, <1>5, SlotsRan
<1> QED
  BY <1>6 DEF J

\* A node that was refused found an engine full.
LEMMA RefusedRan ==
  ASSUME PoolIdle, ~dry, NEW n \in Node, NEW e \in Pool!Engine, free[e] = 0,
         UNCHANGED <<bundle, lanesDone>>
  PROVE  Ran(n, {})
<1>1. bundle[e] \in Seq(SlotType) /\ Len(bundle[e]) > 0
  BY PoolFacts DEF Unit
<1>2. bundle[e][1] \in Range(bundle[e])
  BY <1>1 DEF Range
<1>3. Emitted # {}
  BY <1>2, PoolFacts DEF Emitted, Unit
<1>4. Emitted' = Emitted /\ EmittedRuns' = EmittedRuns
  BY DEF Emitted, EmittedRuns, LanesRun
<1> QED
  BY <1>3, <1>4 DEF Ran, LandedLanes

\* The members of a sequence that an entry is removed from.
LEMMA RangeRemoved ==
  ASSUME NEW S, NEW q \in Seq(S), NEW i \in 1 .. Len(q)
  PROVE  /\ RemoveAt(q, i) \in Seq(S)
         /\ Range(q) = Range(RemoveAt(q, i)) \cup {q[i]}
<1> DEFINE r == RemoveAt(q, i)
<1>1. /\ r \in Seq(S) /\ Len(r) = Len(q) - 1
      /\ \A j \in 1 .. i - 1 : r[j] = q[j]
      /\ \A j \in i .. Len(q) - 1 : r[j] = q[j + 1]
  <2>1. RemoveAt(q, i) = PoolP!RemoveAt(q, i)
    BY DEF RemoveAt, PoolP!RemoveAt
  <2> DEFINE p == PoolP!RemoveAt(q, i)
  <2>2. /\ p \in Seq(S) /\ Len(p) = Len(q) - 1
        /\ \A j \in 1 .. i - 1 : p[j] = q[j]
        /\ \A j \in i .. Len(q) - 1 : p[j] = q[j + 1]
    BY PoolP!RemoveAtProperties, PoolSizes
  <2> QED
    BY <2>1, <2>2
<1> HIDE DEF r
<1>2. Len(q) \in Nat /\ i \in Nat
  OBVIOUS
<1>3. Range(q) = { q[k] : k \in 1 .. Len(q) } /\ Range(r) = { r[k] : k \in 1 .. Len(q) - 1 }
  BY <1>1, RangeEquality
<1>4. ASSUME NEW k \in 1 .. Len(q), k # i
      PROVE  \E j \in 1 .. Len(q) - 1 : r[j] = q[k]
  <2>1. CASE k < i
    <3>1. k \in 1 .. i - 1 /\ k \in 1 .. Len(q) - 1
      BY <1>2, <2>1
    <3> QED
      BY <1>1, <3>1
  <2>2. CASE k > i
    <3>1. k - 1 \in i .. Len(q) - 1 /\ k - 1 \in 1 .. Len(q) - 1 /\ k - 1 + 1 = k
      BY <1>2, <2>2
    <3>2. r[k - 1] = q[k - 1 + 1]
      BY <1>1, <3>1
    <3> QED
      BY <3>1, <3>2
  <2> QED
    BY <1>2, <1>4, <2>1, <2>2
<1>5. ASSUME NEW j \in 1 .. Len(q) - 1
      PROVE  \E k \in 1 .. Len(q) : r[j] = q[k]
  <2>1. CASE j < i
    <3>1. j \in 1 .. i - 1 /\ j \in 1 .. Len(q)
      BY <1>2, <2>1
    <3> QED
      BY <1>1, <3>1
  <2>2. CASE j >= i
    <3>1. j \in i .. Len(q) - 1 /\ j + 1 \in 1 .. Len(q)
      BY <1>2, <2>2
    <3> QED
      BY <1>1, <3>1
  <2> QED
    BY <1>2, <2>1, <2>2
<1>6. ASSUME NEW x \in Range(q) PROVE x \in Range(r) \cup {q[i]}
  <2>1. PICK k \in 1 .. Len(q) : x = q[k]
    BY <1>3
  <2>2. CASE k = i
    BY <2>1, <2>2
  <2>3. CASE k # i
    BY <1>3, <1>4, <2>1, <2>3
  <2> QED
    BY <2>2, <2>3
<1>7. ASSUME NEW x \in Range(r) \cup {q[i]} PROVE x \in Range(q)
  BY <1>3, <1>5
<1> QED
  BY <1>1, <1>6, <1>7 DEF r

\* What the slots of a set run.
Runs(S) == UNION { {s.node} \X LanesRun(s) : s \in S }

\* What two sets of slots run together.
LEMMA RunsUnion ==
  ASSUME NEW S, NEW T
  PROVE  Runs(S \cup T) = Runs(S) \cup Runs(T)
BY DEF Runs

\* An eviction moves a node's lanes to another engine and adds those of the
\* newcomer.
LEMMA EvictedRan ==
  ASSUME PoolIdle, ~dry, NEW n \in Node, Pool!Offer(n), Pool!PlaceByEviction(n)
  PROVE  Ran(n, LanesOf(n))
<1> DEFINE v == PoolP!Victim.node  i == PoolP!Victim.idx
           V == Pool!Slot(v, All)  N == Pool!Slot(n, All)
           lanes == Pool!Lanes(v, 0, VLEN)
<1>1. PoolP!Offer(n) /\ PoolP!PlaceByEviction(n) /\ PoolP!TypeOK /\ PoolP!EvictionIndexValid /\ ~dry
  BY PoolCalls DEF PoolIdle
<1>2. /\ v \in Node /\ v # n /\ Kind[v] = "vec_elem"
      /\ i \in 1 .. Len(bundle["valu"]) /\ bundle["valu"][i] = V
  <2>1. /\ v \in Node /\ v # n /\ i \in 1 .. Len(bundle["valu"])
        /\ bundle["valu"][i] = PoolP!Slot(v, PoolP!All)
    BY <1>1, PoolP!EvictionFacts, PoolSizes
  <2>2. Kind[v] = "vec_elem"
    <3> DEFINE Elem == [node : PoolP!VecElem, idx : Int]
    <3>1. Len(valuElems) \in Nat \ {0} /\ valuElems \in Seq(Elem)
      BY <1>1, PoolP!EvictionFacts, PoolSizes DEF PoolP!TypeOK
    <3> HIDE DEF Elem
    <3>2. valuElems[Len(valuElems)] \in Elem
      BY <3>1, ElementOfSeq
    <3> USE DEF Elem
    <3> QED
      BY <3>2 DEF PoolP!Victim, PoolP!LastPlaced, PoolP!VecElem
  <2> QED
    BY <2>1, <2>2 DEF PoolP!Slot, Pool!Slot, PoolP!All, All
<1>3. /\ bundle' \in [Unit -> Seq(SlotType)]
      /\ bundle'["valu"] = Append(RemoveAt(bundle["valu"], i), N)
      /\ bundle'["alu"] = bundle["alu"] \o lanes
      /\ \A e \in Unit \ {"alu", "valu"} : bundle'[e] = bundle[e]
  BY <1>1, PoolP!EvictionBundle, PoolSizes
  DEF PoolP!Slot, Pool!Slot, PoolP!All, All, PoolP!RemoveAt, RemoveAt, PoolP!Lanes, Pool!Lanes,
      Unit, SlotType, PoolP!SlotType, PoolP!Lane, PoolP!Engine, Pool!Engine
<1>4. /\ bundle \in [Unit -> Seq(SlotType)] /\ "valu" \in Unit /\ "alu" \in Unit
      /\ Kind[n] = "vec_fma" /\ lanesDone' = [lanesDone EXCEPT ![n] = 1]
      /\ lanesDone \in [Node -> Nat]
  BY PoolFacts DEF Unit, Pool!Engine, Pool!PlaceByEviction
<1>5. /\ lanes \in Seq(SlotType) /\ \A s \in Range(lanes) : s.node = v
      /\ Runs(Range(lanes)) = {v} \X (0 .. VLEN - 1)
  <2>1. v \in Node /\ 0 \in Nat /\ VLEN \in Nat /\ 0 + VLEN <= VLEN /\ 0 + VLEN - 1 = VLEN - 1
    BY <1>2, LaneFacts
  <2> HIDE DEF v, lanes
  <2>2. /\ lanes \in Seq(SlotType) /\ \A s \in Range(lanes) : s.node = v
        /\ UNION { {s.node} \X LanesRun(s) : s \in Range(lanes) } = {v} \X (0 .. 0 + VLEN - 1)
    BY <2>1, LaneRuns DEF lanes
  <2> QED
    BY <2>1, <2>2 DEF Runs
<1>6. Runs({V}) = {v} \X (0 .. VLEN - 1) /\ Runs({N}) = {n} \X LanesOf(n)
  BY <1>2, LaneFacts, WholeRuns DEF Runs
<1>7. V.node = v /\ N.node = n /\ N \in SlotType
  BY DEF Pool!Slot, SlotType
<1> HIDE DEF v, i, V, N, lanes
<1> DEFINE kept == Range(RemoveAt(bundle["valu"], i))
           rest == UNION { Range(bundle[e]) : e \in Unit \ {"alu", "valu"} }
<1>8. RemoveAt(bundle["valu"], i) \in Seq(SlotType) /\ Range(bundle["valu"]) = kept \cup {V}
  <2>1. bundle["valu"] \in Seq(SlotType)
    BY <1>4
  <2> QED
    BY <1>2, <2>1, RangeRemoved
<1>9. Range(bundle'["valu"]) = kept \cup {N}
  <2>1. PICK r \in Seq(SlotType) : r = RemoveAt(bundle["valu"], i)
    BY <1>8
  <2>2. <<N>> \in Seq(SlotType) /\ Range(<<N>>) = {N}
    BY <1>7 DEF Range
  <2>3. Append(r, N) = r \o <<N>>
    BY <1>7, <2>1
  <2>4. Range(r \o <<N>>) = Range(r) \cup {N}
    <3> DEFINE o == <<N>>
    <3> HIDE DEF o
    <3>1. o \in Seq(SlotType) /\ Range(o) = {N}
      BY <2>2 DEF o
    <3>2. Range(r \o o) = Range(r) \cup {N}
      BY <2>1, <3>1, RangeConcatenation
    <3> QED
      BY <3>2 DEF o
  <2> QED
    BY <1>3, <2>1, <2>3, <2>4
<1>10. Range(bundle'["alu"]) = Range(bundle["alu"]) \cup Range(lanes)
  <2>1. bundle["alu"] \in Seq(SlotType)
    BY <1>4
  <2> QED
    BY <1>3, <1>5, <2>1, RangeConcatenation
<1>11. Emitted = rest \cup Range(bundle["alu"]) \cup (kept \cup {V})
  BY <1>4, <1>8 DEF Emitted
<1>12. Emitted' = rest \cup (Range(bundle["alu"]) \cup Range(lanes)) \cup (kept \cup {N})
  <2>1. Emitted' = UNION { Range(bundle'[e]) : e \in Unit }
    BY <1>3 DEF Emitted
  <2>2. \A e \in Unit \ {"alu", "valu"} : Range(bundle'[e]) = Range(bundle[e])
    BY <1>3
  <2> HIDE DEF kept
  <2> QED
    BY <1>4, <1>9, <1>10, <2>1, <2>2
<1> HIDE DEF kept, rest
<1>13. EmittedRuns = Runs(Emitted) /\ EmittedRuns' = Runs(Emitted')
  BY DEF EmittedRuns, Runs, LanesRun
<1>14. EmittedRuns' = EmittedRuns \cup ({n} \X LanesOf(n))
  <2>1. /\ Runs(Emitted) = Runs(rest) \cup Runs(Range(bundle["alu"])) \cup (Runs(kept) \cup Runs({V}))
        /\ Runs(Emitted') = Runs(rest) \cup (Runs(Range(bundle["alu"])) \cup Runs(Range(lanes)))
                               \cup (Runs(kept) \cup Runs({N}))
    <3> DEFINE alu == Range(bundle["alu"])  more == Range(lanes)
    <3> HIDE DEF alu, more
    <3>1. Runs(kept \cup {V}) = Runs(kept) \cup Runs({V}) /\ Runs(kept \cup {N}) = Runs(kept) \cup Runs({N})
      BY RunsUnion
    <3>2. Runs(alu \cup more) = Runs(alu) \cup Runs(more) /\ Runs(rest \cup alu) = Runs(rest) \cup Runs(alu)
      BY RunsUnion
    <3>3. Runs(rest \cup (alu \cup more)) = Runs(rest) \cup Runs(alu \cup more)
      BY RunsUnion
    <3>4. /\ Runs((rest \cup alu) \cup (kept \cup {V})) = Runs(rest \cup alu) \cup Runs(kept \cup {V})
          /\ Runs((rest \cup (alu \cup more)) \cup (kept \cup {N}))
               = Runs(rest \cup (alu \cup more)) \cup Runs(kept \cup {N})
      BY RunsUnion
    <3>5. Emitted = (rest \cup alu) \cup (kept \cup {V})
          /\ Emitted' = (rest \cup (alu \cup more)) \cup (kept \cup {N})
      BY <1>11, <1>12 DEF alu, more
    <3>6. /\ Runs(Emitted) = Runs(rest) \cup Runs(alu) \cup (Runs(kept) \cup Runs({V}))
          /\ Runs(Emitted') = Runs(rest) \cup (Runs(alu) \cup Runs(more)) \cup (Runs(kept) \cup Runs({N}))
      BY <3>1, <3>2, <3>3, <3>4, <3>5
    <3> QED
      BY <3>6 DEF alu, more
  <2> QED
    BY <1>5, <1>6, <1>13, <2>1
<1>15. LanesOf(n) \subseteq 0 .. VLEN - 1
  BY LaneFacts
<1>16. LandedLanes(n)' \subseteq LandedLanes(n) \cup LanesOf(n) /\ lanesDone'[n] > 0
  BY <1>4 DEF LandedLanes
<1> QED
  BY <1>5, <1>7, <1>11, <1>12, <1>14, <1>15, <1>16 DEF Ran

\* place() offers the node once; what it emits are lanes of the node that land
\* with it, and in every case the cycle has emitted something by then.
LEMMA PlaceRan ==
  ASSUME PoolIdle, ~dry, NEW n \in Node, Pool!Place(n)
  PROVE  \E J : Ran(n, J)
<1> USE DEF Pool!Emit, Unit, Pool!Engine, Pool!All, All
<1>1. /\ Pool!Offer(n) /\ ~dry /\ lanesDone \in [Node -> Nat] /\ VLEN \in Nat /\ VLEN > 0
      /\ lanesDone[n] <= Pool!LanesTotal(n)
      /\ Kind[n] = "debug" \/ lanesDone[n] # Pool!LanesTotal(n)
      /\ \A e \in Pool!Engine : free[e] \in Nat
      /\ Kind[n] \in Pool!Kinds
  BY PoolFacts, LaneFacts, SizesAssumption DEF PoolIdle, Pool!Place, Pool!Offer, Pool!Complete
<1>2. CASE Pool!PlaceOnValu(n)
  <2>1. /\ bundle' = [bundle EXCEPT !["valu"] = bundle["valu"] \o <<Pool!Slot(n, All)>>]
        /\ lanesDone'[n] = VLEN /\ Kind[n] = "vec_elem"
    BY <1>1, <1>2 DEF Pool!PlaceOnValu, Pool!Land
  <2>2. LandedLanes(n)' \subseteq LandedLanes(n) \cup LanesOf(n)
    BY <2>1, LaneFacts DEF LandedLanes
  <2> QED
    BY <1>1, <2>1, <2>2, WholeRan
<1>3. CASE Pool!Spill(n)
  <2> DEFINE take == Pool!Lesser(VLEN - lanesDone[n], free["alu"])
  <2>1. Kind[n] = "vec_elem" /\ Pool!LanesTotal(n) = VLEN /\ free["alu"] \in Nat
    BY <1>1, <1>3 DEF Pool!Spill, Pool!LanesTotal
  <2>2. take \in Nat /\ lanesDone[n] + take <= VLEN /\ (take = 0 => free["alu"] = 0)
    BY <1>1, <2>1 DEF Pool!Lesser
  <2>5. \/ take = 0 /\ Pool!Refused
        \/ take > 0 /\ Pool!Emit("alu", Pool!Lanes(n, lanesDone[n], take)) /\ Pool!Land(n, lanesDone[n] + take, "alu")
    BY <1>3 DEF Pool!Spill
  <2>3. CASE take = 0
    <3>1. UNCHANGED <<bundle, lanesDone>>
      <4> HIDE DEF take
      <4> QED
        BY <2>3, <2>5 DEF Pool!Refused
    <3> QED
      BY <2>2, <2>3, <3>1, RefusedRan
  <2>4. CASE take > 0
    <3>1. /\ bundle' = [bundle EXCEPT !["alu"] = bundle["alu"] \o Pool!Lanes(n, lanesDone[n], take)]
          /\ lanesDone'[n] = lanesDone[n] + take
      <4> HIDE DEF take
      <4> QED
        BY <1>1, <2>2, <2>4, <2>5 DEF Pool!Land
    <3> HIDE DEF take
    <3> QED
      BY <2>1, <2>2, <2>4, <3>1, LanesRan
  <2> QED
    BY <2>2, <2>3, <2>4
<1>4. CASE Pool!PlaceWhole(n)
  <2> DEFINE e == Pool!Native(n)
  <2>1. e \in Pool!Engine
    BY <1>1, <1>4 DEF Pool!PlaceWhole, Pool!Whole, Pool!Native, Pool!Kinds
  <2>2. /\ bundle' = [bundle EXCEPT ![e] = bundle[e] \o <<Pool!Slot(n, All)>>]
        /\ lanesDone'[n] = 1 /\ Kind[n] \notin {"vec_elem", "gather"}
    BY <1>1, <1>4 DEF Pool!PlaceWhole, Pool!Land, Pool!Whole
  <2>3. LandedLanes(n)' \subseteq LandedLanes(n) \cup LanesOf(n) /\ lanesDone'[n] > 0
    BY <2>2 DEF LandedLanes
  <2> HIDE DEF e
  <2> QED
    BY <2>1, <2>2, <2>3, WholeRan
<1>5. CASE Pool!PlaceByEviction(n)
  BY <1>1, <1>5, EvictedRan
<1>6. CASE Pool!RefuseWhole(n)
  <2>1. Pool!Native(n) \in Pool!Engine /\ free[Pool!Native(n)] = 0 /\ UNCHANGED <<bundle, lanesDone>>
    BY <1>1, <1>6 DEF Pool!RefuseWhole, Pool!Whole, Pool!Native, Pool!Refused, Pool!Kinds
  <2> QED
    BY <2>1, RefusedRan
<1>7. CASE Pool!PlaceGather(n)
  <2> DEFINE take == Pool!Lesser(VLEN - lanesDone[n], free["load"])
  <2>1. Kind[n] = "gather" /\ Pool!LanesTotal(n) = VLEN /\ free["load"] \in Nat
    BY <1>1, <1>7 DEF Pool!PlaceGather, Pool!LanesTotal
  <2>2. take \in Nat /\ lanesDone[n] + take <= VLEN /\ (take = 0 => free["load"] = 0)
    BY <1>1, <2>1 DEF Pool!Lesser
  <2>5. \/ take = 0 /\ Pool!Refused
        \/ take > 0 /\ Pool!Emit("load", Pool!Lanes(n, lanesDone[n], take)) /\ lanesDone' = [lanesDone EXCEPT ![n] = lanesDone[n] + take]
    BY <1>7 DEF Pool!PlaceGather
  <2>3. CASE take = 0
    <3>1. UNCHANGED <<bundle, lanesDone>>
      <4> HIDE DEF take
      <4> QED
        BY <2>3, <2>5 DEF Pool!Refused
    <3> QED
      BY <2>2, <2>3, <3>1, RefusedRan
  <2>4. CASE take > 0
    <3>1. /\ bundle' = [bundle EXCEPT !["load"] = bundle["load"] \o Pool!Lanes(n, lanesDone[n], take)]
          /\ lanesDone'[n] = lanesDone[n] + take
      <4> HIDE DEF take
      <4> QED
        BY <1>1, <2>2, <2>4, <2>5 DEF Pool!Land
    <3> HIDE DEF take
    <3> QED
      BY <2>1, <2>2, <2>4, <3>1, LanesRan
  <2> QED
    BY <2>2, <2>3, <2>4
<1>8. CASE Pool!PlaceDebug(n)
  <2>1. /\ bundle' = [bundle EXCEPT !["debug"] = bundle["debug"] \o <<Pool!Slot(n, All)>>]
        /\ lanesDone' = lanesDone /\ Kind[n] = "debug"
    BY <1>1, <1>8 DEF Pool!PlaceDebug
  <2>2. LandedLanes(n)' \subseteq LandedLanes(n) \cup LanesOf(n)
    BY <2>1 DEF LandedLanes
  <2> QED
    BY <2>1, <2>2, WholeRan
<1> QED
  BY <1>2, <1>3, <1>4, <1>5, <1>6, <1>7, <1>8 DEF Pool!Place

\* place() keeps the units in order and moves the progress of its node only.
LEMMA PlaceEffect ==
  ASSUME PoolIdle, ~dry, NEW n \in Node, Pool!Place(n)
  PROVE  /\ PoolIdle' /\ n \notin offered /\ offered' = offered \cup {n}
         /\ \A m \in Node \ {n} : lanesDone'[m] = lanesDone[m] /\ LandedLanes(m)' = LandedLanes(m)
<1>1. /\ PoolP!TypeOK /\ PoolP!Modes /\ PoolP!BudgetExact /\ PoolP!IndicesGrow
      /\ PoolP!EvictionIndexValid /\ ~poolRecording /\ ~dry /\ lanesDone \in [Node -> Nat]
  BY PoolFacts DEF PoolIdle
<1>2. PoolP!Place(n) /\ PoolP!Offer(n) /\ UNCHANGED <<dry, poolRecording, tokens>>
      /\ n \notin offered /\ offered' = offered \cup {n}
  BY PoolCalls DEF Pool!Place, Pool!Offer
<1>3. UNCHANGED <<NoLanes, << >> >>
  BY DEF NoLanes, Pool!LanesTotal
<1>4. CASE PoolP!Refused
  <2>1. UNCHANGED <<free, bundle, valuElems, lanesDone, choice, poolLog>>
    BY <1>4 DEF PoolP!Refused
  <2>2. PoolP!TypeOK' /\ PoolP!Modes'
    BY <1>1, <1>2, <1>3, <2>1 DEF PoolP!TypeOK, PoolP!Modes, PoolP!progress, PoolP!NoSlots
  <2>3. PoolP!BudgetExact' /\ PoolP!IndicesGrow' /\ PoolP!EvictionIndexValid'
    BY <1>1, <1>2, <2>1 DEF PoolP!BudgetExact, PoolP!IndicesGrow, PoolP!EvictionIndexValid
  <2> QED
    BY <1>1, <1>2, <2>1, <2>2, <2>3 DEF PoolIdle, LandedLanes
<1>5. CASE PoolP!Placed(n)
  <2>1. PoolP!TypeOK'
    BY <1>1, <1>2, <1>3, <1>5, PoolP!LandsType, PoolSizes
  <2>2. PoolP!Modes' /\ PoolP!BudgetExact'
    BY <1>1, <1>2, <1>5, PoolP!LandsModes, PoolP!LandsBudget, PoolSizes
  <2>3. PoolP!IndicesGrow' /\ PoolP!EvictionIndexValid'
    BY <1>1, <1>2, <1>5, PoolP!LandsIndices, PoolSizes
  <2>4. \A m \in Node \ {n} : lanesDone'[m] = lanesDone[m]
    BY <1>1, <1>5 DEF PoolP!Placed, PoolP!Lands
  <2> QED
    BY <1>1, <1>2, <2>1, <2>2, <2>3, <2>4 DEF PoolIdle, LandedLanes
<1>6. CASE PoolP!PlaceByEviction(n)
  <2>1. PoolP!TypeOK'
    BY <1>1, <1>2, <1>3, <1>6, PoolP!EvictionType, PoolSizes
  <2>2. PoolP!Modes' /\ PoolP!BudgetExact'
    BY <1>1, <1>2, <1>6, PoolP!EvictionModes, PoolP!EvictionBudget, PoolSizes
  <2>3. PoolP!IndicesGrow' /\ PoolP!EvictionIndexValid'
    BY <1>1, <1>2, <1>6, PoolP!EvictionIndices, PoolSizes
  <2>4. \A m \in Node \ {n} : lanesDone'[m] = lanesDone[m]
    BY <1>1, <1>6 DEF PoolP!PlaceByEviction
  <2> QED
    BY <1>1, <1>2, <2>1, <2>2, <2>3, <2>4 DEF PoolIdle, LandedLanes
<1> QED
  BY <1>1, <1>2, <1>4, <1>5, <1>6, PoolP!PlaceCases, PoolSizes

\* The start of a cycle empties the bundle and keeps the progress.
LEMMA StartEffect ==
  ASSUME PoolIdle, Pool!NewCycle(FALSE)
  PROVE  PoolIdle' /\ Emitted' = {} /\ EmittedRuns' = {} /\ offered' = {} /\ lanesDone' = lanesDone
<1>1. /\ PoolP!TypeOK /\ PoolP!Modes /\ ~poolRecording
      /\ free' = Capacity /\ bundle' = PoolP!NoSlots /\ valuElems' = << >> /\ offered' = {} /\ dry' = FALSE
      /\ UNCHANGED <<lanesDone, choice, poolRecording, poolLog, tokens>>
  BY PoolCalls DEF PoolIdle, PoolP!NewCycle
<1>2. UNCHANGED <<NoLanes, << >> >>
  BY DEF NoLanes, Pool!LanesTotal
<1>3. /\ PoolP!NoSlots \in [PoolP!Engine \cup {"debug"} -> Seq(PoolP!SlotType)]
      /\ \A e \in PoolP!Engine : PoolP!NoSlots[e] = << >>
  BY PoolP!NoSlotsType, PoolSizes
<1>4. free' \in [PoolP!Engine -> Nat]
  BY <1>1, PoolSizes
<1>5. PoolP!TypeOK'
  <2>1. bundle' \in [PoolP!Engine \cup {"debug"} -> Seq(PoolP!SlotType)]
    BY <1>1, <1>3
  <2>4. \A S : << >> \in Seq(S)
    OBVIOUS
  <2>2. valuElems' \in Seq([node : PoolP!VecElem, idx : Int]) /\ offered' \subseteq Node /\ dry' \in BOOLEAN
    <3> DEFINE Elem == [node : PoolP!VecElem, idx : Int]
    <3> HIDE DEF Elem
    <3>1. valuElems' \in Seq(Elem) /\ offered' \subseteq Node /\ dry' \in BOOLEAN
      BY <1>1, <2>4
    <3> QED
      BY <3>1 DEF Elem
  <2>3. /\ PoolP!progress' \in PoolP!ProgressType /\ poolRecording' \in BOOLEAN
        /\ poolLog' \in Seq(PoolP!EntryType) /\ tokens' \subseteq 0 .. Len(poolLog')
        /\ NoLanes' \in [PoolP!NodeLanes -> Nat] /\ << >>' \in [tokens' -> PoolP!ProgressType]
    BY <1>1, <1>2 DEF PoolP!TypeOK, PoolP!progress
  <2> QED
    BY <1>4, <2>1, <2>2, <2>3 DEF PoolP!TypeOK
<1>6. PoolP!Modes' /\ PoolP!IndicesGrow' /\ PoolP!EvictionIndexValid'
  <2>1. DOMAIN valuElems' = {}
    BY <1>1
  <2>2. /\ poolRecording \in BOOLEAN /\ (poolRecording <=> 0 \in tokens)
        /\ (~poolRecording => poolLog = << >>)
    BY <1>1 DEF PoolP!Modes, PoolP!TypeOK
  <2>3. PoolP!Modes'
    BY <1>1, <2>2 DEF PoolP!Modes
  <2> QED
    BY <2>1, <2>3 DEF PoolP!IndicesGrow, PoolP!EvictionIndexValid
<1>7. PoolP!BudgetExact'
  BY <1>1, <1>3, PoolSizes DEF PoolP!BudgetExact
<1>8. Emitted' = {}
  BY <1>1 DEF Emitted, PoolP!NoSlots, Range
<1> QED
  BY <1>1, <1>5, <1>6, <1>7, <1>8 DEF PoolIdle, EmittedRuns

\* A call that leaves the units alone.
LEMMA PoolAlone ==
  ASSUME PoolIdle, UNCHANGED poolVars, InCycle' => InCycle
  PROVE  PoolIdle' /\ Emitted' = Emitted /\ EmittedRuns' = EmittedRuns
         /\ \A n \in Node : LandedLanes(n)' = LandedLanes(n)
<1>1. UNCHANGED <<NoLanes, << >> >>
  BY DEF NoLanes, Pool!LanesTotal
<1>2. /\ PoolP!TypeOK' /\ PoolP!Modes' /\ PoolP!BudgetExact' /\ PoolP!IndicesGrow'
      /\ PoolP!EvictionIndexValid'
  BY <1>1 DEF PoolIdle, poolVars, PoolP!TypeOK, PoolP!progress, PoolP!Modes, PoolP!NoSlots,
      PoolP!BudgetExact, PoolP!IndicesGrow, PoolP!EvictionIndexValid
<1> QED
  BY <1>2 DEF PoolIdle, poolVars, Emitted, EmittedRuns, LandedLanes, LanesRun

-----------------------------------------------------------------------------
\* A tag has one writer, from which the graph has an edge to each reader.
LEMMA Writers ==
  /\ \A m, n \in Node : \A t \in Dest(m) \cap Dest(n) : m = n
  /\ \A n \in Node : \A t \in TagsRead(n) :
       \E m \in Node : t \in Dest(m) /\ m < n /\ <<m, n>> \in Graph.raw /\ HasReader(m)
  /\ \A m \in Node : \A t \in Dest(m) : \A o \in ReadersOf(t) :
       o[1] \in Node /\ <<m, o[1]>> \in Graph.raw
<1>1. \A m, n \in Node : \A t \in Dest(m) \cap Dest(n) : m = n
  BY ProgramAssumption
<1>2. ASSUME NEW n \in Node, NEW t \in TagsRead(n)
      PROVE  \E m \in Node : t \in Dest(m) /\ m < n /\ <<m, n>> \in Graph.raw /\ HasReader(m)
  <2>1. PICK m \in 1 .. n - 1 : t \in Dest(m)
    BY ProgramAssumption
  <2>2. m \in Node /\ m < n
    BY <2>1, ProgramFacts
  <2>3. <<m, n>> \in Graph.raw
    BY <2>1, <2>2 DEF Graph
  <2> QED
    BY <2>1, <2>2, <2>3 DEF HasReader
<1>3. ASSUME NEW m \in Node, NEW t \in Dest(m), NEW o \in ReadersOf(t)
      PROVE  o[1] \in Node /\ <<m, o[1]>> \in Graph.raw
  <2>1. o[1] \in Node /\ o[2] \in DOMAIN Reads(o[1]) /\ Reads(o[1])[o[2]].tag = t
    BY DEF ReadersOf, Operands
  <2>2. t \in TagsRead(o[1])
    BY <2>1 DEF TagsRead
  <2>3. PICK k \in Node : t \in Dest(k) /\ <<k, o[1]>> \in Graph.raw
    BY <1>2, <2>1, <2>2
  <2> QED
    BY <1>1, <2>1, <2>3
<1> QED
  BY <1>1, <1>2, <1>3

\* An instruction writes one tag at most.
LEMMA DestOne ==
  ASSUME NEW n \in Node, NEW t \in Dest(n)
  PROVE  Dest(n) = {t}
BY ProgramAssumption

\* The lanes an instruction reads and writes are lanes of registers.
LEMMA LanesReadWritten ==
  ASSUME NEW n \in Node, NEW j \in 0 .. VLEN - 1
  PROVE  /\ \A v \in LanesRead(n, j) : /\ \E k \in DOMAIN Reads(n) : Reads(n)[k].tag = v.tag
                                       /\ v.lane \in FootLanes(v.tag)
                                       /\ v = [tag |-> v.tag, lane |-> v.lane]
         /\ \A v \in LanesWritten(n, j) : /\ v.tag \in Dest(n) /\ v.lane \in FootLanes(v.tag)
                                          /\ v = [tag |-> v.tag, lane |-> v.lane]
<1>1. ASSUME NEW v \in LanesRead(n, j)
      PROVE  /\ \E k \in DOMAIN Reads(n) : Reads(n)[k].tag = v.tag
             /\ v.lane \in FootLanes(v.tag) /\ v = [tag |-> v.tag, lane |-> v.lane]
  <2>1. PICK k \in DOMAIN Reads(n) : v = LaneRead(Reads(n)[k], j)
    BY DEF LanesRead
  <2>2. Reads(n)[k] \in Operand
    <3>1. Reads(n) \in Seq(Operand) /\ k \in 1 .. Len(Reads(n))
      BY ProgramFacts
    <3> QED
      BY <3>1, ElementOfSeq
  <2> DEFINE o == Reads(n)[k]
  <2>3. o.tag \in Tag /\ o.lane \in {All} \cup 0 .. VLEN - 1
    BY <2>2 DEF Operand
  <2> HIDE DEF o
  <2>4. v = [tag |-> o.tag, lane |-> IF o.tag \in ScalarTag THEN 0 ELSE IF o.lane = All THEN j ELSE o.lane]
    BY <2>1 DEF LaneRead, o
  <2>5. v.tag = o.tag /\ v.lane \in FootLanes(v.tag) /\ v = [tag |-> v.tag, lane |-> v.lane]
    BY <2>3, <2>4 DEF FootLanes
  <2> QED
    BY <2>5 DEF o
<1>2. ASSUME NEW v \in LanesWritten(n, j)
      PROVE  v.tag \in Dest(n) /\ v.lane \in FootLanes(v.tag) /\ v = [tag |-> v.tag, lane |-> v.lane]
  <2>1. PICK t \in Dest(n) : v = [tag |-> t, lane |-> IF t \in ScalarTag THEN 0 ELSE j]
    BY DEF LanesWritten
  <2> QED
    BY <2>1 DEF FootLanes
<1> QED
  BY <1>1, <1>2

\* A lane that has landed is a lane; a complete instruction has landed every
\* lane of the register it writes.
LEMMA LandedFacts ==
  ASSUME PoolIdle, NEW n \in Node
  PROVE  /\ LandedLanes(n) \subseteq 0 .. VLEN - 1
         /\ lanesDone[n] = 0 => LandedLanes(n) = {}
         /\ lanesDone[n] = Pool!LanesTotal(n) =>
              \A t \in Dest(n) : \A l \in FootLanes(t) :
                \E j \in LandedLanes(n) : [tag |-> t, lane |-> l] \in LanesWritten(n, j)
<1>1. /\ lanesDone[n] \in Nat /\ lanesDone[n] <= Pool!LanesTotal(n) /\ VLEN \in Nat /\ VLEN > 0
      /\ LanesOf(n) \subseteq 0 .. VLEN - 1 /\ 0 \in LanesOf(n)
  BY PoolFacts, LaneFacts
<1>2. LandedLanes(n) \subseteq 0 .. VLEN - 1 /\ (lanesDone[n] = 0 => LandedLanes(n) = {})
  BY <1>1 DEF LandedLanes, Pool!LanesTotal
<1>3. ASSUME lanesDone[n] = Pool!LanesTotal(n), NEW t \in Dest(n), NEW l \in FootLanes(t)
      PROVE  \E j \in LandedLanes(n) : [tag |-> t, lane |-> l] \in LanesWritten(n, j)
  <2>1. Kind[n] # "debug" /\ t \in Tag
    BY <1>3, ProgramAssumption, ProgramFacts
  <2>2. LandedLanes(n) = IF Kind[n] \in {"gather", "vec_elem"} THEN 0 .. VLEN - 1 ELSE LanesOf(n)
    BY <1>1, <1>3, <2>1 DEF LandedLanes, Pool!LanesTotal
  <2>3. CASE t \in ScalarTag
    <3>1. 0 \in LandedLanes(n)
      BY <1>1, <2>2
    <3>2. [tag |-> t, lane |-> l] \in LanesWritten(n, 0)
      BY <1>3, <2>3 DEF FootLanes, LanesWritten
    <3> QED
      BY <3>1, <3>2
  <2>4. CASE t \notin ScalarTag
    <3>1. LanesOf(n) = 0 .. VLEN - 1
      BY <1>3, <2>1, <2>4 DEF LanesOf, IsVector, Tag
    <3>2. l \in LandedLanes(n)
      BY <1>3, <2>2, <2>4, <3>1 DEF FootLanes
    <3>3. [tag |-> t, lane |-> l] \in LanesWritten(n, l)
      BY <1>3, <2>4 DEF LanesWritten
    <3> QED
      BY <3>2, <3>3
  <2> QED
    BY <2>3, <2>4
<1> QED
  BY <1>2, <1>3

\* An operand whose read is still to come has a register, and its writer was
\* complete before the cycle began.
LEMMA OperandReady ==
  ASSUME RunnerInv, Filling, node \in frontier,
         NEW k \in DOMAIN Reads(node), ~Consumed(<<node, k>>)
  PROVE  /\ Reads(node)[k].tag \in DOMAIN assigned
         /\ \E m \in Node : /\ Reads(node)[k].tag \in Dest(m) /\ m \in committed /\ m \notin offered
                            /\ m # node /\ lanesDone[m] = Pool!LanesTotal(m)
<1> DEFINE t == Reads(node)[k].tag
<1>1. /\ node \in Node /\ node \notin committed /\ t \in TagsRead(node)
      /\ \A m \in Node : <<m, node>> \in Graph.raw => m \in committed \ InFlight
  BY DagFacts DEF RunnerInv, PartsOK, TagsRead
<1>2. <<node, k>> \in Unread(t)
  BY <1>1 DEF Unread, ReadersOf, Operands
<1> HIDE DEF t
<1>3. PICK m \in Node : t \in Dest(m) /\ <<m, node>> \in Graph.raw /\ HasReader(m)
  BY <1>1, Writers
<1>4. m \in committed /\ m \notin offered /\ m # node
  BY <1>1, <1>3 DEF InFlight, InCycle
<1>5. t \in DOMAIN assigned /\ lanesDone[m] = Pool!LanesTotal(m)
  BY <1>2, <1>3, <1>4 DEF RunnerInv, CountsOK, ProgressOK
<1> QED
  BY <1>3, <1>4, <1>5 DEF t

-----------------------------------------------------------------------------
\* What the scheduler is in between calls: the parts of the invariant that do
\* not say where it is.
TablesOK == PartsOK /\ ProgressOK /\ CountsOK /\ BundleOK /\ ScratchOK /\ ReadsOK

\* The parts that the proof of a step refers to.
LEMMA InvParts ==
  ASSUME RunnerInv
  PROVE  /\ TablesOK /\ DagIdle /\ RegIdle /\ PoolIdle
         /\ committed \subseteq Node /\ frontier \subseteq Node /\ offered \subseteq Node
         /\ DOMAIN assigned \subseteq Tag /\ DOMAIN remaining = DOMAIN assigned
<1>1. TablesOK /\ DagIdle /\ RegIdle /\ PoolIdle
  BY DEF RunnerInv, TablesOK, PartsOK
<1> QED
  BY <1>1, DagFacts, PoolFacts, LiveTags DEF RegIdle

\* A step that only moves the scheduler to another place of the same cycle.
LEMMA MoveStep ==
  ASSUME RunnerInv, UNCHANGED <<dagVars, regVars, poolVars, machineVars>>,
         InCycle' <=> InCycle, Filling' <=> Filling, at # "read", at' # "read"
  PROVE  TablesOK' /\ Emitted' = Emitted
<1>1. InFlight' = InFlight
  BY DEF InFlight, dagVars, poolVars
<1>2. PartsOK'
  BY <1>1, InvParts, DagAlone, RegAlone, PoolAlone DEF PartsOK
<1>3. /\ Emitted' = Emitted /\ EmittedRuns' = EmittedRuns
      /\ \A n \in Node : LandedLanes(n)' = LandedLanes(n)
  BY InvParts, PoolAlone
<1>4. UNCHANGED <<committed, frontier, readCount, assigned, remaining, lanesDone, offered, scratch, resolved>>
  BY DEF dagVars, regVars, poolVars, machineVars
<1>5. ProgressOK'
  BY <1>4 DEF RunnerInv, ProgressOK, Holds
<1>6. CountsOK'
  <2>1. \A t : Unread(t)' = Unread(t)
    BY <1>4 DEF Unread, Consumed
  <2> QED
    BY <1>4, <2>1 DEF RunnerInv, CountsOK
<1>7. BundleOK'
  BY <1>3, <1>4 DEF RunnerInv, BundleOK, Holds
<1>8. ScratchOK'
  BY <1>3, <1>4 DEF RunnerInv, ScratchOK
<1>9. ReadsOK'
  BY <1>3, <1>4 DEF RunnerInv, ReadsOK, SlotsReadRight, WordOf
<1> QED
  BY <1>2, <1>3, <1>5, <1>6, <1>7, <1>8, <1>9 DEF TablesOK

\* A ready node is taken.
LEMMA TakeStep ==
  ASSUME RunnerInv, NEW n \in frontier, Take(n)
  PROVE  RunnerInv' /\ Emitted' = Emitted /\ UNCHANGED <<dagVars, regVars>>
<1>1. at = "pick" /\ at' \in {"place", "write"} /\ node' = n /\ (at' = "place" => Kind[n] = "debug")
  BY DEF Take, Goto
<1>2. TablesOK' /\ Emitted' = Emitted
  BY <1>1, MoveStep DEF Take, InCycle, Filling
<1>3. UNCHANGED <<frontier, assigned, scratch, committed, offered>>
  BY DEF Take, dagVars, regVars, poolVars, machineVars
<1>4. n \in Node
  BY InvParts
<1>5. PlaceOK'
  <2>1. at' = "place" => Holds(node)'
    BY <1>1, <1>4, ProgramAssumption DEF Holds
  <2> QED
    BY <1>1, <1>3, <2>1 DEF RunnerInv, PlaceOK, InCycle, Filling
<1>6. RefusalOK'
  BY <1>1, <1>2, <1>3 DEF RunnerInv, RefusalOK, Filling
<1> QED
  BY <1>2, <1>5, <1>6 DEF Take, RunnerInv, TablesOK

\* can_write() finds a register that the node holds, or none.
LEMMA KeepOrRefuseStep ==
  ASSUME RunnerInv, at = "write", UNCHANGED <<dagVars, regVars, poolVars, ownVars, machineVars>>,
         at' \in {"place", "pick"}, at' = "place" => Holds(node)
  PROVE  RunnerInv' /\ Emitted' = Emitted
<1>1. TablesOK' /\ Emitted' = Emitted
  BY MoveStep DEF InCycle, Filling
<1>2. UNCHANGED <<frontier, assigned, scratch, node, committed, offered>>
  BY DEF dagVars, regVars, poolVars, machineVars, ownVars
<1>3. PlaceOK'
  <2>1. at' = "place" => Holds(node)'
    BY <1>2 DEF Holds
  <2> QED
    BY <1>2, <2>1 DEF RunnerInv, PlaceOK, InCycle, Filling
<1>4. RefusalOK'
  BY <1>1, <1>2 DEF RunnerInv, RefusalOK, Filling
<1> QED
  BY <1>1, <1>3, <1>4 DEF RunnerInv, TablesOK

\* write() gives the result of the node a register: no lane of the node has
\* landed yet, and no read of its result has been consumed.
LEMMA WriteStep ==
  ASSUME RunnerInv, at = "write", NEW t \in Dest(node), Reg!Write(t),
         UNCHANGED <<dagVars, poolVars, ownVars, machineVars>>, at' = "place"
  PROVE  RunnerInv'
<1> USE DEF RunnerInv
<1>1. /\ node \in Node /\ node \in frontier /\ node \notin committed /\ t \in Tag
      /\ \A n \in Node : t \in Dest(n) => n = node
  BY InvParts, DagFacts, ProgramFacts, Writers DEF PlaceOK
<1>2. /\ RegIdle' /\ readCount' = readCount /\ t \notin DOMAIN assigned
      /\ Gains(assigned, assigned', t, assigned'[t]) /\ Gains(remaining, remaining', t, readCount[t])
  BY <1>1, WriteEffect, InvParts
<1>3. DOMAIN assigned' = DOMAIN assigned \cup {t} /\ \A u \in DOMAIN assigned : assigned'[u] = assigned[u]
  BY <1>2 DEF Gains
<1>4. UNCHANGED <<committed, frontier, lanesDone, offered, scratch, resolved, node>>
  BY DEF dagVars, poolVars, ownVars, machineVars
<1>5. PartsOK' /\ Emitted' = Emitted /\ EmittedRuns' = EmittedRuns
      /\ \A n \in Node : LandedLanes(n)' = LandedLanes(n)
  <2>1. InFlight' = InFlight /\ InCycle
    BY <1>4 DEF InFlight, InCycle, Filling
  <2> QED
    BY <1>2, <2>1, InvParts, DagAlone, PoolAlone DEF PartsOK
<1>6. ProgressOK'
  BY <1>3, <1>4 DEF ProgressOK, Holds
<1>7. Unread(t) = ReadersOf(t)
  <2>1. \A o \in ReadersOf(t) : o[1] \in Node /\ <<node, o[1]>> \in Graph.raw
    BY <1>1, Writers
  <2>2. \A o \in ReadersOf(t) : o[1] \notin committed
    BY <1>1, <2>1, DagFacts, InvParts
  <2> QED
    BY <2>2 DEF Unread, Consumed
<1>8. CountsOK'
  <2>1. \A u : Unread(u)' = Unread(u)
    BY <1>4 DEF Unread, Consumed
  <2>2. remaining'[t] = Cardinality(Unread(t)) /\ remaining'[t] = ReadCount[t]
    BY <1>1, <1>2, <1>7 DEF Gains, CountsOK, ReadCount
  <2>3. \A u \in DOMAIN assigned : remaining'[u] = remaining[u]
    BY <1>2, InvParts DEF Gains
  <2> QED
    BY <1>2, <1>3, <1>4, <2>1, <2>2, <2>3 DEF CountsOK
<1>9. BundleOK'
  BY <1>3, <1>4, <1>5 DEF BundleOK, Holds, InCycle, Filling
<1>10. ScratchOK'
  <2> SUFFICES ASSUME NEW n \in Node, NEW u \in Dest(n) \cap DOMAIN assigned',
                      NEW j \in LandedLanes(n), NEW v \in LanesWritten(n, j)
               PROVE  <<n, j>> \in EmittedRuns \/ scratch[assigned'[u] + v.lane] = v
    BY <1>4, <1>5 DEF ScratchOK, Filling
  <2>1. u # t
    <3>1. SUFFICES ASSUME u = t PROVE FALSE
      OBVIOUS
    <3>2. n = node /\ lanesDone[node] \in Nat
      BY <1>1, <3>1, PoolFacts, InvParts
    <3>3. lanesDone[node] = 0
      BY <1>1, <1>2, <3>2 DEF ProgressOK, Holds
    <3> QED
      BY <3>2, <3>3, LandedFacts, InvParts
  <2> QED
    BY <1>3, <2>1 DEF ScratchOK, Filling
<1>11. ReadsOK'
  BY <1>4, <1>5 DEF ReadsOK, SlotsReadRight, WordOf, Filling
<1>12. PlaceOK'
  <2>1. Holds(node)'
    <3>1. Dest(node) \subseteq {t}
      BY <1>1, DestOne
    <3> QED
      BY <1>3, <1>4, <3>1 DEF Holds
  <2> QED
    BY <1>4, <2>1 DEF PlaceOK, InCycle, Filling
<1>13. RefusalOK'
  BY <1>4, <1>5 DEF RefusalOK, Filling
<1> QED
  BY <1>5, <1>6, <1>8, <1>9, <1>10, <1>11, <1>12, <1>13

\* The lanes a node reads hold the values it names.
LEMMA OperandInPlace ==
  ASSUME RunnerInv, at = "place", NEW j \in 0 .. VLEN - 1, NEW v \in LanesRead(node, j)
  PROVE  v.tag \in TagsRead(node) \cap DOMAIN assigned /\ scratch[assigned[v.tag] + v.lane] = v
<1>1. Filling /\ node \in frontier /\ node \in Node
  BY InvParts DEF RunnerInv, PlaceOK, Filling
<1>2. PICK k \in DOMAIN Reads(node) : Reads(node)[k].tag = v.tag
  BY <1>1, LanesReadWritten
<1>3. v.lane \in FootLanes(v.tag) /\ v = [tag |-> v.tag, lane |-> v.lane]
  BY <1>1, LanesReadWritten
<1>4. v.tag \in TagsRead(node) /\ ~Consumed(<<node, k>>)
  BY <1>2 DEF TagsRead, Consumed
<1>5. v.tag \in DOMAIN assigned
  BY <1>1, <1>2, <1>4, OperandReady
<1>6. PICK m \in Node : v.tag \in Dest(m) /\ m \notin offered /\ lanesDone[m] = Pool!LanesTotal(m)
  BY <1>1, <1>2, <1>4, OperandReady
<1>7. PICK i \in LandedLanes(m) : [tag |-> v.tag, lane |-> v.lane] \in LanesWritten(m, i)
  BY <1>3, <1>6, LandedFacts, InvParts
<1>8. <<m, i>> \notin EmittedRuns
  <2>1. \A slot \in Emitted : slot.node # m
    BY <1>1, <1>6 DEF RunnerInv, BundleOK, InCycle
  <2> QED
    BY <2>1 DEF EmittedRuns
<1>9. v \in LanesWritten(m, i)
  BY <1>3, <1>7
<1>10. scratch[assigned[v.tag] + v.lane] = v
  BY <1>5, <1>6, <1>8, <1>9 DEF RunnerInv, ScratchOK
<1> QED
  BY <1>4, <1>5, <1>10

\* place(): the operands are resolved now, and every register the slots name
\* holds what they read.
LEMMA PlaceStep ==
  ASSUME RunnerInv, PlaceNode
  PROVE  RunnerInv' /\ Emitted' # {}
<1> USE DEF RunnerInv
<1>1. /\ at = "place" /\ Pool!Place(node) /\ at' = AfterPlace(node, lanesDone'[node])
      /\ todo' = Reads(node) /\ node' = node
      /\ UNCHANGED <<dagVars, regVars, nCommitted, C, scratch>>
  BY DEF PlaceNode, Goto
<1>2. /\ node \in frontier /\ node \in Node /\ node \notin committed /\ Holds(node) /\ Filling /\ ~dry
  BY <1>1, InvParts, DagFacts DEF PlaceOK, PoolIdle, InCycle, Filling
<1>3. /\ PoolIdle' /\ node \notin offered /\ offered' = offered \cup {node}
      /\ \A m \in Node \ {node} : lanesDone'[m] = lanesDone[m] /\ LandedLanes(m)' = LandedLanes(m)
  BY <1>1, <1>2, InvParts, PlaceEffect
<1>4. PICK J : Ran(node, J)
  BY <1>1, <1>2, InvParts, PlaceRan
<1>5. /\ at' \in {"read", "unwrite", "pick"} /\ Filling'
      /\ at' = "read" => lanesDone'[node] = Pool!LanesTotal(node)
      /\ at' = "unwrite" => lanesDone'[node] = 0
  BY <1>1 DEF AfterPlace, Filling
<1>6. UNCHANGED <<committed, frontier, readCount, assigned, remaining, scratch>>
  BY <1>1 DEF dagVars, regVars
<1>7. /\ resolved' = [n \in DOMAIN resolved \cup {node} |->
                        IF n = node THEN Addresses(node) ELSE resolved[n]]
      /\ \A slot \in Emitted : slot.node \in Node \ {node} /\ slot.node \in DOMAIN resolved
  BY <1>2, <1>3, InvParts DEF PlaceNode, BundleOK, InCycle
<1>8. /\ node \in DOMAIN resolved' /\ resolved'[node] = Addresses(node)
      /\ \A slot \in Emitted : slot.node \in DOMAIN resolved' /\ resolved'[slot.node] = resolved[slot.node]
  BY <1>7
<1>9. PartsOK'
  <2>1. InFlight' = InFlight
    BY <1>2, <1>3, <1>5, <1>6 DEF InFlight, InCycle
  <2> QED
    BY <1>1, <1>3, <2>1, InvParts, DagAlone, RegAlone DEF PartsOK
<1>10. ProgressOK'
  BY <1>1, <1>2, <1>3, <1>6 DEF ProgressOK, Holds
<1>11. Len(todo') <= Len(Reads(node)) /\ (at' = "read" => ~ \E o \in Operands : Consumed(o)')
  BY <1>1, <1>2, ProgramFacts DEF Consumed, Operands
<1>12. CountsOK'
  <2>1. \A t : Unread(t)' = Unread(t)
    BY <1>1, <1>5, <1>6, <1>11 DEF Unread, Consumed, ReadersOf
  <2> QED
    BY <1>6, <2>1 DEF CountsOK
<1>13. BundleOK'
  <2> SUFFICES ASSUME NEW slot \in Emitted'
               PROVE  /\ slot.node \in offered' \cap DOMAIN resolved'
                      /\ Dest(slot.node) # {} => lanesDone'[slot.node] > 0
                      /\ Holds(slot.node)
                      /\ \A t \in Dest(slot.node) : resolved'[slot.node][t] = assigned[t]
    BY <1>6 DEF BundleOK, Holds
  <2>1. CASE slot.node = node /\ (Kind[node] = "debug" \/ lanesDone'[node] > 0)
    <3>1. Dest(node) # {} => lanesDone'[node] > 0
      BY <1>2, <2>1, ProgramAssumption
    <3>2. \A t \in Dest(node) : Addresses(node)[t] = assigned[t]
      BY <1>2 DEF Addresses, Holds
    <3> QED
      BY <1>2, <1>3, <1>8, <2>1, <3>1, <3>2
  <2>2. CASE \E s \in Emitted : s.node = slot.node
    <3>1. PICK s \in Emitted : s.node = slot.node
      BY <2>2
    <3> QED
      BY <1>2, <1>3, <1>7, <1>8, <3>1 DEF BundleOK, InCycle
  <2> QED
    BY <1>4, <2>1, <2>2 DEF Ran
<1>14. ScratchOK'
  <2> SUFFICES ASSUME NEW n \in Node, NEW t \in Dest(n) \cap DOMAIN assigned,
                      NEW j \in LandedLanes(n)', NEW v \in LanesWritten(n, j)
               PROVE  <<n, j>> \in EmittedRuns' \/ scratch[assigned[t] + v.lane] = v
    BY <1>5, <1>6 DEF ScratchOK
  <2>1. j \in LandedLanes(n) \/ <<n, j>> \in EmittedRuns'
    <3>1. CASE n = node
      <4>1. j \in LandedLanes(node) \/ j \in J
        BY <1>1, <1>4, <3>1 DEF Ran, LandedLanes
      <4>2. j \in J => <<node, j>> \in EmittedRuns'
        BY <1>4 DEF Ran
      <4> QED
        BY <3>1, <4>1, <4>2
    <3>2. CASE n # node
      BY <1>3, <3>2
    <3> QED
      BY <3>1, <3>2
  <2>2. EmittedRuns \subseteq EmittedRuns'
    BY <1>4 DEF Ran
  <2> QED
    BY <2>1, <2>2 DEF ScratchOK
<1>15. ReadsOK'
  <2> SUFFICES ASSUME NEW r \in EmittedRuns', NEW v \in LanesRead(r[1], r[2])
               PROVE  scratch[resolved'[r[1]][v.tag] + v.lane] = v
    BY <1>6 DEF ReadsOK, SlotsReadRight, WordOf
  <2>1. CASE r \in EmittedRuns
    <3>1. PICK slot \in Emitted : r[1] = slot.node
      BY <2>1 DEF EmittedRuns
    <3>2. resolved'[r[1]] = resolved[r[1]]
      BY <1>8, <3>1
    <3> QED
      BY <1>2, <2>1, <3>2 DEF ReadsOK, SlotsReadRight, WordOf
  <2>2. CASE r \notin EmittedRuns
    <3>1. r[1] = node /\ r[2] \in 0 .. VLEN - 1
      BY <1>4, <2>2 DEF Ran
    <3>2. v.tag \in TagsRead(node) \cap DOMAIN assigned /\ scratch[assigned[v.tag] + v.lane] = v
      BY <1>1, <3>1, OperandInPlace
    <3>3. resolved'[r[1]][v.tag] = assigned[v.tag]
      BY <1>8, <3>1, <3>2 DEF Addresses
    <3> QED
      BY <3>2, <3>3
  <2> QED
    BY <2>1, <2>2
<1>16. PlaceOK'
  <2>1. Holds(node)'
    BY <1>1, <1>2, <1>6 DEF Holds
  <2>2. /\ todo' \in Seq(Operand)
        /\ \A i \in 1 .. Len(todo') : todo'[i] = Reads(node)[Len(Reads(node)) - Len(todo') + i]
    <3>1. Reads(node) \in Seq(Operand) /\ Len(Reads(node)) \in Nat
      BY <1>2, ProgramFacts
    <3>2. \A i \in 1 .. Len(Reads(node)) : Len(Reads(node)) - Len(Reads(node)) + i = i
      BY <3>1
    <3> QED
      BY <1>1, <3>1, <3>2
  <2>3. scratch' \in [0 .. SCRATCH - 1 -> [tag : Tag \cup {"none"}, lane : Nat]]
    BY <1>6 DEF PlaceOK
  <2> QED
    BY <1>1, <1>2, <1>3, <1>5, <1>6, <1>11, <2>1, <2>2, <2>3 DEF PlaceOK, InCycle, Filling
<1>17. RefusalOK' /\ Emitted' # {}
  BY <1>4 DEF RefusalOK, Ran
<1> QED
  BY <1>9, <1>10, <1>12, <1>13, <1>14, <1>15, <1>16, <1>17

\* unwrite(): no lane of the node has landed, so no slot names its register.
LEMMA GiveBackStep ==
  ASSUME RunnerInv, GiveBack
  PROVE  RunnerInv' /\ UNCHANGED Emitted
<1> USE DEF RunnerInv
<1>1. /\ at = "unwrite" /\ at' = "pick" /\ Filling /\ Filling'
      /\ UNCHANGED <<dagVars, poolVars, ownVars, machineVars>>
  BY DEF GiveBack, Goto, Filling
<1>2. PICK t \in Dest(node) : Reg!Unwrite(t)
  BY DEF GiveBack
<1>3. /\ node \in frontier /\ node \in Node /\ node \notin committed /\ t \in Tag
      /\ lanesDone[node] = 0
      /\ \A n \in Node : t \in Dest(n) => n = node
  BY <1>1, InvParts, DagFacts, ProgramFacts, Writers DEF PlaceOK
<1>4. /\ RegIdle' /\ readCount' = readCount
      /\ Loses(assigned, assigned', t) /\ Loses(remaining, remaining', t)
  BY <1>2, <1>3, UnwriteEffect, InvParts
<1>5. DOMAIN assigned' = DOMAIN assigned \ {t} /\ \A u \in DOMAIN assigned' : assigned'[u] = assigned[u]
  BY <1>4 DEF Loses
<1>6. UNCHANGED <<committed, frontier, lanesDone, offered, scratch, resolved, node>>
  BY <1>1 DEF dagVars, poolVars, ownVars, machineVars
<1>7. PartsOK' /\ Emitted' = Emitted /\ EmittedRuns' = EmittedRuns
      /\ \A n \in Node : LandedLanes(n)' = LandedLanes(n)
  <2>1. InFlight' = InFlight /\ InCycle
    BY <1>1, <1>6 DEF InFlight, InCycle
  <2> QED
    BY <1>1, <1>4, <2>1, InvParts, DagAlone, PoolAlone DEF PartsOK
<1>8. ProgressOK'
  <2> SUFFICES ASSUME NEW n \in Node, n \notin committed, lanesDone[n] > 0
               PROVE  Dest(n) \subseteq DOMAIN assigned'
    BY <1>6 DEF ProgressOK, Holds
  <2>1. t \notin Dest(n)
    BY <1>3
  <2> QED
    BY <1>5, <2>1 DEF ProgressOK, Holds
<1>9. CountsOK'
  <2>1. \A u : Unread(u)' = Unread(u)
    BY <1>1, <1>6 DEF Unread, Consumed
  <2>2. \A u \in DOMAIN assigned' : u \in DOMAIN assigned /\ remaining'[u] = remaining[u]
    BY <1>4, <1>5, InvParts DEF Loses
  <2>3. \A n \in committed : \A u \in Dest(n) \ DOMAIN assigned' : u \notin DOMAIN assigned
    BY <1>3, <1>5, InvParts
  <2> QED
    BY <1>4, <1>6, <2>1, <2>2, <2>3 DEF CountsOK
<1>10. BundleOK'
  <2> SUFFICES ASSUME NEW slot \in Emitted
               PROVE  /\ slot.node \in offered \cap DOMAIN resolved
                      /\ Dest(slot.node) # {} => lanesDone[slot.node] > 0
                      /\ Dest(slot.node) \subseteq DOMAIN assigned'
                      /\ \A u \in Dest(slot.node) : resolved[slot.node][u] = assigned'[u]
    BY <1>6, <1>7 DEF BundleOK, Holds
  <2>1. /\ slot.node \in offered \cap DOMAIN resolved
        /\ Dest(slot.node) # {} => lanesDone[slot.node] > 0
        /\ Dest(slot.node) \subseteq DOMAIN assigned
        /\ \A u \in Dest(slot.node) : resolved[slot.node][u] = assigned[u]
    BY <1>1 DEF BundleOK, Holds, InCycle
  <2>2. t \notin Dest(slot.node)
    BY <1>3, <2>1, InvParts
  <2> QED
    BY <1>5, <2>1, <2>2
<1>11. ScratchOK'
  BY <1>1, <1>5, <1>6, <1>7 DEF ScratchOK
<1>12. ReadsOK'
  BY <1>1, <1>6, <1>7 DEF ReadsOK, SlotsReadRight, WordOf
<1>13. PlaceOK'
  BY <1>1, <1>6 DEF PlaceOK, InCycle, Filling
<1>14. RefusalOK'
  BY <1>1, <1>6, <1>7 DEF RefusalOK, Filling
<1> QED
  BY <1>7, <1>8, <1>9, <1>10, <1>11, <1>12, <1>13, <1>14

\* The operand whose read comes next.
LEMMA NextRead ==
  ASSUME RunnerInv, at = "read", todo # <<>>
  PROVE  LET k == Len(Reads(node)) - Len(todo) + 1
         IN  /\ k \in DOMAIN Reads(node) /\ Head(todo) = Reads(node)[k]
             /\ ~Consumed(<<node, k>>)
             /\ Tail(todo) \in Seq(Operand) /\ Len(Tail(todo)) = Len(todo) - 1
             /\ \A i \in 1 .. Len(Tail(todo)) :
                  Tail(todo)[i] = Reads(node)[Len(Reads(node)) - Len(Tail(todo)) + i]
<1> DEFINE all == Len(Reads(node))
           k == all - Len(todo) + 1
<1>1. /\ node \in Node /\ Len(todo) <= all /\ todo \in Seq(Operand)
      /\ \A i \in 1 .. Len(todo) : todo[i] = Reads(node)[all - Len(todo) + i]
  BY InvParts DEF RunnerInv, PlaceOK
<1>2. all \in Nat /\ DOMAIN Reads(node) = 1 .. all
  BY <1>1, ProgramFacts
<1>3. Len(todo) \in Nat /\ Len(todo) > 0
  BY <1>1
<1>4. /\ Tail(todo) \in Seq(Operand) /\ Len(Tail(todo)) = Len(todo) - 1
      /\ \A i \in 1 .. Len(todo) - 1 : Tail(todo)[i] = todo[i + 1]
      /\ Head(todo) = todo[1]
  BY <1>1, <1>3
<1> HIDE DEF all
<1>5. k \in 1 .. all /\ 1 \in 1 .. Len(todo) /\ all - Len(todo) + 1 = k
  BY <1>1, <1>2, <1>3
<1>6. ~Consumed(<<node, k>>)
  BY <1>1, <1>2, <1>3 DEF Consumed, all
<1>7. ASSUME NEW i \in 1 .. Len(todo) - 1
      PROVE  Tail(todo)[i] = Reads(node)[all - (Len(todo) - 1) + i]
  <2>1. i + 1 \in 1 .. Len(todo) /\ all - Len(todo) + (i + 1) = all - (Len(todo) - 1) + i
    BY <1>2, <1>3
  <2> QED
    BY <1>1, <1>4, <2>1
<1> QED
  BY <1>1, <1>2, <1>4, <1>5, <1>6, <1>7 DEF all

\* read(): the operand has a register, and the last of its reads gives that
\* register back; its writer has no slot in the bundle.
LEMMA ConsumeStep ==
  ASSUME RunnerInv, ConsumeRead
  PROVE  RunnerInv' /\ UNCHANGED Emitted
<1> USE DEF RunnerInv
<1>a. PICK k : k = Len(Reads(node)) - Len(todo) + 1
  OBVIOUS
<1>b. PICK t, o : t = Reads(node)[k].tag /\ o = <<node, k>>
  OBVIOUS
<1>1. /\ at = "read" /\ at' = "read" /\ todo # <<>> /\ todo' = Tail(todo) /\ Filling /\ Filling'
      /\ UNCHANGED <<dagVars, poolVars, node, nCommitted, C, machineVars>>
  BY DEF ConsumeRead, Filling
<1>2. /\ node \in frontier /\ node \in Node /\ node \notin committed
  BY <1>1, InvParts, DagFacts DEF PlaceOK
<1>3. /\ k \in DOMAIN Reads(node) /\ Head(todo) = Reads(node)[k] /\ ~Consumed(o)
      /\ todo' \in Seq(Operand) /\ Len(todo') = Len(todo) - 1
      /\ \A i \in 1 .. Len(todo') : todo'[i] = Reads(node)[Len(Reads(node)) - Len(todo') + i]
  BY <1>1, <1>a, <1>b, NextRead
<1>4. t \in DOMAIN assigned /\ \E m \in Node : t \in Dest(m) /\ m \in committed /\ m \notin offered /\ m # node
  BY <1>1, <1>2, <1>3, <1>b, OperandReady
<1>5. Len(Reads(node)) \in Nat /\ Len(todo) \in Nat /\ k \in Nat
  BY <1>1, <1>2, <1>3, <1>a, ProgramFacts DEF PlaceOK
<1>6. o \in ReadersOf(t) /\ \A u : u # t => o \notin ReadersOf(u)
  BY <1>2, <1>3, <1>b DEF ReadersOf, Operands
<1>7. Reg!Read(t)
  BY <1>3, <1>4, <1>b DEF ConsumeRead
<1>8. \A u : Unread(u)' = Unread(u) \ {o}
  <2> SUFFICES ASSUME NEW u, NEW p \in ReadersOf(u)
               PROVE  Consumed(p)' <=> Consumed(p) \/ p = o
    BY <1>1 DEF Unread, dagVars
  <2>1. p = <<p[1], p[2]>> /\ p[1] \in Node /\ p[2] \in DOMAIN Reads(p[1])
    BY DEF ReadersOf, Operands
  <2>2. p[2] \in Nat
    BY <2>1, ProgramFacts
  <2>3. Len(Reads(node)) - Len(todo') = k /\ Len(Reads(node)) - Len(todo) = k - 1
    BY <1>3, <1>5, <1>a
  <2>4. Consumed(p)' <=> p[1] = node /\ p[2] <= k
    BY <1>1, <2>3 DEF Consumed
  <2>5. Consumed(p) <=> p[1] = node /\ p[2] <= k - 1
    BY <1>1, <2>3 DEF Consumed
  <2>6. p = o <=> p[1] = node /\ p[2] = k
    BY <1>b, <2>1
  <2> QED
    BY <1>5, <2>2, <2>4, <2>5, <2>6
<1>9. PICK m \in Node : t \in Dest(m) /\ m \in committed /\ m \notin offered /\ m # node
  BY <1>4
<1>10. t \in Tag /\ \A n \in Node : t \in Dest(n) => n = m
  BY <1>9, Writers, ProgramFacts
<1>11. /\ RegIdle' /\ readCount' = readCount
       /\ \/ /\ remaining[t] > 1 /\ assigned' = assigned
             /\ Gains(remaining, remaining', t, remaining[t] - 1)
          \/ /\ remaining[t] = 1
             /\ Loses(assigned, assigned', t) /\ Loses(remaining, remaining', t)
  BY <1>7, <1>10, InvParts, ReadEffect
<1>12. /\ DOMAIN assigned' \subseteq DOMAIN assigned /\ DOMAIN assigned \ {t} \subseteq DOMAIN assigned'
       /\ \A u \in DOMAIN assigned' : assigned'[u] = assigned[u]
  BY <1>11 DEF Loses
<1>13. UNCHANGED <<committed, frontier, lanesDone, offered, scratch, resolved, node>>
  BY <1>1 DEF dagVars, poolVars, machineVars
<1>14. PartsOK' /\ Emitted' = Emitted /\ EmittedRuns' = EmittedRuns
       /\ \A n \in Node : LandedLanes(n)' = LandedLanes(n)
  <2>1. InFlight' = InFlight /\ InCycle
    BY <1>1, <1>13 DEF InFlight, InCycle
  <2> QED
    BY <1>1, <1>11, <2>1, InvParts, DagAlone, PoolAlone DEF PartsOK
<1>15. ProgressOK'
  <2> SUFFICES ASSUME NEW n \in Node, n \notin committed, lanesDone[n] > 0
               PROVE  Dest(n) \subseteq DOMAIN assigned'
    BY <1>13 DEF ProgressOK, Holds
  <2>1. t \notin Dest(n)
    BY <1>9, <1>10
  <2> QED
    BY <1>12, <2>1 DEF ProgressOK, Holds
<1>16. CountsOK'
  <2>1. \A u : u # t => Unread(u)' = Unread(u)
    BY <1>6, <1>8 DEF Unread
  <2>2. o \in Unread(t)
    BY <1>2, <1>3, <1>6, <1>b DEF Unread
  <2>3. IsFiniteSet(Unread(t)) /\ Cardinality(Unread(t)) \in Nat
    BY OperandsFinite, FS_Subset, FS_CardinalityType DEF Unread
  <2>4. Cardinality(Unread(t)') = Cardinality(Unread(t)) - 1 /\ IsFiniteSet(Unread(t)')
    BY <1>8, <2>2, <2>3, FS_RemoveElement
  <2>5. remaining[t] = Cardinality(Unread(t))
    BY <1>4 DEF CountsOK
  <2>6. ASSUME NEW u \in DOMAIN assigned'
        PROVE  remaining'[u] = Cardinality(Unread(u)') /\ (remaining'[u] = 0 => ReadCount[u] = 0)
    <3>1. CASE u # t
      <4>1. remaining'[u] = remaining[u] /\ u \in DOMAIN remaining /\ u \in DOMAIN assigned
        BY <1>11, <1>12, <3>1, InvParts DEF Gains, Loses
      <4> QED
        BY <2>1, <3>1, <4>1 DEF CountsOK
    <3>2. CASE u = t
      <4>1. remaining[t] > 1 /\ remaining'[t] = remaining[t] - 1
        BY <1>11, <3>2 DEF Gains, Loses
      <4> QED
        BY <2>3, <2>4, <2>5, <3>2, <4>1
    <3> QED
      BY <3>1, <3>2
  <2>7. ASSUME NEW n \in committed, NEW u \in Dest(n) \ DOMAIN assigned'
        PROVE  Unread(u)' = {}
    <3>1. CASE u # t
      <4>1. u \notin DOMAIN assigned
        BY <1>12, <3>1
      <4> QED
        BY <2>1, <3>1, <4>1 DEF CountsOK
    <3>2. CASE u = t
      <4>1. remaining[t] = 1
        BY <1>4, <1>11, <3>2
      <4>2. Cardinality(Unread(t)') = 0
        BY <2>4, <2>5, <4>1
      <4> QED
        BY <2>4, <3>2, <4>2, FS_EmptySet
    <3> QED
      BY <3>1, <3>2
  <2> QED
    BY <1>11, <1>13, <2>6, <2>7 DEF CountsOK
<1>17. BundleOK'
  <2> SUFFICES ASSUME NEW slot \in Emitted
               PROVE  /\ slot.node \in offered \cap DOMAIN resolved
                      /\ Dest(slot.node) # {} => lanesDone[slot.node] > 0
                      /\ Dest(slot.node) \subseteq DOMAIN assigned'
                      /\ \A u \in Dest(slot.node) : resolved[slot.node][u] = assigned'[u]
    BY <1>13, <1>14 DEF BundleOK, Holds
  <2>1. /\ slot.node \in offered \cap DOMAIN resolved
        /\ Dest(slot.node) # {} => lanesDone[slot.node] > 0
        /\ Dest(slot.node) \subseteq DOMAIN assigned
        /\ \A u \in Dest(slot.node) : resolved[slot.node][u] = assigned[u]
    BY <1>1 DEF BundleOK, Holds, InCycle
  <2>2. t \notin Dest(slot.node)
    BY <1>9, <1>10, <2>1, InvParts
  <2> QED
    BY <1>12, <2>1, <2>2
<1>18. ScratchOK'
  BY <1>1, <1>12, <1>13, <1>14 DEF ScratchOK
<1>19. ReadsOK'
  BY <1>1, <1>13, <1>14 DEF ReadsOK, SlotsReadRight, WordOf
<1>20. PlaceOK'
  <2>1. Holds(node)'
    <3>1. t \notin Dest(node)
      BY <1>2, <1>9, <1>10
    <3> QED
      BY <1>1, <1>12, <1>13, <3>1 DEF PlaceOK, Holds
  <2> QED
    BY <1>1, <1>3, <1>5, <1>13, <2>1 DEF PlaceOK, InCycle, Filling
<1>21. RefusalOK'
  BY <1>1, <1>13, <1>14 DEF RefusalOK, Filling
<1> QED
  BY <1>14, <1>15, <1>16, <1>17, <1>18, <1>19, <1>20, <1>21

\* commit(): every lane of the node has landed and every read is consumed.
LEMMA CommitStep ==
  ASSUME RunnerInv, CommitNode
  PROVE  /\ RunnerInv' /\ UNCHANGED Emitted
         /\ node \in Node \ committed /\ committed' = committed \cup {node}
         /\ frontier \ {node} \subseteq frontier' /\ node \notin frontier'
<1> USE DEF RunnerInv
<1>1. /\ at = "read" /\ at' = "pick" /\ todo = <<>> /\ Filling /\ Filling' /\ Dag!Commit(node)
      /\ UNCHANGED <<regVars, poolVars, node, todo, C, machineVars>>
  BY DEF CommitNode, Goto, Filling
<1>2. /\ node \in frontier /\ node \in Node /\ node \notin committed /\ node \in offered
      /\ Holds(node) /\ lanesDone[node] = Pool!LanesTotal(node)
  BY <1>1, InvParts, DagFacts DEF PlaceOK
<1>3. UNCHANGED <<lanesDone, offered, scratch, resolved, node, readCount, assigned, remaining>>
  BY <1>1 DEF regVars, poolVars, machineVars
<1>4. PICK n \in Node : n = node
  BY <1>2
<1>5. committed' = committed \cup {n}
  BY <1>1, <1>4 DEF Dag!Commit, Dag!Become, Dag!Do, Dag!CommitEntry, Dag!live
<1>6. InFlight' = IF HasReader(n) THEN InFlight \cup {n} ELSE InFlight
  <2>1. /\ InFlight = { m \in committed \cap offered : HasReader(m) }
        /\ InFlight' = { m \in (committed \cup {n}) \cap offered : HasReader(m) }
    BY <1>1, <1>3, <1>5 DEF InFlight, InCycle, HasReader
  <2> QED
    BY <1>2, <1>4, <2>1
<1>7. Dag!Commit(n)
  BY <1>1, <1>4
<1>8. DagIdle' /\ n \notin frontier' /\ frontier \ {n} \subseteq frontier'
  BY <1>6, <1>7, InvParts, CommitEffect
<1>9. PartsOK' /\ Emitted' = Emitted /\ EmittedRuns' = EmittedRuns
      /\ \A m \in Node : LandedLanes(m)' = LandedLanes(m)
  BY <1>1, <1>8, InvParts, RegAlone, PoolAlone DEF PartsOK, InCycle
<1>10. ProgressOK'
  BY <1>2, <1>3, <1>4, <1>5 DEF ProgressOK, Holds
<1>11. CountsOK'
  <2>1. \A u : Unread(u)' = Unread(u)
    <3> SUFFICES ASSUME NEW u, NEW p \in ReadersOf(u)
                 PROVE  p[1] \notin committed' /\ ~Consumed(p)' <=> p[1] \notin committed /\ ~Consumed(p)
      BY DEF Unread
    <3>1. p[1] \in Node /\ p[2] \in 1 .. Len(Reads(p[1]))
      BY ProgramFacts DEF ReadersOf, Operands
    <3>2. ~Consumed(p)'
      BY <1>1 DEF Consumed
    <3>3. Consumed(p) <=> p[1] = node
      BY <1>1, <1>2, <3>1, ProgramFacts DEF Consumed
    <3> QED
      BY <1>4, <1>5, <3>2, <3>3
  <2>2. Dest(n) \subseteq DOMAIN assigned
    BY <1>2, <1>4 DEF Holds
  <2> QED
    BY <1>3, <1>5, <2>1, <2>2 DEF CountsOK
<1>12. BundleOK'
  BY <1>1, <1>3, <1>9 DEF BundleOK, Holds, InCycle
<1>13. ScratchOK'
  BY <1>1, <1>3, <1>9 DEF ScratchOK
<1>14. ReadsOK'
  BY <1>1, <1>3, <1>9 DEF ReadsOK, SlotsReadRight, WordOf
<1>15. PlaceOK'
  BY <1>1, <1>3 DEF PlaceOK, InCycle, Filling
<1>16. RefusalOK'
  BY <1>1, <1>9 DEF RefusalOK, Filling
<1> QED
  BY <1>2, <1>4, <1>5, <1>8, <1>9, <1>10, <1>11, <1>12, <1>13, <1>14, <1>15, <1>16

\* The scheduler in its first state.
LEMMA RunnerStart ==
  ASSUME RunnerInit
  PROVE  RunnerInv
<1>1. /\ Dag!Init /\ Reg!Init /\ Pool!Init /\ at = "top" /\ ~InCycle /\ ~Filling
      /\ scratch = [w \in 0 .. SCRATCH - 1 |-> Blank]
  BY DEF RunnerInit, InCycle, Filling
<1>2. DagIdle
  <2>1. DagP!HInit
    BY <1>1, DagCalls DEF InFlight
  <2> QED
    BY <2>1, DagP!InitDagInv, DagSizes DEF DagIdle, DagP!HInit, DagP!Init, DagP!Idle
<1>3. RegIdle
  <2>1. RegP!HInit
    BY <1>1, RegCalls
  <2> QED
    BY <2>1, RegP!InitInv, RegSizes DEF RegIdle, RegP!HInit, RegP!Init, RegP!Idle
<1>4. PoolIdle
  <2>1. PoolP!HInit
    BY <1>1, PoolCalls
  <2> QED
    BY <2>1, PoolP!InitInv, PoolSizes DEF PoolIdle, PoolP!PoolInv, PoolP!HInit, PoolP!Init
<1>5. /\ committed = {} /\ \A n \in Node : lanesDone[n] = 0
      /\ DOMAIN assigned = {} /\ readCount = ReadCount
  BY <1>1 DEF Dag!Init, Dag!Fresh, Reg!Init, Reg!Empty, Pool!Init
<1>6. PlaceOK
  BY <1>1 DEF PlaceOK, Blank
<1>7. ProgressOK /\ CountsOK /\ ScratchOK
  BY <1>5 DEF ProgressOK, CountsOK, ScratchOK
<1> QED
  BY <1>1, <1>2, <1>3, <1>4, <1>6, <1>7 DEF RunnerInv, PartsOK, BundleOK, ReadsOK, RefusalOK

-----------------------------------------------------------------------------
\* The runs of the bundle: lanes of nodes of the program, resolved to the
\* registers their tags still have.
LEMMA RunFacts ==
  ASSUME RunnerInv, InCycle, NEW r \in EmittedRuns
  PROVE  /\ r = <<r[1], r[2]>> /\ r[1] \in Node /\ r[2] \in 0 .. VLEN - 1 /\ Holds(r[1])
         /\ \A t \in Dest(r[1]) : resolved[r[1]][t] = assigned[t]
<1>1. PICK slot \in Emitted : r \in {slot.node} \X LanesRun(slot)
  BY DEF EmittedRuns
<1>2. slot \in SlotType
  <2>1. PICK e \in Unit : slot \in Range(bundle[e])
    BY <1>1, InvParts, PoolFacts DEF Emitted
  <2>2. bundle[e] \in Seq(SlotType)
    BY <2>1, InvParts, PoolFacts
  <2>3. PICK i \in DOMAIN bundle[e] : slot = bundle[e][i]
    BY <2>1 DEF Range
  <2>4. bundle[e][i] \in SlotType
    <3> HIDE DEF SlotType
    <3>1. i \in 1 .. Len(bundle[e])
      BY <2>2, <2>3
    <3> QED
      BY <2>2, <3>1, ElementOfSeq
  <2> QED
    BY <2>3, <2>4
<1>3. LanesRun(slot) \subseteq 0 .. VLEN - 1
  <2>1. slot.lane = All => LanesRun(slot) \subseteq 0 .. VLEN - 1
    BY LaneFacts DEF LanesRun
  <2>2. slot.lane # All => LanesRun(slot) \subseteq 0 .. VLEN - 1
    BY <1>2 DEF LanesRun, SlotType
  <2> QED
    BY <2>1, <2>2
<1>4. r = <<r[1], r[2]>> /\ r[1] = slot.node /\ r[2] \in 0 .. VLEN - 1
  BY <1>1, <1>3
<1>5. slot.node \in Node
  BY <1>2 DEF SlotType
<1> QED
  BY <1>1, <1>4, <1>5 DEF RunnerInv, BundleOK

\* A value the bundle writes.
Writes(w) == { v \in UNION { { [node |-> r[1], value |-> x] : x \in LanesWritten(r[1], r[2]) }
                             : r \in EmittedRuns } : WordOf(v.node, v.value) = w }

\* What the bundle writes to a word of a register is a lane of the tag that has
\* the register.
LEMMA WrittenValue ==
  ASSUME RunnerInv, InCycle, NEW w, NEW x \in Writes(w)
  PROVE  /\ x.value.tag \in DOMAIN assigned /\ x.value.lane \in FootLanes(x.value.tag)
         /\ assigned[x.value.tag] + x.value.lane = w
         /\ x.value = [tag |-> x.value.tag, lane |-> x.value.lane]
<1>1. PICK r \in EmittedRuns : \E v \in LanesWritten(r[1], r[2]) : x = [node |-> r[1], value |-> v]
  BY DEF Writes
<1>2. PICK v \in LanesWritten(r[1], r[2]) : x = [node |-> r[1], value |-> v]
  BY <1>1
<1>3. x.node = r[1] /\ x.value = v /\ WordOf(r[1], v) = w
  BY <1>2 DEF Writes
<1>4. /\ r[1] \in Node /\ r[2] \in 0 .. VLEN - 1 /\ Holds(r[1])
      /\ \A t \in Dest(r[1]) : resolved[r[1]][t] = assigned[t]
  BY RunFacts
<1>5. v.tag \in Dest(r[1]) /\ v.lane \in FootLanes(v.tag) /\ v = [tag |-> v.tag, lane |-> v.lane]
  BY <1>4, LanesReadWritten
<1> QED
  BY <1>3, <1>4, <1>5 DEF WordOf, Holds

\* Machine.step leaves in every register the lanes that have landed in it.
LEMMA EmitStep ==
  ASSUME RunnerInv, at = "pick", Execute, at' = "advance",
         UNCHANGED <<dagVars, regVars, poolVars, ownVars, resolved>>
  PROVE  RunnerInv' /\ UNCHANGED Emitted
<1> USE DEF RunnerInv
<1>1. Filling /\ InCycle /\ InCycle' /\ ~Filling'
  BY DEF Filling, InCycle
<1>2. UNCHANGED <<committed, frontier, readCount, assigned, remaining, lanesDone, offered, resolved, node, todo>>
  BY DEF dagVars, regVars, poolVars, ownVars
<1>3. PartsOK' /\ Emitted' = Emitted /\ EmittedRuns' = EmittedRuns
      /\ \A n \in Node : LandedLanes(n)' = LandedLanes(n)
  <2>1. InFlight' = InFlight
    BY <1>1, <1>2 DEF InFlight
  <2> QED
    BY <1>1, <2>1, InvParts, DagAlone, RegAlone, PoolAlone DEF PartsOK
<1>4. /\ DOMAIN scratch = 0 .. SCRATCH - 1 /\ DOMAIN scratch' = 0 .. SCRATCH - 1
      /\ \A w \in 0 .. SCRATCH - 1 :
           scratch'[w] = IF Writes(w) = {} THEN scratch[w] ELSE (CHOOSE x \in Writes(w) : TRUE).value
  BY DEF Execute, Writes, PlaceOK
<1>5. \A w : Writes(w) # {} => (CHOOSE x \in Writes(w) : TRUE) \in Writes(w)
  OBVIOUS
<1>6. ScratchOK'
  <2> SUFFICES ASSUME NEW n \in Node, NEW t \in Dest(n) \cap DOMAIN assigned,
                      NEW j \in LandedLanes(n), NEW v \in LanesWritten(n, j)
               PROVE  scratch'[assigned[t] + v.lane] = v
    BY <1>2, <1>3 DEF ScratchOK
  <2>1. /\ v.tag = t /\ v.lane \in FootLanes(t) /\ v = [tag |-> v.tag, lane |-> v.lane]
        /\ j \in 0 .. VLEN - 1
    BY InvParts, LandedFacts, LanesReadWritten, DestOne
  <2>2. PICK w : w = assigned[t] + v.lane
    OBVIOUS
  <2>3. /\ w \in 0 .. SCRATCH - 1
        /\ \A u \in DOMAIN assigned : \A i \in FootLanes(u) : assigned[u] + i = w => u = t /\ i = v.lane
    BY <2>1, <2>2, InvParts, Registers
  <2>4. ASSUME NEW x \in Writes(w) PROVE x.value = v
    BY <1>1, <2>1, <2>3, <2>4, WrittenValue
  <2>5. CASE Writes(w) # {}
    BY <1>4, <1>5, <2>2, <2>3, <2>4, <2>5
  <2>6. CASE Writes(w) = {}
    <3>1. <<n, j>> \notin EmittedRuns
      <4>1. SUFFICES ASSUME <<n, j>> \in EmittedRuns PROVE FALSE
        OBVIOUS
      <4>2. WordOf(n, v) = w
        BY <1>1, <2>1, <2>2, <4>1, RunFacts DEF WordOf
      <4>3. [node |-> n, value |-> v] \in Writes(w)
        BY <4>1, <4>2 DEF Writes
      <4> QED
        BY <2>6, <4>3
    <3>2. scratch[assigned[t] + v.lane] = v
      BY <3>1 DEF ScratchOK
    <3> QED
      BY <1>4, <2>2, <2>3, <2>6, <3>2
  <2> QED
    BY <2>5, <2>6
<1>7. scratch' \in [0 .. SCRATCH - 1 -> [tag : Tag \cup {"none"}, lane : Nat]]
  <2>1. ASSUME NEW w \in 0 .. SCRATCH - 1 PROVE scratch'[w] \in [tag : Tag \cup {"none"}, lane : Nat]
    <3>1. CASE Writes(w) = {}
      BY <1>4, <3>1 DEF PlaceOK
    <3>2. CASE Writes(w) # {}
      <4>1. PICK x \in Writes(w) : scratch'[w] = x.value
        BY <1>4, <1>5, <3>2
      <4>2. /\ x.value.tag \in Tag /\ x.value.lane \in FootLanes(x.value.tag)
            /\ x.value = [tag |-> x.value.tag, lane |-> x.value.lane]
        BY <1>1, WrittenValue, InvParts
      <4>3. x.value.lane \in Nat
        BY <4>2, LaneFacts DEF FootLanes
      <4> QED
        BY <4>1, <4>2, <4>3
    <3> QED
      BY <3>1, <3>2
  <2>2. scratch' = [w \in 0 .. SCRATCH - 1 |-> scratch'[w]]
    BY <1>4 DEF Execute
  <2> QED
    BY <2>1, <2>2
<1>8. ProgressOK'
  BY <1>2 DEF ProgressOK, Holds
<1>9. CountsOK'
  <2>1. \A t : Unread(t)' = Unread(t)
    BY <1>2 DEF Unread, Consumed
  <2> QED
    BY <1>2, <2>1 DEF CountsOK
<1>10. BundleOK'
  BY <1>1, <1>2, <1>3 DEF BundleOK, Holds
<1>11. ReadsOK' /\ RefusalOK'
  BY <1>1 DEF ReadsOK, RefusalOK, Filling
<1>12. PlaceOK'
  BY <1>1, <1>2, <1>7 DEF PlaceOK, InCycle, Filling
<1> QED
  BY <1>3, <1>6, <1>8, <1>9, <1>10, <1>11, <1>12

\* advance(): what was committed in the cycle is seen by its readers.
LEMMA AdvanceStep ==
  ASSUME RunnerInv, at = "advance", at' = "collect", AdvanceDag, UNCHANGED <<node, todo, scratch>>
  PROVE  RunnerInv' /\ committed' = committed
<1> USE DEF RunnerInv
<1>1. ~Filling /\ ~InCycle' /\ ~Filling'
  BY DEF Filling, InCycle
<1>2. DagIdle' /\ committed' = committed
  <2>1. InFlight' = {}
    BY <1>1 DEF InFlight
  <2> QED
    BY <2>1, InvParts, AdvanceEffect DEF AdvanceDag
<1>3. UNCHANGED <<regVars, poolVars, resolved, node, todo>>
  BY DEF AdvanceDag
<1>4. UNCHANGED <<readCount, assigned, remaining, lanesDone, offered>>
  BY <1>3 DEF regVars, poolVars
<1>5. PartsOK' /\ \A n \in Node : LandedLanes(n)' = LandedLanes(n)
  BY <1>1, <1>2, <1>3, InvParts, RegAlone, PoolAlone DEF PartsOK
<1>6. ProgressOK'
  BY <1>2, <1>4 DEF ProgressOK, Holds
<1>7. CountsOK'
  <2>1. \A t : Unread(t)' = Unread(t)
    BY <1>2, <1>3 DEF Unread, Consumed
  <2> QED
    BY <1>2, <1>4, <2>1 DEF CountsOK
<1>8. ScratchOK'
  BY <1>1, <1>4, <1>5 DEF ScratchOK
<1>9. BundleOK' /\ ReadsOK' /\ RefusalOK'
  BY <1>1 DEF BundleOK, ReadsOK, RefusalOK, Filling
<1>10. PlaceOK'
  BY DEF PlaceOK, InCycle, Filling
<1> QED
  BY <1>2, <1>5, <1>6, <1>7, <1>8, <1>9, <1>10

\* collect_scalar_garbage() at the end of the cycle.
LEMMA CollectStep ==
  ASSUME RunnerInv, at = "collect", at' \in {"top", "capped"}, CollectGarbage,
         UNCHANGED <<node, todo, nCommitted, machineVars>>
  PROVE  RunnerInv' /\ committed' = committed
<1> USE DEF RunnerInv
<1>1. ~Filling /\ ~InCycle /\ ~InCycle' /\ ~Filling' /\ UNCHANGED <<dagVars, poolVars>>
  BY DEF Filling, InCycle, CollectGarbage
<1>2. UNCHANGED <<committed, frontier, lanesDone, offered, scratch>>
  BY <1>1 DEF dagVars, poolVars, machineVars
<1>3. RegIdle' /\ UNCHANGED <<readCount, assigned, remaining>>
  <2>1. CASE Reg!Collect
    BY <2>1, InvParts, CollectEffect
  <2>2. CASE UNCHANGED regVars
    BY <2>2, InvParts, RegAlone DEF regVars
  <2> QED
    BY <2>1, <2>2 DEF CollectGarbage
<1>4. PartsOK' /\ \A n \in Node : LandedLanes(n)' = LandedLanes(n)
  <2>1. InFlight' = InFlight
    BY <1>1 DEF InFlight
  <2> QED
    BY <1>1, <1>3, <2>1, InvParts, DagAlone, PoolAlone DEF PartsOK
<1>5. ProgressOK'
  BY <1>2, <1>3 DEF ProgressOK, Holds
<1>6. CountsOK'
  <2>1. \A t : Unread(t)' = Unread(t)
    BY <1>2 DEF Unread, Consumed
  <2> QED
    BY <1>2, <1>3, <2>1 DEF CountsOK
<1>7. ScratchOK'
  BY <1>1, <1>2, <1>3, <1>4 DEF ScratchOK
<1>8. BundleOK' /\ ReadsOK' /\ RefusalOK'
  BY <1>1 DEF BundleOK, ReadsOK, RefusalOK, Filling
<1>9. PlaceOK'
  BY <1>2 DEF PlaceOK, InCycle, Filling
<1> QED
  BY <1>2, <1>4, <1>5, <1>6, <1>7, <1>8, <1>9

\* reset() of the units, with a node ready.
LEMMA StartStep ==
  ASSUME RunnerInv, at \in {"top", "try"}, at' = "pick", frontier # {}, StartCycle(FALSE),
         UNCHANGED ownVars
  PROVE  /\ RunnerInv' /\ Emitted' = {} /\ UNCHANGED <<committed, frontier>>
<1> USE DEF RunnerInv
<1>1. ~Filling /\ ~InCycle /\ UNCHANGED <<dagVars, regVars, scratch>> /\ Pool!NewCycle(FALSE)
  BY DEF Filling, InCycle, StartCycle
<1>2. PoolIdle' /\ Emitted' = {} /\ EmittedRuns' = {} /\ offered' = {} /\ lanesDone' = lanesDone
  BY <1>1, InvParts, StartEffect
<1>3. UNCHANGED <<committed, frontier, readCount, assigned, remaining>>
  BY <1>1 DEF dagVars, regVars
<1>4. PartsOK'
  <2>1. InFlight' = InFlight
    BY <1>1, <1>2 DEF InFlight
  <2> QED
    BY <1>1, <1>2, <2>1, InvParts, DagAlone, RegAlone DEF PartsOK
<1>5. ProgressOK'
  BY <1>2, <1>3 DEF ProgressOK, Holds
<1>6. CountsOK'
  <2>1. \A t : Unread(t)' = Unread(t)
    BY <1>3 DEF Unread, Consumed
  <2> QED
    BY <1>3, <2>1 DEF CountsOK
<1>7. ScratchOK'
  <2>1. \A n \in Node : LandedLanes(n)' = LandedLanes(n)
    BY <1>2 DEF LandedLanes
  <2> QED
    BY <1>1, <1>3, <2>1 DEF ScratchOK
<1>8. BundleOK' /\ ReadsOK' /\ RefusalOK'
  BY <1>2, <1>3 DEF BundleOK, ReadsOK, SlotsReadRight, RefusalOK, Filling
<1>9. PlaceOK'
  BY <1>1, <1>3 DEF PlaceOK, InCycle, Filling
<1> QED
  BY <1>2, <1>3, <1>4, <1>5, <1>6, <1>7, <1>8, <1>9

\* The loop moves on between cycles, returns or raises: nothing else changes,
\* and no bundle is lost.
LEMMA StopStep ==
  ASSUME RunnerInv, at \in {"top", "try"} \/ (at = "pick" /\ Emitted = {}),
         at' \in {"try", "done", "starved", "stuck"},
         UNCHANGED <<dagVars, regVars, poolVars, ownVars, machineVars>>
  PROVE  RunnerInv'
<1> USE DEF RunnerInv
<1>1. ~InCycle' /\ ~Filling'
  BY DEF InCycle, Filling
<1>2. UNCHANGED <<committed, frontier, readCount, assigned, remaining, lanesDone, offered, scratch>>
  BY DEF dagVars, regVars, poolVars, machineVars
<1>3. InFlight = {} /\ InFlight' = {}
  <2>1. CASE at \in {"top", "try"}
    BY <1>1, <2>1 DEF InFlight, InCycle, Filling
  <2>2. CASE at = "pick" /\ Emitted = {}
    BY <1>1, <2>2 DEF InFlight, RefusalOK, Filling
  <2> QED
    BY <2>1, <2>2
<1>4. PartsOK' /\ \A n \in Node : LandedLanes(n)' = LandedLanes(n)
  BY <1>1, <1>3, InvParts, DagAlone, RegAlone, PoolAlone DEF PartsOK
<1>5. ProgressOK'
  BY <1>2 DEF ProgressOK, Holds
<1>6. CountsOK'
  <2>1. \A t : Unread(t)' = Unread(t)
    BY <1>2 DEF Unread, Consumed
  <2> QED
    BY <1>2, <2>1 DEF CountsOK
<1>7. ScratchOK'
  <2>1. at \in {"top", "try"} => ~Filling
    BY DEF Filling
  <2>2. Emitted = {} => EmittedRuns = {}
    BY DEF EmittedRuns
  <2> QED
    BY <1>2, <1>4, <2>1, <2>2 DEF ScratchOK
<1>8. BundleOK' /\ ReadsOK' /\ RefusalOK'
  BY <1>1 DEF BundleOK, ReadsOK, RefusalOK, Filling
<1>9. PlaceOK'
  BY <1>2 DEF PlaceOK, InCycle, Filling
<1> QED
  BY <1>4, <1>5, <1>6, <1>7, <1>8, <1>9

\* A step of something else.
LEMMA StutterStep ==
  ASSUME RunnerInv, UNCHANGED <<dagVars, regVars, poolVars, at, ownVars, machineVars>>
  PROVE  RunnerInv' /\ UNCHANGED Emitted
<1> USE DEF RunnerInv
<1>1. UNCHANGED <<committed, frontier, readCount, assigned, remaining, lanesDone, offered, scratch,
                  resolved, node, todo>>
  BY DEF dagVars, regVars, poolVars, machineVars, ownVars
<1>2. PartsOK' /\ Emitted' = Emitted /\ EmittedRuns' = EmittedRuns
      /\ \A n \in Node : LandedLanes(n)' = LandedLanes(n)
  <2>1. InFlight' = InFlight /\ (InCycle' <=> InCycle)
    BY <1>1 DEF InFlight, InCycle, Filling
  <2> QED
    BY <2>1, InvParts, DagAlone, RegAlone, PoolAlone DEF PartsOK
<1>3. ProgressOK' /\ BundleOK'
  BY <1>1, <1>2 DEF ProgressOK, BundleOK, Holds, InCycle, Filling
<1>4. CountsOK'
  <2>1. \A t : Unread(t)' = Unread(t)
    BY <1>1 DEF Unread, Consumed
  <2> QED
    BY <1>1, <2>1 DEF CountsOK
<1>5. ScratchOK' /\ ReadsOK'
  BY <1>1, <1>2 DEF ScratchOK, ReadsOK, SlotsReadRight, WordOf, Filling
<1>6. RefusalOK'
  BY <1>1, <1>2 DEF RefusalOK, Filling
<1>7. PlaceOK'
  BY <1>1 DEF PlaceOK, Holds, InCycle, Filling
<1> QED
  BY <1>2, <1>3, <1>4, <1>5, <1>6, <1>7

-----------------------------------------------------------------------------
\* Between cycles some node is ready, as long as one is not committed.
LEMMA SomeReady ==
  ASSUME RunnerInv, ~InCycle, committed # Node
  PROVE  frontier # {}
<1>1. /\ DagP!DagInv /\ dagTarget = DagP!Idle
      /\ DagP!CountersOf(graph, DagP!live, InFlight)
      /\ DagP!live \in DagP!State /\ InFlight \in SUBSET Node /\ graph \in {Graph}
  BY InvParts DEF DagIdle, DagP!DagInv, DagP!TypeOK, DagP!PointOK, DagP!now, DagP!Idle
<1>2. \A d \in Node : DagP!live.pending[d] = 0 <=> DagP!RawIn(graph, d) \cap InFlight = {}
  <2> DEFINE s == DagP!live
             f == InFlight
  <2>1. ASSUME NEW d \in Node PROVE s.pending[d] = 0 <=> DagP!RawIn(graph, d) \cap f = {}
    <3>1. DagP!CountersOf(graph, s, f) /\ s \in DagP!State /\ f \in SUBSET Node /\ graph \in {Graph}
      BY <1>1
    <3> HIDE DEF s, f
    <3> QED
      BY <3>1, DagP!ZeroCounters, DagSizes
  <2> QED
    BY <2>1
<1>3. \A d \in Node : pending[d] = 0
  BY <1>2 DEF InFlight, DagP!live
<1>4. DagP!NeverStarved
  BY <1>1, DagP!FirstIsReady, DagSizes
<1> QED
  BY <1>1, <1>3, <1>4 DEF DagP!NeverStarved

\* A set of numbers has a least member.
LEMMA HasLeast ==
  ASSUME NEW S \in SUBSET Nat, S # {}
  PROVE  \E m \in S : \A y \in S : m <= y
BY PoolP!LeastEntry, PoolSizes

\* A tag that can_write() refuses has no register, and none is free for it.
LEMMA NoRegister ==
  ASSUME RegIdle, NEW t \in Tag, ~Reg!CanWrite(Reg!regs, t)
  PROVE  t \notin DOMAIN assigned /\ freeVec = <<>> /\ (t \in ScalarTag => FreeWords = {})
<1>1. /\ t \notin DOMAIN assigned /\ freeVec = <<>>
      /\ t \in ScalarTag => Reg!BestFit(Reg!regs) = {}
  BY DEF Reg!CanWrite, Reg!regs
<1>2. /\ RegP!PoolsTyped(RegP!regs) /\ RegP!CountsAt(RegP!regs)
      /\ RegP!regs.freeWords = freeWords /\ RegP!regs.freeCount = freeCount
  BY RegP!Ready, RegP!GoodParts, RegSizes DEF RegIdle
<1>3. /\ DOMAIN freeWords \subseteq RegP!Granule /\ DOMAIN freeCount = DOMAIN freeWords
      /\ \A g \in DOMAIN freeWords : /\ freeWords[g] \in Seq(RegP!Word)
                                     /\ freeCount[g] = Len(freeWords[g])
  BY <1>2 DEF RegP!PoolsTyped, RegP!Table, RegP!CountsAt
<1>4. ASSUME FreeWords # {} PROVE Reg!BestFit(Reg!regs) # {}
  <2> DEFINE D == { g \in DOMAIN freeCount : freeCount[g] > 0 }
             N == { freeCount[g] : g \in D }
  <2>1. \A g \in DOMAIN freeCount : freeCount[g] \in Nat /\ g \in Nat
    BY <1>3, RegP!GranuleFacts, RegSizes
  <2>2. D # {}
    <3>1. PICK g \in DOMAIN freeWords : Range(freeWords[g]) # {}
      BY <1>4 DEF FreeWords
    <3>2. PICK i \in 1 .. Len(freeWords[g]) : TRUE
      BY <1>3, <3>1 DEF Range
    <3>3. freeCount[g] > 0
      BY <1>3, <3>1, <3>2
    <3> QED
      BY <1>3, <3>1, <3>3
  <2>3. N \in SUBSET Nat /\ N # {}
    BY <2>1, <2>2
  <2>4. PICK c \in N : \A x \in N : c <= x
    BY <2>3, HasLeast
  <2> DEFINE B == { g \in D : freeCount[g] = c }
  <2>5. B \in SUBSET Nat /\ B # {}
    BY <2>1, <2>4
  <2>6. PICK g \in B : \A h \in B : g <= h
    BY <2>5, HasLeast
  <2>7. \A h \in D : freeCount[g] < freeCount[h] \/ (freeCount[g] = freeCount[h] /\ g <= h)
    <3> SUFFICES ASSUME NEW h \in D PROVE freeCount[g] < freeCount[h] \/ (freeCount[g] = freeCount[h] /\ g <= h)
      OBVIOUS
    <3>1. freeCount[g] = c /\ freeCount[h] \in N /\ c <= freeCount[h] /\ c \in Nat /\ freeCount[h] \in Nat
      BY <2>1, <2>3, <2>4, <2>6
    <3>2. freeCount[h] = c => g <= h
      BY <2>6
    <3> QED
      BY <3>1, <3>2
  <2>8. g \in Reg!BestFit(Reg!regs)
    BY <2>6, <2>7 DEF Reg!BestFit, Reg!regs
  <2> QED
    BY <2>8
<1> QED
  BY <1>1, <1>4

\* The loop's count tells when all nodes are committed.
LEMMA CountedNodes ==
  ASSUME RunnerInv, nCommitted = Cardinality(committed)
  PROVE  /\ nCommitted <= Len(Program) /\ IsFiniteSet(committed)
         /\ nCommitted = Len(Program) <=> committed = Node
<1>1. committed \subseteq Node /\ IsFiniteSet(Node) /\ Node = 1 .. Len(Program) /\ Len(Program) \in Nat
  BY InvParts, ProgramFacts
<1>2. Cardinality(Node) = Len(Program)
  <2>1. PICK k \in Nat : k = Len(Program)
    BY <1>1
  <2>2. Cardinality(1 .. k) = k
    BY FS_Interval
  <2> QED
    BY <1>1, <2>1, <2>2
<1>3. IsFiniteSet(committed) /\ Cardinality(committed) <= Cardinality(Node)
      /\ (Cardinality(committed) = Cardinality(Node) => committed = Node)
  BY <1>1, FS_Subset
<1> QED
  BY <1>2, <1>3

\* When every ready node is refused a register, none will ever be placed.
LEMMA RefusedIsFinal ==
  ASSUME RunnerInv, frontier # {}, \A n \in frontier : Refused(n),
         UNCHANGED <<frontier, freeVec, freeWords, assigned>>
  PROVE  StuckIsFinal'
<1>1. ASSUME NEW n \in frontier
      PROVE  \E t \in Dest(n) :
               /\ Dest(n) = {t}
               /\ t \notin DOMAIN assigned /\ freeVec = <<>> /\ (t \in ScalarTag => FreeWords = {})
  <2>1. n \in Node /\ RegIdle
    BY InvParts
  <2>2. PICK t \in Dest(n) : ~Reg!CanWrite(Reg!regs, t)
    BY DEF Refused
  <2>3. t \in Tag /\ Dest(n) = {t}
    BY <2>1, DestOne, ProgramFacts
  <2> QED
    BY <2>1, <2>2, <2>3, NoRegister
<1>2. freeVec = <<>>
  BY <1>1
<1>3. \A n \in frontier : /\ Dest(n) # {} /\ Dest(n) \cap DOMAIN assigned = {}
                          /\ Dest(n) \cap ScalarTag # {} => FreeWords = {}
  BY <1>1
<1>4. FreeWords' = FreeWords
  BY DEF FreeWords
<1> QED
  BY <1>2, <1>3, <1>4 DEF StuckIsFinal

\* The collection leaves no granule that is claimed and wholly free.
LEMMA NothingReclaimable ==
  ASSUME RegIdle, CollectGarbage
  PROVE  Reg!Reclaimable' = {}
<1>1. CASE Reg!Collect
  <2>1. RegP!Collect
    BY <1>1, RegCalls DEF RegP!HCollect
  <2>2. /\ \A h \in DOMAIN freeWords' : freeCount'[h] # VLEN
        /\ DOMAIN freeCount' = DOMAIN freeWords'
    BY <2>1, RegP!CollectGood, RegP!GoodParts, RegSizes
       DEF RegIdle, RegP!PoolsTyped, RegP!Table, RegP!regs
  <2> QED
    BY <2>2 DEF Reg!Reclaimable
<1>2. CASE Reg!Reclaimable = {} /\ UNCHANGED regVars
  BY <1>2 DEF Reg!Reclaimable, regVars
<1> QED
  BY <1>1, <1>2 DEF CollectGarbage, regVars

\* With no value live and nothing to collect, the vector pool is whole.
LEMMA PoolWhole ==
  ASSUME RegIdle, DOMAIN assigned = {}, Reg!Reclaimable = {}
  PROVE  Len(freeVec) = (SCRATCH \div VLEN) - 1
<1> DEFINE s == RegP!regs
<1>1. /\ RegP!PoolsTyped(s) /\ RegP!CountsAt(s) /\ RegP!VecPool(s) /\ RegP!WordPool(s)
      /\ s.freeVec = freeVec /\ s.freeWords = freeWords /\ s.freeCount = freeCount
      /\ s.assigned = assigned
  BY RegP!Ready, RegP!GoodParts, RegSizes DEF RegIdle
<1> HIDE DEF s
<1>2. RegP!Held(s, VecTag) = {} /\ RegP!Held(s, ScalarTag) = {}
  BY <1>1 DEF RegP!Held
<1>3. DOMAIN freeWords = {}
  <2> SUFFICES ASSUME NEW g \in DOMAIN freeWords PROVE FALSE
    OBVIOUS
  <2>1. g \in RegP!Granule /\ DOMAIN freeCount = DOMAIN freeWords /\ freeCount[g] = Len(freeWords[g])
    BY <1>1 DEF RegP!PoolsTyped, RegP!Table, RegP!CountsAt
  <2>2. RegP!ListOf(freeWords[g], RegP!Words(g))
    <3>1. RegP!ListOf(freeWords[g], RegP!Words(g) \ {})
      BY <1>1, <1>2 DEF RegP!WordPool
    <3>2. RegP!Words(g) \ {} = RegP!Words(g)
      OBVIOUS
    <3> QED
      BY <3>1, <3>2
  <2>3. Len(freeWords[g]) = VLEN
    BY <2>1, <2>2, RegP!WordList, RegSizes
  <2> QED
    BY <2>1, <2>3 DEF Reg!Reclaimable
<1>4. RegP!ListOf(freeVec, RegP!Granule)
  <2>1. RegP!ListOf(freeVec, RegP!Granule \ ({} \cup {}))
    BY <1>1, <1>2, <1>3 DEF RegP!VecPool
  <2>2. RegP!Granule \ ({} \cup {}) = RegP!Granule
    OBVIOUS
  <2> QED
    BY <2>1, <2>2
<1>5. Len(freeVec) = Len(RegP!Empty.freeVec)
  <2>1. RegP!ListOf(RegP!Empty.freeVec, RegP!Granule)
    BY RegP!EmptyPool, RegSizes
  <2> QED
    BY <1>4, <2>1, RegP!ListLength, RegSizes
<1>6. (SCRATCH \div VLEN) - 1 \in Nat
  <2>1. SCRATCH \in Nat /\ SCRATCH > 0 /\ VLEN \in Nat /\ VLEN > 0 /\ SCRATCH % VLEN = 0
    BY SizesAssumption, ProgramAssumption
  <2>2. SCRATCH \div VLEN \in Int /\ SCRATCH = VLEN * (SCRATCH \div VLEN)
    BY <2>1
  <2>3. \A x \in Int : x <= 0 => VLEN * x <= 0
    BY <2>1
  <2> QED
    BY <2>1, <2>2, <2>3
<1>7. Len(RegP!Empty.freeVec) = (SCRATCH \div VLEN) - 1
  BY <1>6 DEF RegP!Empty
<1> QED
  BY <1>5, <1>7

\* Every value of the program is read by some instruction: the code prunes the
\* others before it schedules.
EveryTagRead == \A t \in Tag : ReadersOf(t) # {}

\* Once every node is committed, every register has been given back.
LEMMA AllGivenBack ==
  ASSUME RunnerInv, EveryTagRead, committed = Node
  PROVE  DOMAIN assigned = {}
<1> SUFFICES ASSUME NEW t \in DOMAIN assigned PROVE FALSE
  OBVIOUS
<1>1. t \in Tag /\ remaining[t] = Cardinality(Unread(t)) /\ (remaining[t] = 0 => ReadCount[t] = 0)
  BY InvParts DEF RunnerInv, CountsOK
<1>2. Unread(t) = {}
  BY DEF Unread, ReadersOf, Operands
<1>3. Cardinality(ReadersOf(t)) = 0
  BY <1>1, <1>2, FS_EmptySet DEF ReadCount
<1>4. ReadersOf(t) = {}
  BY <1>3, OperandsFinite, FS_EmptySet
<1> QED
  BY <1>1, <1>4 DEF EveryTagRead

-----------------------------------------------------------------------------
(***************************************************************************)
(* The cap.  Every emitted cycle commits a node or lands a lane of a       *)
(* gather, because the first node placed in an empty cycle lands whatever  *)
(* the units are; so a cap with room for one cycle per node, and one per   *)
(* lane of a gather, is never exceeded.                                    *)
(***************************************************************************)

\* A schedule that issues one slot at a time, a debug node included.
OneAtATime == { x \in Node \X (0 .. VLEN - 1) : x[2] = 0 \/ Kind[x[1]] = "gather" }

\* What of it a schedule has done, with these nodes committed and these lanes
\* landed: the cycles that are paid for.
PaidAt(done, lanes) ==
  { x \in OneAtATime : IF Kind[x[1]] = "gather" THEN x[2] < lanes[x[1]] ELSE x[1] \in done }
Paid == PaidAt(committed, lanesDone)

\* A cap no smaller than that, and an alu that takes a whole vector.
SequentialCap == /\ Cap \in Nat /\ Cardinality(OneAtATime) <= Cap
                 /\ VLEN <= Capacity["alu"]

\* The cycles emitted are paid for, and the current one too as soon as it has
\* emitted something; a node that has landed pays when it is committed.
BaselineOK ==
  /\ C \in Nat /\ C <= Cardinality(Paid)
  /\ at # "capped"
  /\ at \in {"advance", "collect"} => C < Cardinality(Paid)
  /\ Filling /\ Emitted # {} => \/ C < Cardinality(Paid)
                                \/ at = "read" /\ Kind[node] # "gather"

\* Subsets of the sequential schedule are finite and compare by size.
LEMMA Counted ==
  ASSUME NEW S, NEW T, S \subseteq T, T \subseteq OneAtATime
  PROVE  /\ Cardinality(S) \in Nat /\ Cardinality(T) \in Nat /\ Cardinality(OneAtATime) \in Nat
         /\ Cardinality(S) <= Cardinality(T) /\ Cardinality(T) <= Cardinality(OneAtATime)
         /\ S # T => Cardinality(S) < Cardinality(T)
<1>1. IsFiniteSet(0 .. VLEN - 1)
  BY LaneFacts, FS_Interval
<1>2. IsFiniteSet(Node \X (0 .. VLEN - 1))
  BY <1>1, ProgramFacts, FS_Product
<1>3. IsFiniteSet(OneAtATime)
  BY <1>2, FS_Subset DEF OneAtATime
<1>4. IsFiniteSet(T) /\ Cardinality(T) <= Cardinality(OneAtATime)
  BY <1>3, FS_Subset
<1>5. IsFiniteSet(S) /\ Cardinality(S) <= Cardinality(T)
      /\ (Cardinality(S) = Cardinality(T) => S = T)
  BY <1>4, FS_Subset
<1>6. Cardinality(S) \in Nat /\ Cardinality(T) \in Nat /\ Cardinality(OneAtATime) \in Nat
  BY <1>3, <1>4, <1>5, FS_CardinalityType
<1> QED
  BY <1>4, <1>5, <1>6

\* No lane is taken back.
LEMMA LanesGrow ==
  ASSUME PoolIdle, NEW n \in Node, Pool!Place(n)
  PROVE  lanesDone'[n] \in Nat /\ lanesDone[n] <= lanesDone'[n]
<1>1. /\ lanesDone \in [Node -> Nat] /\ VLEN \in Nat
      /\ lanesDone[n] <= Pool!LanesTotal(n)
      /\ free["alu"] \in Nat /\ free["load"] \in Nat
  BY PoolFacts, LaneFacts DEF Pool!Engine
<1>2. CASE Pool!PlaceOnValu(n)
  BY <1>1, <1>2 DEF Pool!PlaceOnValu, Pool!Land
<1>3. CASE Pool!Spill(n)
  BY <1>1, <1>3 DEF Pool!Spill, Pool!Land, Pool!Refused, Pool!Lesser, Pool!LanesTotal
<1>4. CASE Pool!PlaceWhole(n)
  BY <1>1, <1>4 DEF Pool!PlaceWhole, Pool!Land, Pool!Whole, Pool!LanesTotal
<1>5. CASE Pool!PlaceByEviction(n)
  BY <1>1, <1>5 DEF Pool!PlaceByEviction, Pool!LanesTotal
<1>6. CASE Pool!PlaceGather(n)
  BY <1>1, <1>6 DEF Pool!PlaceGather, Pool!Refused, Pool!Lesser, Pool!LanesTotal
<1>7. CASE Pool!RefuseWhole(n) \/ Pool!PlaceDebug(n)
  BY <1>1, <1>7 DEF Pool!RefuseWhole, Pool!PlaceDebug, Pool!Refused
<1> QED
  BY <1>2, <1>3, <1>4, <1>5, <1>6, <1>7 DEF Pool!Place

\* The first node placed in a cycle lands: a gather at least one lane, any
\* other node all it has left.
LEMMA FirstLands ==
  ASSUME PoolIdle, ~dry, Emitted = {}, VLEN <= Capacity["alu"], NEW n \in Node, Pool!Place(n)
  PROVE  IF Kind[n] = "gather" THEN lanesDone[n] < lanesDone'[n]
         ELSE lanesDone'[n] = Pool!LanesTotal(n)
<1>1. /\ lanesDone \in [Node -> Nat] /\ VLEN \in Nat /\ VLEN > 0
      /\ lanesDone[n] <= Pool!LanesTotal(n) /\ Kind[n] \in Pool!Kinds
  BY PoolFacts, LaneFacts, PoolSizes DEF Pool!Kinds, PoolP!Kinds
<1>2. \A e \in Pool!Engine : free[e] = Capacity[e] /\ Capacity[e] \in Nat /\ Capacity[e] > 0
  <2> SUFFICES ASSUME NEW e \in Pool!Engine
               PROVE  free[e] = Capacity[e] /\ Capacity[e] \in Nat /\ Capacity[e] > 0
    OBVIOUS
  <2>1. bundle \in [Unit -> Seq(SlotType)] /\ e \in Unit /\ free[e] \in Nat
    BY PoolFacts DEF Unit
  <2>2. Range(bundle[e]) = {}
    BY <2>1 DEF Emitted
  <2>3. \A k : k \notin DOMAIN bundle[e]
    BY <2>2 DEF Range
  <2>4. Len(bundle[e]) = 0
    <3>1. PICK s : s = bundle[e]
      OBVIOUS
    <3>2. s \in Seq(SlotType) /\ \A k : k \notin DOMAIN s
      BY <2>1, <2>3, <3>1
    <3>3. Len(s) \in Nat /\ DOMAIN s = 1 .. Len(s)
      BY <3>2, LenProperties
    <3>4. PICK l \in Nat : l = Len(s)
      BY <3>3
    <3>5. l > 0 => 1 \in 1 .. l
      OBVIOUS
    <3> QED
      BY <3>1, <3>2, <3>3, <3>4, <3>5
  <2> QED
    BY <2>1, <2>4, PoolSizes DEF PoolIdle, PoolP!BudgetExact, Pool!Engine, PoolP!Engine
<1>3. {"alu", "valu", "load", "store", "flow"} = Pool!Engine
  BY DEF Pool!Engine
<1>4. Kind[n] = "debug" \/ lanesDone[n] # Pool!LanesTotal(n)
  BY DEF Pool!Place, Pool!Offer, Pool!Complete
<1>5. CASE Pool!PlaceOnValu(n)
  BY <1>1, <1>5 DEF Pool!PlaceOnValu, Pool!Land, Pool!LanesTotal
<1>6. CASE Pool!Spill(n)
  <2>1. Kind[n] = "vec_elem" /\ Pool!LanesTotal(n) = VLEN /\ lanesDone[n] < VLEN
    BY <1>1, <1>4, <1>6 DEF Pool!Spill, Pool!LanesTotal
  <2>2. Pool!Lesser(VLEN - lanesDone[n], free["alu"]) = VLEN - lanesDone[n]
    BY <1>1, <1>2, <1>3 DEF Pool!Lesser
  <2>3. lanesDone'[n] = lanesDone[n] + (VLEN - lanesDone[n])
    BY <1>1, <1>6, <2>1, <2>2 DEF Pool!Spill, Pool!Land
  <2> QED
    BY <1>1, <2>1, <2>3
<1>7. CASE Pool!PlaceWhole(n)
  BY <1>1, <1>7 DEF Pool!PlaceWhole, Pool!Land, Pool!Whole, Pool!LanesTotal
<1>8. CASE Pool!PlaceByEviction(n)
  BY <1>2, <1>3, <1>8 DEF Pool!PlaceByEviction
<1>9. CASE Pool!RefuseWhole(n)
  <2>1. Pool!Native(n) \in Pool!Engine
    BY <1>1, <1>3, <1>9 DEF Pool!RefuseWhole, Pool!Whole, Pool!Native, Pool!Kinds
  <2> QED
    BY <1>2, <1>9, <2>1 DEF Pool!RefuseWhole
<1>10. CASE Pool!PlaceGather(n)
  <2>1. Kind[n] = "gather" /\ Pool!LanesTotal(n) = VLEN /\ lanesDone[n] < VLEN
    BY <1>1, <1>4, <1>10 DEF Pool!PlaceGather, Pool!LanesTotal
  <2>2. Pool!Lesser(VLEN - lanesDone[n], free["load"]) > 0
        /\ Pool!Lesser(VLEN - lanesDone[n], free["load"]) \in Nat
    BY <1>1, <1>2, <1>3, <2>1 DEF Pool!Lesser
  <2>3. lanesDone'[n] = lanesDone[n] + Pool!Lesser(VLEN - lanesDone[n], free["load"])
    BY <1>1, <1>10, <2>2 DEF Pool!PlaceGather
  <2> QED
    BY <1>1, <2>1, <2>2, <2>3
<1>11. CASE Pool!PlaceDebug(n)
  BY <1>1, <1>11 DEF Pool!PlaceDebug, Pool!LanesTotal
<1> QED
  BY <1>5, <1>6, <1>7, <1>8, <1>9, <1>10, <1>11 DEF Pool!Place

\* What is done stays done.
LEMMA PaidGrows ==
  ASSUME committed \subseteq committed',
         \A n \in Node : lanesDone[n] \in Nat /\ lanesDone'[n] \in Nat /\ lanesDone[n] <= lanesDone'[n]
  PROVE  /\ Paid \subseteq Paid' /\ Paid' \subseteq OneAtATime
         /\ Cardinality(Paid) <= Cardinality(Paid')
         /\ Paid # Paid' => Cardinality(Paid) < Cardinality(Paid')
         /\ Cardinality(Paid) \in Nat /\ Cardinality(Paid') \in Nat
<1>1. Paid' \subseteq OneAtATime
  BY DEF Paid, PaidAt
<1>2. ASSUME NEW x \in Paid PROVE x \in Paid'
  <2>1. x \in OneAtATime /\ x[1] \in Node /\ x[2] \in Nat
    BY LaneFacts DEF Paid, PaidAt, OneAtATime
  <2>2. Kind[x[1]] = "gather" => x[2] < lanesDone'[x[1]]
    BY <2>1 DEF Paid, PaidAt
  <2> QED
    BY <2>1, <2>2 DEF Paid, PaidAt
<1>3. Paid \subseteq Paid'
  BY <1>2
<1> QED
  BY <1>1, <1>3, Counted

\* A call that lands no lane and commits no node.
LEMMA SamePaid ==
  ASSUME UNCHANGED <<committed, lanesDone>>
  PROVE  Paid' = Paid /\ Cardinality(Paid') = Cardinality(Paid)
BY DEF Paid, PaidAt

\* A node is placed: it lands, or the cycle was paid for already.
LEMMA PlacePays ==
  ASSUME SequentialCap, RunnerInv, BaselineOK, PlaceNode, RunnerInv'
  PROVE  BaselineOK'
<1>1. /\ RunnerInv /\ PoolIdle /\ PoolIdle' /\ ~dry /\ at = "place" /\ node \in Node
      /\ Pool!Place(node) /\ UNCHANGED <<dagVars, regVars, node, nCommitted, C>>
      /\ at' = AfterPlace(node, lanesDone'[node])
  BY InvParts DEF RunnerInv, PartsOK, PoolIdle, InCycle, Filling, PlaceNode, PlaceOK, Goto
<1>2. /\ committed' = committed /\ lanesDone \in [Node -> Nat] /\ lanesDone' \in [Node -> Nat]
      /\ lanesDone'[node] <= Pool!LanesTotal(node)
  BY <1>1, PoolFacts DEF dagVars, PoolIdle, PoolP!TypeOK, PoolP!progress, PoolP!ProgressType,
     Pool!LanesTotal, PoolP!LanesTotal
<1>3. \A n \in Node : lanesDone[n] <= lanesDone'[n]
  BY <1>1, <1>2, PlaceEffect, LanesGrow
<1>4. /\ Paid' \subseteq OneAtATime /\ Cardinality(Paid) <= Cardinality(Paid')
      /\ Paid # Paid' => Cardinality(Paid) < Cardinality(Paid')
      /\ Cardinality(Paid) \in Nat /\ Cardinality(Paid') \in Nat
  BY <1>2, <1>3, PaidGrows
<1>5. CASE Emitted # {}
  BY <1>1, <1>4, <1>5 DEF BaselineOK, Filling, AfterPlace
<1>6. CASE Emitted = {} /\ Kind[node] = "gather"
  <2>1. lanesDone[node] < lanesDone'[node] /\ Pool!LanesTotal(node) = VLEN /\ VLEN \in Nat
    BY <1>1, <1>6, FirstLands, LaneFacts DEF SequentialCap, Pool!LanesTotal
  <2>2. lanesDone[node] \in Nat /\ lanesDone'[node] \in Nat
    BY <1>1, <1>2
  <2>3. lanesDone[node] \in 0 .. VLEN - 1
    BY <1>2, <2>1, <2>2
  <2>4. <<node, lanesDone[node]>> \in Paid'
    BY <1>1, <1>6, <2>1, <2>3 DEF Paid, PaidAt, OneAtATime
  <2>5. <<node, lanesDone[node]>> \notin Paid
    BY <1>6, <2>2 DEF Paid, PaidAt
  <2>6. Cardinality(Paid) < Cardinality(Paid')
    BY <1>4, <2>4, <2>5
  <2> QED
    BY <1>1, <1>4, <2>6 DEF BaselineOK, AfterPlace
<1>7. CASE Emitted = {} /\ Kind[node] # "gather"
  <2>1. at' = "read" /\ Kind[node'] # "gather"
    BY <1>1, <1>7, FirstLands DEF SequentialCap, AfterPlace
  <2> QED
    BY <1>1, <1>4, <2>1 DEF BaselineOK
<1> QED
  BY <1>5, <1>6, <1>7

\* A node is committed, and pays for the cycle it landed in.
LEMMA CommitPays ==
  ASSUME RunnerInv, BaselineOK, CommitNode
  PROVE  BaselineOK'
<1>1. /\ at = "read" /\ at' = "pick" /\ UNCHANGED <<poolVars, C>> /\ Filling /\ Emitted # {}
  BY DEF RunnerInv, RefusalOK, CommitNode, Goto, Filling
<1>2. node \in Node \ committed /\ committed' = committed \cup {node}
  BY <1>1, CommitStep
<1>3. lanesDone \in [Node -> Nat] /\ lanesDone' = lanesDone
  BY <1>1, PoolFacts DEF RunnerInv, PartsOK, poolVars
<1>4. /\ Cardinality(Paid) <= Cardinality(Paid')
      /\ Paid # Paid' => Cardinality(Paid) < Cardinality(Paid')
      /\ Cardinality(Paid) \in Nat /\ Cardinality(Paid') \in Nat
  BY <1>2, <1>3, PaidGrows
<1>5. Kind[node] # "gather" => Paid # Paid'
  <2> SUFFICES ASSUME Kind[node] # "gather" PROVE Paid # Paid'
    OBVIOUS
  <2>1. <<node, 0>> \in OneAtATime
    BY <1>2, LaneFacts DEF OneAtATime
  <2>2. <<node, 0>> \in Paid' /\ <<node, 0>> \notin Paid
    BY <1>2, <2>1 DEF Paid, PaidAt
  <2> QED
    BY <2>2
<1> QED
  BY <1>1, <1>4, <1>5 DEF BaselineOK

\* An emitted cycle is paid for when it is counted.
LEMMA CountedCyclePays ==
  ASSUME SequentialCap, BaselineOK, at = "collect", CollectGarbage, CountCycle
  PROVE  BaselineOK'
<1>1. C' = C + 1 /\ at' = (IF C + 1 > Cap THEN "capped" ELSE "top")
  BY DEF CountCycle, Goto
<1>2. UNCHANGED <<committed, lanesDone>>
  BY <1>1 DEF CollectGarbage, dagVars, poolVars
<1>3. Cardinality(Paid') = Cardinality(Paid)
  BY <1>2, SamePaid
<1>4. Cardinality(Paid) \in Nat /\ Cardinality(Paid) <= Cardinality(OneAtATime)
      /\ Cardinality(OneAtATime) \in Nat
  BY Counted DEF Paid, PaidAt
<1>5. C \in Nat /\ C + 1 <= Cardinality(Paid)
  BY <1>1, <1>4 DEF BaselineOK
<1>6. at' = "top"
  BY <1>1, <1>4, <1>5 DEF SequentialCap
<1> QED
  BY <1>1, <1>3, <1>5, <1>6 DEF BaselineOK, Filling

\* The calls that land no lane and commit no node.
LEMMA StillPaid ==
  ASSUME BaselineOK, UNCHANGED <<committed, lanesDone, C>>, at' # "capped",
         at' \in {"advance", "collect"} => C < Cardinality(Paid),
         Filling' /\ Emitted' # {} => \/ C < Cardinality(Paid)
                                      \/ at' = "read" /\ Kind[node'] # "gather"
  PROVE  BaselineOK'
BY SamePaid DEF BaselineOK

\* The calls for a node that is being placed.
LEMMA InnerPays ==
  ASSUME SequentialCap, RunnerInv, BaselineOK, RunnerInv',
         Allocate \/ PlaceNode \/ GiveBack \/ ConsumeRead
  PROVE  BaselineOK'
<1>1. CASE PlaceNode
  BY <1>1, PlacePays
<1>2. CASE Allocate \/ GiveBack \/ ConsumeRead
  <2>1. /\ (at \in {"write", "unwrite"} /\ at' \in {"place", "pick"}) \/ (at = "read" /\ at' = at)
        /\ UNCHANGED <<committed, lanesDone, C, node, Emitted>>
    BY <1>2 DEF Allocate, GiveBack, ConsumeRead, Goto, dagVars, poolVars, ownVars, Emitted
  <2>2. Filling
    BY <2>1 DEF Filling
  <2> QED
    BY <2>1, <2>2, StillPaid DEF BaselineOK
<1> QED
  BY <1>1, <1>2

\* A node is taken.
LEMMA TakePays ==
  ASSUME BaselineOK, NEW n, Take(n)
  PROVE  BaselineOK'
<1>1. /\ at = "pick" /\ at' \in {"place", "write"} /\ UNCHANGED <<committed, lanesDone, C, Emitted>>
  BY DEF Take, Goto, dagVars, poolVars, Emitted
<1>2. Filling
  BY <1>1 DEF Filling
<1> QED
  BY <1>1, <1>2, StillPaid DEF BaselineOK

\* The schedule begins with nothing paid and nothing owed.
LEMMA NothingOwed ==
  ASSUME RunnerInit
  PROVE  BaselineOK
<1>1. C = 0 /\ at = "top"
  BY DEF RunnerInit
<1>2. Cardinality(Paid) \in Nat
  BY Counted DEF Paid, PaidAt
<1> QED
  BY <1>1, <1>2 DEF BaselineOK, Filling
=============================================================================
