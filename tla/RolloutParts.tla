----------------------------- MODULE RolloutParts -----------------------------
(***************************************************************************)
(* What a trial's calls and rollbacks do to each of the parts, for the     *)
(* proofs about rollout.schedule_rollout (RolloutProofs): the calls of a   *)
(* trial are steps of the verified allocator, graph and units, their       *)
(* histories begin at the state before the trial, and each rollback leads  *)
(* back there.                                                             *)
(***************************************************************************)
EXTENDS RolloutHistory, SequenceTheorems, FiniteSetTheorems, WellFoundedInduction, TLAPS

DagH == INSTANCE DepDagProofs WITH Graphs <- {Graph}, recording <- dagRecording,
          log <- dagLog, target <- dagTarget, inFlight <- flying, past <- dagPast
RegH == INSTANCE RegAllocProofs WITH ReadCounts <- {ReadCount}, MaxLog <- LogRoom,
          recording <- regRecording, log <- regLog, target <- regTarget, past <- regPast

\* The units' one checkpoint saw the progress before the trial.
Saved == [k \in tokens |-> origin.progress]
\* No lanes are recorded of earlier cycles.
NothingRun == [nl \in { x \in Node \X (0 .. VLEN - 1) : x[2] < Pool!LanesTotal(x[1]) } |-> 0]
PoolH == INSTANCE FuncUnitPoolProofs WITH MaxTokens <- 1, recording <- poolRecording,
          log <- poolLog, executed <- NothingRun, saved <- Saved

\* A trial is open.
Trying == dagRecording

\* Where an open trial is: the parts are rolled back in turn.
TrialPlace ==
  /\ at \in {"reset", "judge", "undo", "undoRegs", "undoDag"} \/ Filling
  /\ poolRecording = (at \notin {"undoRegs", "undoDag"})
  /\ regRecording = (at # "undoDag")
  /\ regTarget = IF at = "undoRegs" THEN 0 ELSE -1
  /\ dagTarget = IF at = "undoDag" THEN 0 ELSE -1
  /\ dry \/ at = "reset"
  /\ Filling => queue \in Seq(Node)
  /\ at \in {"write", "place", "unwrite", "read"} => node \in Node

\* The parts with their histories.  The units' indices and bundle matter only
\* in a cycle that emits.
UnitsTried == PoolH!TypeOK /\ PoolH!Modes /\ PoolH!BudgetExact /\ PoolH!LogExact
TrialParts == DagH!DagInv /\ RegH!RegInv /\ UnitsTried

\* A state of the graph, with what was committed this cycle and is waited for.
point == [dag |-> Dag!live, inFlight |-> flying]

\* The oldest state a history leads back to, x being the present one.
Root(past, x) == IF past = <<>> THEN x ELSE past[1]

\* Each history starts at the state before the trial.
TrialStart ==
  /\ origin = [dag |-> origin.dag, regs |-> origin.regs, progress |-> origin.progress]
  /\ Root(dagPast, point) = [dag |-> origin.dag, inFlight |-> {}]
  /\ Root(regPast, Reg!regs) = origin.regs
  /\ ~poolRecording => Pool!progress = origin.progress
  /\ at = "reset" => regPast = <<>>

\* RunnerInv, between cycles, of a state of the graph, the allocator and the
\* progress that need not be the present one.
LandedIn(p, n) ==
  IF Kind[n] \in {"gather", "vec_elem"} THEN 0 .. p.lanesDone[n] - 1
  ELSE IF p.lanesDone[n] = 1 THEN LanesOf(n) ELSE {}
ToRead(d, t) == { o \in ReadersOf(t) : o[1] \notin d.committed }

TablesAt(d, r, p) ==
  /\ readCount = ReadCount
  /\ scratch \in [0 .. SCRATCH - 1 -> [tag : Tag \cup {"none"}, lane : Nat]]
  /\ \A n \in Node :
       /\ n \in d.committed => p.lanesDone[n] = Pool!LanesTotal(n)
       /\ n \notin d.committed /\ p.lanesDone[n] > 0 => Dest(n) \subseteq DOMAIN r.assigned
       /\ \A t \in Dest(n) \cap DOMAIN r.assigned : \A j \in LandedIn(p, n) :
            \A v \in LanesWritten(n, j) : scratch[r.assigned[t] + v.lane] = v
  /\ \A t \in DOMAIN r.assigned : /\ r.remaining[t] = Cardinality(ToRead(d, t))
                                  /\ r.remaining[t] = 0 => ReadCount[t] = 0
  /\ \A n \in d.committed : \A t \in Dest(n) \ DOMAIN r.assigned : ToRead(d, t) = {}

OriginOK == TablesAt(origin.dag, origin.regs, origin.progress)

-----------------------------------------------------------------------------
\* An entry is noted when one is logged.
LEMMA AppendDiffers ==
  ASSUME NEW S, NEW q \in Seq(S), NEW x
  PROVE  Append(q, x) # q
<1>1. q \in Seq(S \cup {x}) /\ x \in S \cup {x}
  OBVIOUS
<1>2. Len(Append(q, x)) = Len(q) + 1 /\ Len(q) \in Nat
  BY <1>1, AppendProperties
<1> QED
  BY <1>2

\* The program has finitely many operands.
LEMMA FiniteProgram ==
  /\ Node \subseteq Nat /\ IsFiniteSet(Node)
  /\ \A t : Cardinality(ReadersOf(t)) \in Nat
<1> DEFINE Words == Seq([tag : Tag, lane : {All} \cup 0 .. VLEN - 1])
           Instruction == [kind : STRING, dest : SUBSET Tag, reads : Words]
<1>1. /\ Len(Program) \in Nat /\ Node = 1 .. Len(Program)
      /\ \A n \in Node : Reads(n) \in Words
  <2>1. Program \in Seq(Instruction)
    BY ProgramAssumption
  <2> HIDE DEF Instruction
  <2>2. /\ Len(Program) \in Nat /\ Node = 1 .. Len(Program)
        /\ \A n \in Node : Program[n] \in Instruction
    BY <2>1, LenProperties, ElementOfSeq DEF Node
  <2> QED
    BY <2>2 DEF Instruction, Reads
<1>2. Node \subseteq Nat /\ IsFiniteSet(Node)
  BY <1>1, FS_Interval
<1> DEFINE f == [n \in Node |-> {n} \X DOMAIN Reads(n)]
           T == { {n} \X DOMAIN Reads(n) : n \in Node }
<1>3. IsFiniteSet(T)
  <2>1. f \in Surjection(Node, T)
    BY DEF Surjection
  <2> QED
    BY <2>1, <1>2, FS_Surjection
<1>4. ASSUME NEW n \in Node PROVE IsFiniteSet({n} \X DOMAIN Reads(n))
  <2>1. DOMAIN Reads(n) = 1 .. Len(Reads(n)) /\ Len(Reads(n)) \in Nat
    BY <1>1, <1>4, LenProperties
  <2>2. IsFiniteSet({n})
    BY FS_Singleton
  <2>3. IsFiniteSet(1 .. Len(Reads(n)))
    BY <2>1, FS_Interval
  <2> QED
    BY <2>1, <2>2, <2>3, FS_Product
<1> HIDE DEF Words, Instruction
<1>5. IsFiniteSet(Operands)
  BY <1>3, <1>4, FS_UNION DEF Operands
<1>6. \A t : Cardinality(ReadersOf(t)) \in Nat
  BY <1>5, FS_Subset, FS_CardinalityType DEF ReadersOf
<1> QED
  BY <1>2, <1>6

\* What the parts' proofs assume of their parameters.
LEMMA TrialSizes ==
  /\ VLEN \in Nat \ {0} /\ SCRATCH \in Nat /\ SCRATCH % VLEN = 0
  /\ VecTag \cap ScalarTag = {} /\ {ReadCount} \subseteq [RegH!Tag -> Nat]
  /\ Node \subseteq Nat /\ DagH!IsFiniteSet(Node)
  /\ {Graph} \subseteq [raw : SUBSET DagH!Forward, war : SUBSET DagH!Forward]
  /\ Capacity \in [PoolH!Engine -> Nat \ {0}] /\ Kind \in [Node -> PoolH!Kinds]
<1>1. /\ VLEN \in Nat \ {0} /\ SCRATCH \in Nat /\ SCRATCH % VLEN = 0
      /\ VecTag \cap ScalarTag = {} /\ {ReadCount} \subseteq [RegH!Tag -> Nat]
  BY ProgramAssumption, SizesAssumption, FiniteProgram DEF RegH!Tag, Tag, ReadCount
<1>2. /\ Node \subseteq Nat /\ DagH!IsFiniteSet(Node)
      /\ {Graph} \subseteq [raw : SUBSET DagH!Forward, war : SUBSET DagH!Forward]
  BY FiniteProgram DEF Graph, DagH!Forward, IsFiniteSet, DagH!IsFiniteSet
<1>3. Capacity \in [PoolH!Engine -> Nat \ {0}] /\ Kind \in [Node -> PoolH!Kinds]
  BY ProgramAssumption, SizesAssumption DEF PoolH!Engine, PoolH!Kinds, Pool!Engine, Pool!Kinds
<1> QED
  BY <1>1, <1>2, <1>3

\* A recorded call of the allocator is a step of the allocator its proofs are
\* about, with the history the trial keeps.
LEMMA RegTried ==
  ASSUME RegH!RegInv, regRecording, NoteRegs
  PROVE  /\ \A t : Reg!Write(t) => RegH!HWrite(t)
         /\ \A t : Reg!Unwrite(t) => RegH!HUnwrite(t)
         /\ \A t : Reg!Read(t) => RegH!HRead(t)
<1> USE DEF Reg!Become, RegH!Become, Reg!Record, RegH!Record, Reg!Entry, RegH!Entry,
            Reg!regs, RegH!regs, Reg!Bind, RegH!Bind, Reg!Unbind, RegH!Unbind,
            Reg!With, RegH!With, Reg!Without, RegH!Without, Reg!Restrict, RegH!Restrict,
            Reg!Idle, RegH!Idle, Reg!Room, RegH!Room, Reg!Base, RegH!Base
<1>1. ASSUME NEW e, Reg!Record(e) PROVE RegH!Note
  <2>1. regLog' = Append(regLog, e) /\ regLog \in Seq(RegH!Range(regLog))
    BY <1>1 DEF RegH!RegInv, RegH!TrialGood
  <2>2. regLog' # regLog
    BY <2>1, AppendDiffers
  <2> QED
    BY <2>2 DEF NoteRegs, RegH!Note
<1>2. ASSUME NEW t, Reg!WriteVec(t) PROVE RegH!WriteVec(t) /\ RegH!Note
  BY <1>1, <1>2 DEF Reg!WriteVec, RegH!WriteVec
<1>3. ASSUME NEW t, Reg!WriteWord(t) PROVE RegH!WriteWord(t) /\ RegH!Note
  <2>1. RegH!WriteWord(t)
    <3>1. /\ Reg!BestFit(Reg!regs) = RegH!BestFit(RegH!regs)
          /\ \A s, g : Reg!PopWord(s, g) = RegH!PopWord(s, g)
          /\ \A q : Reg!Last(q) = RegH!Last(q)
      BY DEF Reg!BestFit, RegH!BestFit, Reg!PopWord, RegH!PopWord, Reg!Front, RegH!Front,
             Reg!Last, RegH!Last
    <3> QED
      BY <1>3, <3>1 DEF Reg!WriteWord, RegH!WriteWord
  <2>2. RegH!Note
    BY <1>1, <1>3 DEF Reg!WriteWord
  <2> QED
    BY <2>1, <2>2
<1>4. ASSUME NEW t, Reg!WriteClaim(t) PROVE RegH!WriteClaim(t) /\ RegH!Note
  <2>1. RegH!WriteClaim(t)
    <3>1. Reg!BestFit(Reg!regs) = RegH!BestFit(RegH!regs)
      BY DEF Reg!BestFit, RegH!BestFit
    <3>2. \A s, g : Reg!PopWord(s, g) = RegH!PopWord(s, g) /\ Reg!Claim(s, g) = RegH!Claim(s, g)
      BY DEF Reg!PopWord, RegH!PopWord, Reg!Front, RegH!Front, Reg!Claim, RegH!Claim,
             Reg!WordsInOrder, RegH!WordsInOrder
    <3> QED
      BY <1>4, <3>1, <3>2 DEF Reg!WriteClaim, RegH!WriteClaim
  <2>2. RegH!Note
    BY <1>1, <1>4 DEF Reg!WriteClaim
  <2> QED
    BY <2>1, <2>2
<1>5. ASSUME NEW t, Reg!Write(t) PROVE RegH!HWrite(t)
  <2>1. (RegH!WriteVec(t) \/ RegH!WriteWord(t) \/ RegH!WriteClaim(t)) /\ RegH!Note
    BY <1>2, <1>3, <1>4, <1>5 DEF Reg!Write
  <2>2. RegH!CanWrite(RegH!regs, t)
    BY <1>5 DEF Reg!Write, Reg!CanWrite, RegH!CanWrite, Reg!BestFit, RegH!BestFit
  <2> QED
    BY <1>5, <2>1, <2>2 DEF Reg!Write, RegH!HWrite, RegH!Write
<1>6. ASSUME NEW t, Reg!Unwrite(t) PROVE RegH!HUnwrite(t)
  <2>1. RegH!Note
    BY <1>1, <1>6 DEF Reg!Unwrite
  <2> QED
    BY <1>6, <2>1 DEF Reg!Unwrite, RegH!HUnwrite, RegH!Unwrite, Reg!Reversible, RegH!Reversible,
         Reg!Unclaim, RegH!Unclaim, Reg!PutWord, RegH!PutWord
<1>7. ASSUME NEW t, Reg!Read(t) PROVE RegH!HRead(t)
  <2>1. RegH!Note
    BY <1>1, <1>7 DEF Reg!Read
  <2> QED
    BY <1>7, <2>1 DEF Reg!Read, RegH!HRead, RegH!Read, Reg!PutWord, RegH!PutWord
<1> QED
  BY <1>5, <1>6, <1>7

\* And likewise for the dependency graph.
LEMMA DagTried ==
  ASSUME DagH!DagInv, dagRecording, NoteDag
  PROVE  /\ Dag!Commit(node) /\ NoteCommit => DagH!HCommit(node)
         /\ Dag!Advance /\ flying' = {} => DagH!HAdvance
<1> USE DEF Dag!Become, DagH!Become, Dag!Record, DagH!Record, Dag!live, DagH!live,
            Dag!Idle, DagH!Idle, Dag!Do, DagH!Do, Dag!One, DagH!One
<1>1. ASSUME NEW e, Dag!Record(e) PROVE DagH!Note
  <2>1. dagLog' = Append(dagLog, e) /\ dagLog \in Seq(DagH!Entry)
    BY <1>1 DEF DagH!DagInv, DagH!TypeOK
  <2>2. dagLog' # dagLog
    BY <2>1, AppendDiffers
  <2> QED
    BY <2>2 DEF NoteDag, DagH!Note, DagH!now
<1>2. ASSUME Dag!Commit(node), NoteCommit PROVE DagH!HCommit(node)
  <2>1. DagH!Note
    BY <1>1, <1>2 DEF Dag!Commit
  <2> QED
    BY <1>2, <2>1 DEF Dag!Commit, DagH!HCommit, DagH!Commit, Dag!CommitEntry, DagH!CommitEntry,
         Dag!WarOut, DagH!WarOut, Dag!RawOut, DagH!RawOut, NoteCommit, DagH!HasReader
<1>3. ASSUME Dag!Advance, flying' = {} PROVE DagH!HAdvance
  <2>1. DagH!Note
    BY <1>1, <1>3 DEF Dag!Advance
  <2> QED
    BY <1>3, <2>1 DEF Dag!Advance, DagH!HAdvance, DagH!Advance, Dag!AdvanceEntry, DagH!AdvanceEntry
<1> QED
  BY <1>2, <1>3

\* A rollback of the allocator that notes as it pops, and of the graph.
LEMMA RegUndone ==
  ASSUME RegH!RegInv
  PROVE  /\ Reg!Checkpoint /\ UNCHANGED regPast => RegH!HCheckpoint
         /\ Reg!Rollback(0) /\ UNCHANGED regPast => RegH!HRollback(0)
         /\ Reg!RollbackDone /\ UNCHANGED regPast => RegH!HRollbackDone
         /\ Reg!PopEntry => regLog' # regLog
         /\ Reg!PopEntry /\ regPast' = Front(regPast) => RegH!HPopEntry
<1> USE DEF Reg!Idle, RegH!Idle
<1>1. Reg!Checkpoint /\ UNCHANGED regPast => RegH!HCheckpoint
  BY DEF Reg!Checkpoint, RegH!HCheckpoint, RegH!Checkpoint
<1>2. Reg!Rollback(0) /\ UNCHANGED regPast => RegH!HRollback(0)
  BY DEF Reg!Rollback, RegH!HRollback, RegH!Rollback
<1>3. Reg!RollbackDone /\ UNCHANGED regPast => RegH!HRollbackDone
  BY DEF Reg!RollbackDone, RegH!HRollbackDone, RegH!RollbackDone
<1>4. ASSUME Reg!PopEntry PROVE regLog' # regLog
  <2>1. regLog \in Seq(RegH!Range(regLog)) /\ regTarget \in {-1} \cup 0 .. Len(regLog)
        /\ regTarget # -1 /\ Len(regLog) > regTarget /\ regLog' = Reg!Front(regLog)
    BY <1>4 DEF RegH!RegInv, RegH!TrialGood, RegH!TypeOK, Reg!PopEntry
  <2>2. Len(regLog) > 0
    BY <2>1
  <2>3. Len(RegH!Front(regLog)) = Len(regLog) - 1 /\ Len(regLog) \in Nat
    BY <2>1, <2>2, RegH!Cut, TrialSizes DEF RegH!CutTo
  <2> QED
    BY <2>1, <2>3 DEF Reg!Front, RegH!Front
<1>5. ASSUME Reg!PopEntry, regPast' = Front(regPast) PROVE RegH!HPopEntry
  <2>1. \A q, w : Reg!RemoveFirst(q, w) = RegH!RemoveFirst(q, w)
    <3> TAKE q, w
    <3>1. Reg!SelectInSeq(q, LAMBDA v : v = w) = RegH!SelectInSeq(q, LAMBDA v : v = w)
      BY DEF Reg!SelectInSeq, RegH!SelectInSeq, Reg!Min, RegH!Min
    <3>2. \A i : Reg!RemoveAt(q, i) = RegH!RemoveAt(q, i)
      BY DEF Reg!RemoveAt, RegH!RemoveAt
    <3> QED
      BY <3>1, <3>2 DEF Reg!RemoveFirst, RegH!RemoveFirst
  <2>2. \A s, t, w, n : Reg!Bind(s, t, w, n) = RegH!Bind(s, t, w, n) /\ Reg!Unbind(s, t) = RegH!Unbind(s, t)
    BY DEF Reg!Bind, RegH!Bind, Reg!Unbind, RegH!Unbind, Reg!With, RegH!With,
           Reg!Without, RegH!Without, Reg!Restrict, RegH!Restrict
  <2>3. \A s, g : Reg!Claim(s, g) = RegH!Claim(s, g) /\ Reg!Unclaim(s, g) = RegH!Unclaim(s, g)
    BY DEF Reg!Claim, RegH!Claim, Reg!Unclaim, RegH!Unclaim, Reg!With, RegH!With,
           Reg!Without, RegH!Without, Reg!Restrict, RegH!Restrict, Reg!WordsInOrder, RegH!WordsInOrder
  <2>5. \A s, w : Reg!TakeWord(s, w) = RegH!TakeWord(s, w) /\ Reg!PutWord(s, w) = RegH!PutWord(s, w)
    BY <2>1 DEF Reg!TakeWord, RegH!TakeWord, Reg!PutWord, RegH!PutWord, Reg!Base, RegH!Base
  <2>6. \A s, e : Reg!RetakeWord(s, e) = RegH!RetakeWord(s, e)
    BY <2>5 DEF Reg!RetakeWord, RegH!RetakeWord
  <2>7. \A s, e : Reg!UndoWrite(s, e) = RegH!UndoWrite(s, e)
    BY <2>2, <2>3, <2>5 DEF Reg!UndoWrite, RegH!UndoWrite, Reg!Base, RegH!Base
  <2>8. \A s, e : Reg!UndoRead(s, e) = RegH!UndoRead(s, e)
    BY <2>1, <2>2, <2>6 DEF Reg!UndoRead, RegH!UndoRead
  <2>9. \A s, e, r : Reg!UndoUnwrite(s, e, r) = RegH!UndoUnwrite(s, e, r)
    BY <2>1, <2>2, <2>3, <2>5, <2>6 DEF Reg!UndoUnwrite, RegH!UndoUnwrite, Reg!Base, RegH!Base
  <2>4. Reg!Undo(Reg!regs, Reg!Last(regLog), readCount) = RegH!Undo(RegH!regs, RegH!Last(regLog), readCount)
    BY <2>7, <2>8, <2>9 DEF Reg!Undo, RegH!Undo, Reg!regs, RegH!regs, Reg!Last, RegH!Last
  <2> QED
    BY <1>5, <2>4 DEF Reg!PopEntry, RegH!HPopEntry, RegH!PopEntry, Reg!Become, RegH!Become,
       Reg!Front, RegH!Front, Front
<1> QED
  BY <1>1, <1>2, <1>3, <1>4, <1>5

\* The trial's calls on the graph that open, roll back and close it, in the same way.
LEMMA DagUndone ==
  ASSUME DagH!DagInv
  PROVE  /\ Dag!Checkpoint /\ UNCHANGED <<flying, dagPast>> => DagH!HCheckpoint
         /\ Dag!Rollback(0) /\ UNCHANGED <<flying, dagPast>> => DagH!HRollback(0)
         /\ Dag!RollbackDone /\ UNCHANGED <<flying, dagPast>> => DagH!HRollbackDone
         /\ Dag!PopEntry => dagLog' # dagLog
         /\ Dag!PopEntry /\ dagPast' = Front(dagPast) /\ flying' = Last(dagPast).inFlight => DagH!HPopEntry
<1> USE DEF Dag!Idle, DagH!Idle
<1>1. Dag!Checkpoint /\ UNCHANGED <<flying, dagPast>> => DagH!HCheckpoint
  BY DEF Dag!Checkpoint, DagH!HCheckpoint, DagH!Checkpoint
<1>2. Dag!Rollback(0) /\ UNCHANGED <<flying, dagPast>> => DagH!HRollback(0)
  BY DEF Dag!Rollback, DagH!HRollback, DagH!Rollback
<1>3. Dag!RollbackDone /\ UNCHANGED <<flying, dagPast>> => DagH!HRollbackDone
  BY DEF Dag!RollbackDone, DagH!HRollbackDone, DagH!RollbackDone
<1>4. ASSUME Dag!PopEntry PROVE dagLog' # dagLog
  <2>1. dagLog \in Seq(DagH!Entry) /\ dagTarget \in {-1} \cup 0 .. Len(dagLog)
        /\ dagTarget # -1 /\ Len(dagLog) > dagTarget /\ dagLog' = SubSeq(dagLog, 1, Len(dagLog) - 1)
    BY <1>4 DEF DagH!DagInv, DagH!TypeOK, Dag!PopEntry
  <2>2. Len(dagLog) \in Nat /\ Len(dagLog) > 0
    BY <2>1
  <2>3. Len(SubSeq(dagLog, 1, Len(dagLog) - 1)) = Len(dagLog) - 1
    BY <2>2
  <2> QED
    BY <2>1, <2>2, <2>3
<1>5. ASSUME Dag!PopEntry, dagPast' = Front(dagPast), flying' = Last(dagPast).inFlight PROVE DagH!HPopEntry
  BY <1>5 DEF Dag!PopEntry, DagH!HPopEntry, DagH!PopEntry, Dag!Become, DagH!Become,
     Dag!Undo, DagH!Undo, Dag!live, DagH!live, Dag!One, DagH!One, Front, Last
<1> QED
  BY <1>1, <1>2, <1>3, <1>4, <1>5

\* And for the units.
LEMMA UnitsCalls ==
  /\ \A n : Pool!Place(n) => PoolH!Place(n) /\ PoolH!Offer(n)
  /\ \A d : Pool!NewCycle(d) => PoolH!NewCycle(d)
  /\ Pool!Checkpoint => PoolH!Checkpoint
  /\ Pool!Rollback(0) => PoolH!Rollback(0)
<1> USE DEF Pool!Engine, PoolH!Engine, Pool!NoSlots, PoolH!NoSlots, Pool!NoEngine, PoolH!NoEngine,
            Pool!Slot, PoolH!Slot, Pool!All, PoolH!All, Pool!Emit, PoolH!Emit, Pool!Land, PoolH!Land,
            Pool!Record, PoolH!Record, Pool!OldLanes, PoolH!OldLanes, Pool!OldChoice, PoolH!OldChoice,
            Pool!Lanes, PoolH!Lanes, Pool!Refused, PoolH!Refused, Pool!Lesser, PoolH!Lesser,
            Pool!Native, PoolH!Native, Pool!Whole, PoolH!Whole, Pool!LanesTotal, PoolH!LanesTotal,
            Pool!CanEvict, PoolH!CanEvict, Pool!Victim, PoolH!Victim, Pool!LastPlaced, PoolH!LastPlaced,
            Pool!RemoveAt, PoolH!RemoveAt
<1>2. ASSUME NEW n, Pool!Offer(n) PROVE PoolH!Offer(n)
  BY <1>2 DEF Pool!Offer, PoolH!Offer, Pool!Complete, PoolH!Complete
<1>3. ASSUME NEW n, Pool!PlaceOnValu(n) PROVE PoolH!PlaceOnValu(n)
  BY <1>3 DEF Pool!PlaceOnValu, PoolH!PlaceOnValu
<1>4. ASSUME NEW n, Pool!Spill(n) PROVE PoolH!Spill(n)
  BY <1>4 DEF Pool!Spill, PoolH!Spill
<1>5. ASSUME NEW n, Pool!PlaceWhole(n) PROVE PoolH!PlaceWhole(n)
  BY <1>5 DEF Pool!PlaceWhole, PoolH!PlaceWhole
<1>6. ASSUME NEW n, Pool!PlaceByEviction(n) PROVE PoolH!PlaceByEviction(n)
  BY <1>6 DEF Pool!PlaceByEviction, PoolH!PlaceByEviction
<1>7. ASSUME NEW n, Pool!RefuseWhole(n) PROVE PoolH!RefuseWhole(n)
  BY <1>7 DEF Pool!RefuseWhole, PoolH!RefuseWhole
<1>8. ASSUME NEW n, Pool!PlaceGather(n) PROVE PoolH!PlaceGather(n)
  BY <1>8 DEF Pool!PlaceGather, PoolH!PlaceGather
<1>9. ASSUME NEW n, Pool!PlaceDebug(n) PROVE PoolH!PlaceDebug(n)
  BY <1>9 DEF Pool!PlaceDebug, PoolH!PlaceDebug
<1>10. ASSUME NEW n, Pool!Place(n) PROVE PoolH!Place(n) /\ PoolH!Offer(n)
  <2> HIDE DEF Pool!RemoveAt, PoolH!RemoveAt, Pool!Refused, PoolH!Refused
  <2> QED
    BY <1>2, <1>3, <1>4, <1>5, <1>6, <1>7, <1>8, <1>9, <1>10 DEF Pool!Place, PoolH!Place
<1>11. ASSUME NEW d, Pool!NewCycle(d) PROVE PoolH!NewCycle(d)
  BY <1>11 DEF Pool!NewCycle, PoolH!NewCycle
<1>12. Pool!Checkpoint => PoolH!Checkpoint
  BY DEF Pool!Checkpoint, PoolH!Checkpoint, Pool!Cardinality, PoolH!Cardinality
<1>13. Pool!Rollback(0) => PoolH!Rollback(0)
  BY DEF Pool!Rollback, PoolH!Rollback, Pool!LanesBefore, PoolH!LanesBefore,
         Pool!ChoiceBefore, PoolH!ChoiceBefore, Pool!Since, PoolH!Since,
         Pool!LastRestored, PoolH!LastRestored, Pool!Min, PoolH!Min
<1> QED
  BY <1>10, <1>11, <1>12, <1>13

\* place() in a trial.
LEMMA TrialPlaces ==
  ASSUME UnitsTried, dry, NEW n \in Node, Pool!Place(n), UNCHANGED origin
  PROVE  /\ UnitsTried' /\ UNCHANGED <<dry, poolRecording, tokens>>
         /\ \/ PoolH!Refused \/ PoolH!Placed(n) \/ PoolH!PlaceByEviction(n)
<1>1. /\ PoolH!TypeOK /\ PoolH!Modes /\ PoolH!BudgetExact /\ PoolH!LogExact
      /\ PoolH!IndicesGrow /\ PoolH!EvictionIndexValid
  BY DEF UnitsTried, PoolH!IndicesGrow, PoolH!EvictionIndexValid
<1>2. /\ PoolH!Place(n) /\ PoolH!Offer(n) /\ UNCHANGED <<dry, poolRecording, tokens>>
      /\ offered' = offered \cup {n}
  BY UnitsCalls DEF Pool!Place, Pool!Offer
<1>3. UNCHANGED <<NothingRun, Saved>> /\ UNCHANGED <<tokens, Saved>>
  BY <1>2 DEF NothingRun, Pool!LanesTotal, Saved
<1>4. CASE PoolH!Refused
  <2>1. UNCHANGED <<free, bundle, valuElems, lanesDone, choice, poolLog>>
    BY <1>4 DEF PoolH!Refused
  <2>2. PoolH!TypeOK' /\ PoolH!Modes'
    BY <1>1, <1>2, <1>3, <2>1 DEF PoolH!TypeOK, PoolH!Modes, PoolH!progress, PoolH!NoSlots
  <2>3. PoolH!BudgetExact'
    BY <1>1, <1>2, <2>1 DEF PoolH!BudgetExact
  <2>4. PoolH!LogExact'
    <3>1. \A token, k : /\ PoolH!LanesBefore(token, k)' = PoolH!LanesBefore(token, k)
                        /\ PoolH!ChoiceBefore(token, k)' = PoolH!ChoiceBefore(token, k)
      BY <2>1 DEF PoolH!LanesBefore, PoolH!ChoiceBefore, PoolH!Since
    <3> QED
      BY <1>1, <1>2, <1>3, <3>1 DEF PoolH!LogExact
  <2> QED
    BY <1>2, <1>4, <2>2, <2>3, <2>4 DEF UnitsTried
<1>5. CASE PoolH!Placed(n)
  <2>1. PICK e, slots, lanes, engine, es : PoolH!Lands(n, e, slots, lanes, engine, es)
    BY <1>5 DEF PoolH!Placed
  <2>2. es \in Seq(PoolH!EntryType) /\ PoolH!Record(es) /\ PoolH!HoldCurrent(es) /\ PoolH!Covered(es)
    BY <2>1 DEF PoolH!Lands
  <2>3. PoolH!LogExact'
    BY <1>1, <1>3, <2>2, PoolH!LogStep, TrialSizes
  <2>4. PoolH!TypeOK'
    BY <1>1, <1>2, <1>3, <1>5, PoolH!LandsType, TrialSizes
  <2>5. PoolH!Modes' /\ PoolH!BudgetExact'
    BY <1>1, <1>2, <1>5, PoolH!LandsModes, PoolH!LandsBudget, TrialSizes
  <2> QED
    BY <1>2, <1>5, <2>3, <2>4, <2>5 DEF UnitsTried
<1>6. CASE PoolH!PlaceByEviction(n)
  <2>1. PICK es \in Seq(PoolH!EntryType) :
          PoolH!Record(es) /\ PoolH!HoldCurrent(es) /\ PoolH!Covered(es)
    BY <1>1, <1>2, <1>6, PoolH!EvictionLog, TrialSizes
  <2>2. PoolH!LogExact'
    BY <1>1, <1>3, <2>1, PoolH!LogStep, TrialSizes
  <2>3. PoolH!TypeOK'
    BY <1>1, <1>2, <1>3, <1>6, PoolH!EvictionType, TrialSizes
  <2>4. PoolH!Modes' /\ PoolH!BudgetExact'
    BY <1>1, <1>2, <1>6, PoolH!EvictionModes, PoolH!EvictionBudget, TrialSizes
  <2> QED
    BY <1>2, <1>6, <2>2, <2>3, <2>4 DEF UnitsTried
<1> QED
  BY <1>1, <1>2, <1>4, <1>5, <1>6, PoolH!PlaceCases, TrialSizes

\* The checkpoint that opens a trial.
LEMMA UnitsOpened ==
  ASSUME UnitsTried, ~poolRecording, tokens = {}, poolLog = << >>, Pool!progress = origin.progress,
         Pool!Checkpoint, UNCHANGED origin
  PROVE  UnitsTried' /\ poolRecording' /\ lanesDone' = lanesDone /\ choice' = choice
<1>1. /\ PoolH!TypeOK /\ PoolH!Modes /\ PoolH!BudgetExact
      /\ poolRecording' = TRUE /\ tokens' = {0} /\ offered' = Node
      /\ UNCHANGED <<free, bundle, valuElems, dry, lanesDone, choice, poolLog>>
  BY DEF UnitsTried, Pool!Checkpoint
<1>2. NothingRun' = NothingRun
  BY DEF NothingRun, Pool!LanesTotal
<1>3. origin.progress = PoolH!progress /\ Saved' = [k \in {0} |-> origin.progress]
  BY <1>1 DEF Saved, Pool!progress, PoolH!progress
<1>4. PoolH!TypeOK'
  <2>1. Saved' \in [{0} -> PoolH!ProgressType]
    BY <1>1, <1>3 DEF PoolH!TypeOK
  <2>2. tokens' \subseteq 0 .. Len(poolLog')
    BY <1>1
  <2> QED
    BY <1>1, <1>2, <2>1, <2>2 DEF PoolH!TypeOK, PoolH!progress
<1>5. PoolH!Modes' /\ PoolH!BudgetExact'
  BY <1>1 DEF PoolH!Modes, PoolH!NoSlots, PoolH!BudgetExact
<1>6. PoolH!LogExact'
  <2>1. \A n, field : PoolH!Since(0, n, field)' = {}
    BY <1>1 DEF PoolH!Since
  <2>2. \A n : PoolH!LanesBefore(0, n)' = lanesDone[n] /\ PoolH!ChoiceBefore(0, n)' = choice[n]
    BY <1>1, <2>1 DEF PoolH!LanesBefore, PoolH!ChoiceBefore
  <2>3. Saved'[0].lanesDone = lanesDone /\ Saved'[0].choice = choice
    BY <1>3 DEF PoolH!progress
  <2> QED
    BY <1>1, <2>2, <2>3 DEF PoolH!LogExact
<1> QED
  BY <1>1, <1>4, <1>5, <1>6 DEF UnitsTried

\* The start of a cycle that is tried out.
LEMMA UnitsStarted ==
  ASSUME UnitsTried, poolRecording, Pool!NewCycle(TRUE), UNCHANGED origin
  PROVE  /\ UnitsTried' /\ UNCHANGED <<poolRecording, lanesDone, choice>>
         /\ dry' = TRUE /\ free' = Capacity
<1>1. /\ PoolH!TypeOK /\ PoolH!Modes /\ PoolH!BudgetExact /\ PoolH!LogExact
      /\ free' = Capacity /\ bundle' = PoolH!NoSlots /\ valuElems' = << >> /\ offered' = {} /\ dry' = TRUE
      /\ UNCHANGED <<lanesDone, choice, poolRecording, poolLog, tokens>>
  BY UnitsCalls DEF UnitsTried, PoolH!NewCycle
<1>2. UNCHANGED <<NothingRun, Saved>>
  BY <1>1 DEF NothingRun, Pool!LanesTotal, Saved
<1>3. PoolH!TypeOK'
  <2>1. bundle' \in [PoolH!Engine \cup {"debug"} -> Seq(PoolH!SlotType)]
    BY <1>1, PoolH!NoSlotsType, TrialSizes
  <2>2. free' \in [PoolH!Engine -> Nat]
    BY <1>1, TrialSizes
  <2>3. \A S : << >> \in Seq(S)
    OBVIOUS
  <2>4. valuElems' \in Seq([node : PoolH!VecElem, idx : Int])
    <3> DEFINE Elem == [node : PoolH!VecElem, idx : Int]
    <3> HIDE DEF Elem
    <3>1. valuElems' \in Seq(Elem)
      BY <1>1, <2>3
    <3> QED
      BY <3>1 DEF Elem
  <2> QED
    BY <1>1, <1>2, <2>1, <2>2, <2>4 DEF PoolH!TypeOK, PoolH!progress
<1>4. PoolH!Modes'
  BY <1>1 DEF PoolH!Modes, PoolH!NoSlots
<1>5. PoolH!BudgetExact'
  BY <1>1, TrialSizes DEF PoolH!BudgetExact
<1>6. PoolH!LogExact'
  <2>1. \A token, k : /\ PoolH!LanesBefore(token, k)' = PoolH!LanesBefore(token, k)
                      /\ PoolH!ChoiceBefore(token, k)' = PoolH!ChoiceBefore(token, k)
    BY <1>1 DEF PoolH!LanesBefore, PoolH!ChoiceBefore, PoolH!Since
  <2> QED
    BY <1>1, <1>2, <2>1 DEF PoolH!LogExact
<1> QED
  BY <1>1, <1>3, <1>4, <1>5, <1>6 DEF UnitsTried

\* The rollback gives back the progress before the trial.
LEMMA UnitsBack ==
  ASSUME UnitsTried, poolRecording, Pool!Rollback(0), UNCHANGED origin
  PROVE  UnitsTried' /\ ~poolRecording' /\ dry' = dry /\ Pool!progress' = origin.progress
<1>1. /\ PoolH!TypeOK /\ PoolH!Modes /\ PoolH!BudgetExact /\ PoolH!LogExact
      /\ PoolH!Rollback(0) /\ 0 \in tokens /\ tokens' = {} /\ poolRecording' = FALSE /\ offered' = Node
      /\ poolLog' = SubSeq(poolLog, 1, 0)
      /\ UNCHANGED <<free, bundle, valuElems, dry>>
  BY UnitsCalls DEF UnitsTried, PoolH!Modes, Pool!Rollback
<1>2. PoolH!progress' = origin.progress
  <2>1. PoolH!progress' = Saved[0]
    BY <1>1, PoolH!RollbackSaved, TrialSizes
  <2> QED
    BY <1>1, <2>1 DEF Saved
<1>3. Saved[0] \in PoolH!ProgressType /\ Saved[0] = origin.progress
  <2>1. Saved \in [tokens -> PoolH!ProgressType]
    BY <1>1 DEF PoolH!TypeOK
  <2> QED
    BY <1>1, <2>1 DEF Saved
<1>4. NothingRun' = NothingRun /\ Saved' = << >> /\ poolLog' = << >>
  <2>1. poolLog \in Seq(PoolH!EntryType)
    BY <1>1 DEF PoolH!TypeOK
  <2>2. SubSeq(poolLog, 1, 0) = << >>
    BY <2>1
  <2> QED
    BY <1>1, <2>2 DEF NothingRun, Pool!LanesTotal, Saved
<1>5. PoolH!TypeOK'
  <2>1. poolLog' \in Seq(PoolH!EntryType)
    <3> DEFINE S == PoolH!EntryType
    <3> HIDE DEF S
    <3>1. << >> \in Seq(S)
      OBVIOUS
    <3> QED
      BY <1>4, <3>1 DEF S
  <2>2. Saved' \in [tokens' -> PoolH!ProgressType] /\ tokens' \subseteq 0 .. Len(poolLog')
    BY <1>1, <1>4
  <2>3. PoolH!progress' \in PoolH!ProgressType
    BY <1>2, <1>3
  <2>4. /\ free' \in [PoolH!Engine -> Nat] /\ bundle' \in [PoolH!Engine \cup {"debug"} -> Seq(PoolH!SlotType)]
        /\ valuElems' \in Seq([node : PoolH!VecElem, idx : Int])
        /\ offered' \subseteq Node /\ dry' \in BOOLEAN /\ poolRecording' \in BOOLEAN
        /\ NothingRun' \in [PoolH!NodeLanes -> Nat]
    BY <1>1, <1>4 DEF PoolH!TypeOK
  <2> QED
    BY <2>1, <2>2, <2>3, <2>4 DEF PoolH!TypeOK
<1>6. PoolH!Modes' /\ PoolH!BudgetExact' /\ PoolH!LogExact'
  BY <1>1, <1>4 DEF PoolH!Modes, PoolH!NoSlots, PoolH!BudgetExact, PoolH!LogExact
<1> QED
  BY <1>1, <1>2, <1>5, <1>6 DEF UnitsTried, PoolH!progress, Pool!progress

\* A step that leaves the units alone.
LEMMA UnitsAlone ==
  ASSUME UnitsTried, UNCHANGED <<poolVars, origin>>
  PROVE  UnitsTried' /\ UNCHANGED <<dry, poolRecording, Pool!progress>>
<1>1. UNCHANGED <<free, bundle, valuElems, offered, dry, lanesDone, choice, poolRecording, poolLog, tokens,
                  NothingRun, Saved>>
  BY DEF poolVars, NothingRun, Pool!LanesTotal, Saved
<1>2. PoolH!TypeOK' /\ PoolH!Modes' /\ PoolH!BudgetExact'
  BY <1>1 DEF UnitsTried, PoolH!TypeOK, PoolH!progress, PoolH!Modes, PoolH!NoSlots, PoolH!BudgetExact
<1>3. PoolH!LogExact'
  <2>1. \A token, k : /\ PoolH!LanesBefore(token, k)' = PoolH!LanesBefore(token, k)
                      /\ PoolH!ChoiceBefore(token, k)' = PoolH!ChoiceBefore(token, k)
    BY <1>1 DEF PoolH!LanesBefore, PoolH!ChoiceBefore, PoolH!Since
  <2> QED
    BY <1>1, <2>1 DEF UnitsTried, PoolH!LogExact
<1> QED
  BY <1>1, <1>2, <1>3 DEF UnitsTried, Pool!progress

-----------------------------------------------------------------------------
\* A history keeps its root as it grows, and as it is gone back through.
LEMMA RootKept ==
  ASSUME NEW q, q \in Seq(RegH!Range(q))
  PROVE  /\ \A x, y : Root(Append(q, x), y) = Root(q, x)
         /\ q # << >> => \A y : Root(RegH!Front(q), RegH!Last(q)) = Root(q, y)
<1>1. ASSUME NEW x, NEW y PROVE Root(Append(q, x), y) = Root(q, x)
  <2>1. RegH!GrownBy(q, x, Append(q, x)) /\ Len(q) = 0 <=> q = << >>
    BY RegH!Grown, TrialSizes, EmptySeq
  <2>2. Append(q, x) # << >>
    BY <2>1 DEF RegH!GrownBy
  <2> QED
    BY <2>1, <2>2 DEF Root, RegH!GrownBy
<1>2. ASSUME q # << >>, NEW y PROVE Root(RegH!Front(q), RegH!Last(q)) = Root(q, y)
  <2>1. Len(q) \in Nat /\ Len(q) > 0
    BY <1>2, EmptySeq, LenProperties
  <2>2. RegH!CutTo(q, RegH!Front(q)) /\ RegH!Last(q) = q[Len(q)]
    BY <2>1, RegH!Cut, TrialSizes DEF RegH!Last
  <2>3. RegH!Front(q) = << >> <=> Len(q) = 1
    BY <2>1, <2>2, EmptySeq DEF RegH!CutTo
  <2> QED
    BY <1>2, <2>1, <2>2, <2>3 DEF Root, RegH!CutTo
<1> QED
  BY <1>1, <1>2

\* What the allocator's invariant says of the history.
LEMMA RegsPast ==
  ASSUME RegH!RegInv
  PROVE  /\ regPast \in Seq(RegH!Range(regPast)) /\ Len(regPast) = Len(regLog) /\ Len(regLog) \in Nat
         /\ regPast = << >> <=> Len(regLog) = 0
<1>1. /\ regPast \in Seq(RegH!Range(regPast)) /\ Len(regPast) = Len(regLog)
  BY DEF RegH!RegInv, RegH!TrialGood, RegH!UndoExact
<1> QED
  BY <1>1, EmptySeq, LenProperties

\* A step of the allocator the proofs are about keeps their invariant.
LEMMA RegsKept ==
  ASSUME RegH!RegInv, RegH!HNext \/ UNCHANGED RegH!vars
  PROVE  RegH!RegInv'
BY RegH!NextInv, TrialSizes

\* A call of the allocator in a trial, or a step that makes none, leaves the
\* start of the history as it was.
LEMMA RegsLogged ==
  ASSUME RegH!RegInv, regRecording, NoteRegs,
         UNCHANGED regVars \/ \E t \in Tag : Reg!Write(t) \/ Reg!Unwrite(t) \/ Reg!Read(t)
  PROVE  /\ RegH!RegInv' /\ UNCHANGED <<readCount, regRecording, regTarget>>
         /\ Root(regPast, Reg!regs)' = Root(regPast, Reg!regs)
<1>1. CASE UNCHANGED regVars
  <2>1. UNCHANGED <<readCount, freeVec, freeWords, freeCount, claimOf, assigned, remaining,
                    regRecording, regLog, regTarget, latest, regPast>>
    BY <1>1 DEF regVars, NoteRegs
  <2>2. UNCHANGED RegH!vars /\ UNCHANGED Reg!regs
    BY <2>1 DEF RegH!vars, Reg!regs
  <2> QED
    BY <2>1, <2>2, RegsKept DEF Root
<1>2. ASSUME NEW t \in Tag, Reg!Write(t) \/ Reg!Unwrite(t) \/ Reg!Read(t)
      PROVE  /\ RegH!RegInv' /\ UNCHANGED <<readCount, regRecording, regTarget>>
             /\ Root(regPast, Reg!regs)' = Root(regPast, Reg!regs)
  <2>1. RegH!HWrite(t) \/ RegH!HUnwrite(t) \/ RegH!HRead(t)
    BY <1>2, RegTried
  <2>2. t \in RegH!Tag
    BY DEF Tag, RegH!Tag
  <2>3. RegH!RegInv'
    BY <2>1, <2>2, RegsKept DEF RegH!HNext
  <2>4. regPast' = Append(regPast, Reg!regs)
    BY <2>1 DEF RegH!HWrite, RegH!HUnwrite, RegH!HRead, RegH!Note, RegH!regs, Reg!regs
  <2>5. Root(Append(regPast, Reg!regs), Reg!regs') = Root(regPast, Reg!regs)
    BY RegsPast, RootKept
  <2>6. Root(regPast, Reg!regs)' = Root(regPast', Reg!regs')
    BY DEF Root
  <2>7. UNCHANGED <<readCount, regRecording, regTarget>>
    BY <1>2 DEF Reg!Write, Reg!Unwrite, Reg!Read
  <2> QED
    BY <2>3, <2>4, <2>5, <2>6, <2>7
<1> QED
  BY <1>1, <1>2

\* The start of the rollback moves nothing yet.
LEMMA RegsRolled ==
  ASSUME RegH!RegInv, Reg!Rollback(0), UNCHANGED regPast
  PROVE  RegH!RegInv' /\ regRecording' /\ regTarget' = 0 /\ UNCHANGED <<readCount, Reg!regs>>
<1>1. RegH!RegInv'
  <2>1. RegH!HRollback(0) /\ 0 \in 0 .. Len(regLog)
    BY RegUndone DEF Reg!Rollback
  <2> QED
    BY <2>1, RegsKept DEF RegH!HNext
<1> QED
  BY <1>1 DEF Reg!Rollback, Reg!regs

\* Each entry popped leads one state back.
LEMMA RegsPopped ==
  ASSUME RegH!RegInv, Reg!PopEntry, regTarget = 0, regPast' = IF regLog' = regLog THEN regPast ELSE Front(regPast)
  PROVE  /\ RegH!RegInv' /\ UNCHANGED <<readCount, regRecording, regTarget>>
         /\ Root(regPast, Reg!regs)' = Root(regPast, Reg!regs)
<1>1. regPast' = Front(regPast) /\ RegH!HPopEntry
  BY RegUndone
<1>2. RegH!RegInv'
  BY <1>1, RegsKept DEF RegH!HNext
<1>3. Len(regLog) > 0 /\ regPast # << >>
  BY RegsPast DEF Reg!PopEntry
<1>4. Reg!regs' = RegH!Last(regPast)
  <2> DEFINE n == Len(regLog)
  <2>1. n \in Nat /\ n > 0 /\ Len(regPast) = n /\ n \in DOMAIN regPast
    BY <1>3, RegsPast, LenProperties
  <2>2. /\ RegH!Undo(RegH!regs, regLog[n], readCount) = regPast[n]
        /\ RegH!IsRegs(regPast[n])
    BY <2>1 DEF RegH!RegInv, RegH!UndoExact, RegH!After, RegH!TrialGood, RegH!Good
  <2>3. RegH!Become(regPast[n])
    BY <1>1, <2>2 DEF RegH!HPopEntry, RegH!PopEntry, RegH!Last
  <2>4. RegH!regs' = regPast[n]
    BY <2>2, <2>3, RegH!BecomeRegs, TrialSizes
  <2> QED
    BY <2>1, <2>4 DEF RegH!Last, RegH!regs, Reg!regs
<1>5. Root(RegH!Front(regPast), RegH!Last(regPast)) = Root(regPast, Reg!regs)
  BY <1>3, RegsPast, RootKept
<1> QED
  BY <1>1, <1>2, <1>4, <1>5 DEF Reg!PopEntry, Root, Front, RegH!Front

\* The graph and its history, in the same way.
\* A sequence is one over its own elements.
LEMMA OwnRange ==
  ASSUME NEW S, NEW q \in Seq(S)
  PROVE  q \in Seq(RegH!Range(q)) /\ (q = << >> <=> Len(q) = 0) /\ Len(q) \in Nat
<1>1. Len(q) \in Nat /\ DOMAIN q = 1 .. Len(q) /\ q = [k \in 1 .. Len(q) |-> q[k]]
  BY LenProperties
<1>2. \A k \in 1 .. Len(q) : q[k] \in RegH!Range(q)
  BY <1>1 DEF RegH!Range
<1>3. q \in Seq(RegH!Range(q))
  BY <1>1, <1>2, SeqDef
<1> QED
  BY <1>1, <1>3, EmptySeq

\* The graph's history has a state for every entry of the log.
LEMMA DagsPast ==
  ASSUME DagH!DagInv
  PROVE  /\ dagPast \in Seq(RegH!Range(dagPast)) /\ Len(dagPast) = Len(dagLog) /\ Len(dagLog) \in Nat
         /\ dagPast = << >> <=> Len(dagLog) = 0
<1> DEFINE S == [dag : DagH!State, inFlight : SUBSET Node]
<1>1. dagPast \in Seq(S) /\ Len(dagPast) = Len(dagLog)
  BY DEF DagH!DagInv, DagH!TypeOK, DagH!UndoExact
<1> HIDE DEF S
<1> QED
  BY <1>1, OwnRange

\* A step of the graph the proofs are about keeps their invariant.
LEMMA DagsKept ==
  ASSUME DagH!DagInv, DagH!HNext \/ UNCHANGED DagH!vars
  PROVE  DagH!DagInv'
BY DagH!NextDagInv, TrialSizes

\* A commit() or an advance() in a trial, or a step that makes none.
LEMMA DagsLogged ==
  ASSUME DagH!DagInv, dagRecording, NoteDag,
         \/ UNCHANGED <<dagVars, flying>>
         \/ Dag!Commit(node) /\ NoteCommit
         \/ AdvanceDag /\ flying' = {}
  PROVE  /\ DagH!DagInv' /\ UNCHANGED <<dagRecording, dagTarget>>
         /\ Root(dagPast, point)' = Root(dagPast, point)
<1>1. DagH!TypeOK /\ DagH!PointOK(graph, DagH!now)
  BY DEF DagH!DagInv
<1>2. CASE UNCHANGED <<dagVars, flying>>
  <2>1. UNCHANGED <<graph, raw, war, pending, committed, frontier, dagRecording, dagLog, dagTarget,
                    flying, dagPast>>
    BY <1>2 DEF dagVars, NoteDag
  <2>2. UNCHANGED DagH!vars /\ UNCHANGED point
    BY <2>1 DEF DagH!vars, point, Dag!live
  <2> QED
    BY <2>1, <2>2, DagsKept DEF Root
<1>3. CASE (Dag!Commit(node) /\ NoteCommit) \/ (Dag!Advance /\ flying' = {})
  <2>1. (DagH!HCommit(node) /\ node \in Node) \/ DagH!HAdvance
    BY <1>1, <1>3, DagTried DEF Dag!Commit, DagH!TypeOK, DagH!live, DagH!State
  <2>2. DagH!HNext
    BY <2>1 DEF DagH!HNext
  <2>3. DagH!DagInv'
    BY <2>2, DagsKept
  <2>4. dagPast' = Append(dagPast, point)
    BY <2>1 DEF DagH!HCommit, DagH!HAdvance, DagH!Note, DagH!now, DagH!live, point, Dag!live
  <2>5. Root(Append(dagPast, point), point') = Root(dagPast, point)
    BY DagsPast, RootKept
  <2>6. Root(dagPast, point)' = Root(dagPast', point')
    BY DEF Root
  <2>7. UNCHANGED <<dagRecording, dagTarget>>
    BY <1>3 DEF Dag!Commit, Dag!Advance
  <2> QED
    BY <2>3, <2>4, <2>5, <2>6, <2>7
<1>4. CASE AdvanceDag /\ flying' = {} /\ ~Dag!Advance
  <2>1. UNCHANGED dagVars /\ ~ \E d \in Node : pending[d] > 0
    BY <1>4 DEF AdvanceDag
  <2>2. flying = {}
    <3>1. \A d \in Node : pending[d] = 0
      BY <1>1, <2>1 DEF DagH!TypeOK, DagH!State, DagH!live
    <3>2. /\ DagH!CountersOf(graph, DagH!live, flying) /\ DagH!ClosedBelow(graph, DagH!live, flying)
          /\ DagH!live \in DagH!State /\ flying \in SUBSET Node /\ graph \in {Graph}
      BY <1>1 DEF DagH!TypeOK, DagH!PointOK, DagH!now
    <3>3. \A d \in Node : DagH!live.pending[d] = 0 <=> DagH!RawIn(graph, d) \cap flying = {}
      BY <3>2, DagH!ZeroCounters, TrialSizes
    <3>4. \A d \in Node : DagH!RawIn(graph, d) \cap flying = {}
      BY <3>1, <3>3 DEF DagH!live
    <3> QED
      BY <3>2, <3>4 DEF DagH!ClosedBelow, DagH!HasReader, DagH!RawOut, DagH!RawIn
  <2> QED
    BY <1>2, <1>4, <2>1, <2>2
<1> QED
  BY <1>2, <1>3, <1>4

\* The start of the rollback moves nothing yet.
LEMMA DagsRolled ==
  ASSUME DagH!DagInv, Dag!Rollback(0), UNCHANGED <<flying, dagPast>>
  PROVE  DagH!DagInv' /\ dagRecording' /\ dagTarget' = 0 /\ UNCHANGED point
<1>1. DagH!DagInv'
  <2>1. DagH!HRollback(0) /\ 0 \in 0 .. Len(dagLog)
    BY DagUndone DEF Dag!Rollback
  <2> QED
    BY <2>1, DagsKept DEF DagH!HNext
<1> QED
  BY <1>1 DEF Dag!Rollback, Dag!live, point

\* Each entry popped leads one point back.
LEMMA DagsPopped ==
  ASSUME DagH!DagInv, Dag!PopEntry,
         IF dagLog' = dagLog THEN UNCHANGED <<flying, dagPast>>
         ELSE dagPast' = Front(dagPast) /\ flying' = Last(dagPast).inFlight
  PROVE  /\ DagH!DagInv' /\ UNCHANGED <<dagRecording, dagTarget>>
         /\ Root(dagPast, point)' = Root(dagPast, point)
<1>1. DagH!HPopEntry /\ dagPast' = Front(dagPast) /\ flying' = Last(dagPast).inFlight
  BY DagUndone
<1>2. DagH!DagInv'
  BY <1>1, DagsKept DEF DagH!HNext
<1>3. Len(dagLog) > 0 /\ dagPast # << >>
  <2>1. dagTarget \in {-1} \cup 0 .. Len(dagLog)
    BY DEF DagH!DagInv, DagH!TypeOK, DagH!Idle
  <2> QED
    BY <2>1, DagsPast DEF Dag!PopEntry, Dag!Idle
<1>4. point' = RegH!Last(dagPast)
  <2> DEFINE n == Len(dagLog)
             Points == [dag : DagH!State, inFlight : SUBSET Node]
  <2>1. n \in Nat /\ n > 0 /\ Len(dagPast) = n
    BY <1>3, DagsPast
  <2>2. DagH!Undo(DagH!live, dagLog[n]) = dagPast[n].dag
    BY <2>1 DEF DagH!DagInv, DagH!UndoExact
  <2>3. dagPast[n] \in Points
    <3>1. dagPast \in Seq(Points)
      BY DEF DagH!DagInv, DagH!TypeOK
    <3> HIDE DEF Points
    <3> QED
      BY <2>1, <3>1, ElementOfSeq
  <2>4. DagH!Become(dagPast[n].dag)
    BY <1>1, <2>2 DEF DagH!HPopEntry, DagH!PopEntry
  <2>5. Dag!live' = dagPast[n].dag
    BY <2>3, <2>4 DEF DagH!Become, Dag!live, DagH!State
  <2>6. Last(dagPast) = dagPast[n]
    BY <2>1 DEF Last
  <2> QED
    BY <1>1, <2>1, <2>3, <2>5, <2>6 DEF RegH!Last, point
<1>5. Root(RegH!Front(dagPast), RegH!Last(dagPast)) = Root(dagPast, point)
  BY <1>3, DagsPast, RootKept
<1> QED
  BY <1>1, <1>2, <1>4, <1>5 DEF Dag!PopEntry, Root, Front, RegH!Front

\* What a trial started from is a state of the graph, with its nodes.
LEMMA OriginState ==
  ASSUME TrialParts, TrialStart
  PROVE  origin.dag \in DagH!State
<1> DEFINE Points == [dag : DagH!State, inFlight : SUBSET Node]
<1>1. dagPast \in Seq(Points) /\ point \in Points
  BY DEF TrialParts, DagH!DagInv, DagH!TypeOK, point, Dag!live, DagH!live
<1>2. Root(dagPast, point) \in Points
  <2> HIDE DEF Points
  <2>1. CASE dagPast = << >>
    BY <1>1, <2>1 DEF Root
  <2>2. CASE dagPast # << >>
    BY <1>1, <2>2, ElementOfSeq, EmptySeq, LenProperties DEF Root
  <2> QED
    BY <2>1, <2>2
<1> QED
  BY <1>2 DEF TrialStart

\* A step that touches neither the state a trial started from nor scratch.
LEMMA OriginKept ==
  ASSUME OriginOK, UNCHANGED <<readCount, scratch, origin>>
  PROVE  OriginOK'
BY DEF OriginOK, TablesAt, ToRead, LandedIn, Pool!LanesTotal

\* A call in a trial keeps the parts, and where they started.
LEMMA TrialCall ==
  ASSUME TrialParts, TrialStart, OriginOK, Trying, regRecording, UnitsTried', UNCHANGED poolRecording,
         ~poolRecording => UNCHANGED Pool!progress,
         UNCHANGED <<scratch, origin>>, NoteRegs, NoteDag, at' = "reset" => UNCHANGED <<at, regPast>>,
         UNCHANGED regVars \/ \E t \in Tag : Reg!Write(t) \/ Reg!Unwrite(t) \/ Reg!Read(t),
         \/ UNCHANGED <<dagVars, flying>>
         \/ Dag!Commit(node) /\ NoteCommit
         \/ AdvanceDag /\ flying' = {}
  PROVE  /\ Trying' /\ TrialParts' /\ TrialStart' /\ OriginOK'
         /\ UNCHANGED <<regRecording, regTarget, dagTarget>>
<1>1. /\ TrialParts /\ TrialStart /\ OriginOK
      /\ DagH!DagInv /\ RegH!RegInv
  BY DEF TrialParts
<1>2. /\ RegH!RegInv' /\ UNCHANGED <<readCount, regRecording, regTarget>>
      /\ Root(regPast, Reg!regs)' = Root(regPast, Reg!regs)
  BY <1>1, RegsLogged
<1>3. /\ DagH!DagInv' /\ UNCHANGED <<dagRecording, dagTarget>>
      /\ Root(dagPast, point)' = Root(dagPast, point)
  BY <1>1, DagsLogged DEF Trying
<1>4. TrialStart'
  BY <1>1, <1>2, <1>3 DEF TrialStart
<1>5. OriginOK'
  BY <1>1, <1>2, OriginKept
<1> QED
  BY <1>2, <1>3, <1>4, <1>5 DEF TrialParts, Trying

-----------------------------------------------------------------------------
\* A node that takes slots of an engine leaves fewer than a cycle starts with.
LEMMA FewerFree ==
  ASSUME UnitsTried, \A e \in Pool!Engine : free[e] <= Capacity[e],
         NEW e \in Pool!Engine, NEW k \in Nat \ {0}, free' = [free EXCEPT ![e] = @ - k]
  PROVE  (\A x \in Pool!Engine : free'[x] <= Capacity[x]) /\ free' # Capacity
<1>1. free \in [Pool!Engine -> Nat] /\ Capacity \in [Pool!Engine -> Nat \ {0}]
  BY TrialSizes DEF UnitsTried, PoolH!TypeOK, Pool!Engine, PoolH!Engine
<1>2. free'[e] = free[e] - k /\ \A x \in Pool!Engine \ {e} : free'[x] = free[x]
  BY <1>1
<1>3. free[e] \in Nat /\ Capacity[e] \in Nat /\ free[e] <= Capacity[e]
  BY <1>1
<1>4. free'[e] < Capacity[e] /\ free'[e] # Capacity[e]
  BY <1>2, <1>3
<1> QED
  BY <1>2, <1>3, <1>4

\* place() takes a slot of a cycle that has all of them, unless the node is a
\* debug node, which is complete at once.
LEMMA PlaceTakes ==
  ASSUME UnitsTried, \A e \in Pool!Engine : free[e] <= Capacity[e], NEW n \in Node, Pool!Place(n)
  PROVE  /\ \A e \in Pool!Engine : free'[e] <= Capacity[e]
         /\ Kind[n] = "debug" => lanesDone'[n] = Pool!LanesTotal(n)
         /\ Kind[n] # "debug" => free' # Capacity
<1>1. /\ free \in [Pool!Engine -> Nat] /\ Capacity \in [Pool!Engine -> Nat \ {0}]
      /\ lanesDone[n] \in Nat /\ lanesDone[n] <= Pool!LanesTotal(n)
      /\ Kind[n] \in Pool!Kinds /\ VLEN \in Nat \ {0}
  BY TrialSizes DEF UnitsTried, PoolH!TypeOK, Pool!Engine, PoolH!Engine, PoolH!ProgressType,
     PoolH!progress, Pool!LanesTotal, PoolH!LanesTotal, Pool!Kinds, PoolH!Kinds
<1>2. \A e \in Pool!Engine : free[e] = 0 => free # Capacity
  BY <1>1
<1>3. Kind[n] = "debug" \/ lanesDone[n] # Pool!LanesTotal(n)
  BY DEF Pool!Place, Pool!Offer, Pool!Complete
<1>4. Kind[n] \notin {"debug"} => Pool!Native(n) \in Pool!Engine
  BY <1>1 DEF Pool!Native, Pool!Kinds, Pool!Engine
<1> DEFINE Taken == (\A e \in Pool!Engine : free'[e] <= Capacity[e]) /\ free' # Capacity
<1>12. ASSUME NEW e \in Pool!Engine, NEW k \in Nat \ {0}, free' = [free EXCEPT ![e] = @ - k] PROVE Taken
  BY <1>12, FewerFree
<1> HIDE DEF Taken
<1>13. /\ "valu" \in Pool!Engine /\ "alu" \in Pool!Engine /\ "load" \in Pool!Engine /\ 1 \in Nat \ {0}
  BY DEF Pool!Engine
<1>14. Taken /\ Kind[n] # "debug" =>
         /\ \A e \in Pool!Engine : free'[e] <= Capacity[e]
         /\ Kind[n] = "debug" => lanesDone'[n] = Pool!LanesTotal(n)
         /\ Kind[n] # "debug" => free' # Capacity
  BY DEF Taken
<1>5. CASE Pool!PlaceOnValu(n)
  BY <1>5, <1>12, <1>13, <1>14 DEF Pool!PlaceOnValu
<1>6. CASE Pool!Spill(n)
  <2> DEFINE take == Pool!Lesser(VLEN - lanesDone[n], free["alu"])
  <2>1. Kind[n] = "vec_elem" /\ Pool!LanesTotal(n) = VLEN
    BY <1>6 DEF Pool!Spill, Pool!LanesTotal
  <2>2. VLEN - lanesDone[n] \in Nat \ {0} /\ free["alu"] \in Nat /\ take \in Nat
    BY <1>1, <1>3, <2>1 DEF Pool!Lesser, Pool!Engine
  <2>3. CASE take = 0 /\ Pool!Refused
    <3>1. free["alu"] = 0
      BY <2>2, <2>3 DEF Pool!Lesser
    <3> QED
      BY <1>1, <1>2, <1>13, <2>1, <2>3, <3>1 DEF Pool!Refused
  <2>4. CASE take > 0 /\ free' = [free EXCEPT !["alu"] = @ - take]
    <3> HIDE DEF take
    <3>1. take \in Nat \ {0}
      BY <2>2, <2>4
    <3> QED
      BY <1>12, <1>13, <1>14, <2>1, <2>4, <3>1
  <2> QED
    BY <1>6, <2>3, <2>4 DEF Pool!Spill
<1>7. CASE Pool!PlaceWhole(n)
  <2>1. Kind[n] # "debug" /\ free' = [free EXCEPT ![Pool!Native(n)] = @ - 1]
    BY <1>7 DEF Pool!PlaceWhole, Pool!Whole
  <2> QED
    BY <1>4, <1>12, <1>13, <1>14, <2>1
<1>8. CASE Pool!PlaceByEviction(n)
  BY <1>1, <1>8, <1>12, <1>13, <1>14 DEF Pool!PlaceByEviction
<1>9. CASE Pool!RefuseWhole(n)
  <2>1. Kind[n] # "debug" /\ free[Pool!Native(n)] = 0 /\ free' = free
    BY <1>9 DEF Pool!RefuseWhole, Pool!Whole, Pool!Refused
  <2> QED
    BY <1>2, <1>4, <2>1
<1>10. CASE Pool!PlaceGather(n)
  <2> DEFINE take == Pool!Lesser(VLEN - lanesDone[n], free["load"])
  <2>1. Kind[n] = "gather" /\ Pool!LanesTotal(n) = VLEN
    BY <1>10 DEF Pool!PlaceGather, Pool!LanesTotal
  <2>2. VLEN - lanesDone[n] \in Nat \ {0} /\ free["load"] \in Nat /\ take \in Nat
    BY <1>1, <1>3, <2>1 DEF Pool!Lesser, Pool!Engine
  <2>3. CASE take = 0 /\ Pool!Refused
    <3>1. free["load"] = 0
      BY <2>2, <2>3 DEF Pool!Lesser
    <3> QED
      BY <1>1, <1>2, <1>13, <2>1, <2>3, <3>1 DEF Pool!Refused
  <2>4. CASE take > 0 /\ free' = [free EXCEPT !["load"] = @ - take]
    <3> HIDE DEF take
    <3>1. take \in Nat \ {0}
      BY <2>2, <2>4
    <3> QED
      BY <1>12, <1>13, <1>14, <2>1, <2>4, <3>1
  <2> QED
    BY <1>10, <2>3, <2>4 DEF Pool!PlaceGather
<1>11. CASE Pool!PlaceDebug(n)
  <2>1. Kind[n] = "debug" /\ free' = free /\ lanesDone' = lanesDone /\ Pool!LanesTotal(n) = 0
    BY <1>11 DEF Pool!PlaceDebug, Pool!LanesTotal
  <2> QED
    BY <1>1, <2>1
<1> QED
  BY <1>5, <1>6, <1>7, <1>8, <1>9, <1>10, <1>11 DEF Pool!Place

-----------------------------------------------------------------------------
\* What is left of an order when its first node is taken.
LEMMA HeadAndTail ==
  ASSUME NEW S, NEW q \in Seq(S), q # << >>
  PROVE  /\ Head(q) \in S /\ Tail(q) \in Seq(S) /\ Range(q) = {Head(q)} \cup Range(Tail(q))
         /\ IsInjective(q) => IsInjective(Tail(q)) /\ Head(q) \notin Range(Tail(q))
<1>1. /\ Len(q) \in Nat /\ Len(q) > 0 /\ Head(q) = q[1] /\ DOMAIN q = 1 .. Len(q)
      /\ DOMAIN Tail(q) = 1 .. Len(q) - 1 /\ \A k \in 1 .. Len(q) - 1 : Tail(q)[k] = q[k + 1]
      /\ Head(q) \in S /\ Tail(q) \in Seq(S)
  BY HeadTailProperties, EmptySeq, LenProperties
<1>2. \A k \in 1 .. Len(q) - 1 : k + 1 \in 1 .. Len(q) /\ k + 1 # 1
  BY <1>1
<1>3. ASSUME NEW x \in Range(q) PROVE x \in {Head(q)} \cup Range(Tail(q))
  <2>1. PICK k \in 1 .. Len(q) : x = q[k]
    BY <1>1, <1>3 DEF Range
  <2>2. k # 1 => k - 1 \in 1 .. Len(q) - 1 /\ (k - 1) + 1 = k
    BY <1>1, <2>1
  <2>3. k # 1 => x = Tail(q)[k - 1] /\ k - 1 \in DOMAIN Tail(q)
    BY <1>1, <2>1, <2>2
  <2> QED
    BY <1>1, <2>1, <2>3 DEF Range
<1>4. ASSUME NEW x \in Range(Tail(q)) PROVE \E k \in 2 .. Len(q) : x = q[k]
  <2>1. PICK k \in 1 .. Len(q) - 1 : x = q[k + 1]
    BY <1>1, <1>4 DEF Range
  <2>2. k + 1 \in 2 .. Len(q)
    BY <1>1, <2>1
  <2> QED
    BY <2>1, <2>2
<1>5. Range(q) = {Head(q)} \cup Range(Tail(q))
  <2>1. \A k \in 2 .. Len(q) : k \in DOMAIN q
    BY <1>1
  <2>2. 1 \in DOMAIN q
    BY <1>1
  <2> QED
    BY <1>1, <1>3, <1>4, <2>1, <2>2 DEF Range
<1>6. ASSUME IsInjective(q) PROVE IsInjective(Tail(q)) /\ Head(q) \notin Range(Tail(q))
  <2>1. \A i, j \in 1 .. Len(q) : q[i] = q[j] => i = j
    BY <1>1, <1>6 DEF IsInjective
  <2>2. IsInjective(Tail(q))
    <3> SUFFICES ASSUME NEW i \in 1 .. Len(q) - 1, NEW j \in 1 .. Len(q) - 1, q[i + 1] = q[j + 1]
                 PROVE  i = j
      BY <1>1 DEF IsInjective
    <3>1. i + 1 = j + 1
      BY <1>2, <2>1
    <3> QED
      BY <3>1
  <2>3. \A k \in 2 .. Len(q) : k \in 1 .. Len(q) /\ k # 1 /\ 1 \in 1 .. Len(q)
    BY <1>1
  <2> QED
    BY <1>1, <1>4, <2>1, <2>2, <2>3
<1> QED
  BY <1>1, <1>5, <1>6
==============================================================================
