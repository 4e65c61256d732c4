---------------------------- MODULE RolloutProofs ----------------------------
(***************************************************************************)
(* rollout.schedule_rollout is right for every program, register file and  *)
(* set of units, whatever orders are tried and whichever trial wins.       *)
(*                                                                         *)
(* While no trial is open the invariant is RunnerInv, as for schedule().   *)
(* While one is open the parts are the verified modules with their         *)
(* histories: the invariant says that each history starts at the state     *)
(* before the trial, which was as RunnerInv has it, so that it is so again *)
(* when the rollbacks end.                                                 *)
(***************************************************************************)
EXTENDS RolloutParts, CycleRunnerProofs

\* A trial is open, or none is.
PhaseOK == IF Trying THEN TrialPlace /\ TrialParts /\ TrialStart /\ OriginOK
           ELSE /\ RunnerInv
                /\ flying = {} /\ dagPast = <<>> /\ regPast = <<>>
                /\ at = "try" => snapshot = origin

\* The orders list the nodes that were ready, and a replay has still to offer
\* nodes that are ready, the node being placed not one of them.
OrderOK ==
  /\ Trying => RegP!ListOf(order, origin.dag.frontier)
  /\ best # <<>> => RegP!ListOf(best, origin.dag.frontier)
  /\ Trying \/ at = "try" => origin.dag.frontier # {}
  /\ Filling /\ ~Trying => /\ queue \in Seq(frontier) /\ IsInjective(queue)
                           /\ at # "pick" => node \notin Range(queue)

\* The loop's count of committed nodes.
CountOK ==
  /\ nCycle \in Nat /\ tried \in Nat /\ nCommitted \in Nat
  /\ IF Trying THEN nCommitted = Cardinality(origin.dag.committed)
     ELSE nCommitted + (IF InCycle THEN nCycle ELSE 0) = Cardinality(committed)

\* Whether a node could have had no register at the start of the cycle.
RefusedThen(n) == \E t \in Dest(n) : ~Reg!CanWrite(origin.regs, t)
AllRefused == \A n \in origin.dag.frontier : RefusedThen(n)

\* Why a trial that has taken no slot and committed nothing has not: the nodes
\* offered so far were refused a register, and have left the allocator as it
\* was.  A trial that does not count leaves no better order.
TrialStuckOK ==
  /\ Trying /\ (Filling \/ at = "judge") => \A e \in Pool!Engine : free[e] <= Capacity[e]
  /\ Trying /\ TrialStuck =>
       /\ at \in {"pick", "write"} =>
            /\ Reg!regs = origin.regs
            /\ \A n \in origin.dag.frontier :
                 n \in Range(queue) \/ RefusedThen(n) \/ (at = "write" /\ n = node)
       /\ at # "unwrite"
       /\ at = "judge" => AllRefused
  /\ best = <<>> /\ (tried > 0 \/ at \in {"undo", "undoRegs", "undoDag"}) => AllRefused

\* The ends of the loop, and the collection before it goes round.
EndOK ==
  /\ at # "starved"
  /\ StuckIsFinal
  /\ at \in {"top", "done"} => Reg!Reclaimable = {}
  /\ at = "done" => committed = Node

\* The invariant of the loop.
RolloutInv == PhaseOK /\ OrderOK /\ CountOK /\ TrialStuckOK /\ EndOK

-----------------------------------------------------------------------------
\* Between trials nothing is saved, and the units are as RunnerInv has them.
LEMMA UnitsIdle ==
  ~poolRecording =>
    /\ PoolP!TypeOK /\ PoolP!Modes /\ PoolP!BudgetExact => UnitsTried /\ tokens = {} /\ poolLog = << >>
    /\ UnitsTried => PoolP!TypeOK /\ PoolP!Modes /\ PoolP!BudgetExact
<1> SUFFICES ASSUME ~poolRecording
             PROVE  /\ PoolP!TypeOK /\ PoolP!Modes /\ PoolP!BudgetExact
                         => UnitsTried /\ tokens = {} /\ poolLog = << >>
                    /\ UnitsTried => PoolP!TypeOK /\ PoolP!Modes /\ PoolP!BudgetExact
  OBVIOUS
<1>1. /\ PoolP!Modes <=> PoolH!Modes
      /\ PoolP!BudgetExact <=> PoolH!BudgetExact
  BY DEF PoolP!Modes, PoolH!Modes, PoolP!NoSlots, PoolH!NoSlots, PoolP!Engine, PoolH!Engine,
         PoolP!BudgetExact, PoolH!BudgetExact
<1>2. ASSUME PoolP!TypeOK \/ PoolH!TypeOK, PoolP!Modes PROVE tokens = {} /\ poolLog = << >>
  <2>1. poolLog = << >> /\ 0 \notin tokens
    BY <1>2 DEF PoolP!Modes
  <2>2. tokens \subseteq 0 .. Len(poolLog) /\ Len(poolLog) = 0
    BY <1>2, <2>1 DEF PoolP!TypeOK, PoolH!TypeOK
  <2> QED
    BY <2>1, <2>2
<1>3. (tokens = {} => Saved = << >>) /\ NothingRun = NoLanes
  BY DEF Saved, NothingRun, NoLanes
<1>4. tokens = {} => (PoolP!TypeOK <=> PoolH!TypeOK)
  <2> SUFFICES ASSUME tokens = {}, Saved = << >>, NothingRun = NoLanes PROVE PoolP!TypeOK <=> PoolH!TypeOK
    BY <1>3
  <2> USE DEF PoolP!Engine, PoolH!Engine, PoolP!NoEngine, PoolH!NoEngine,
        PoolP!Lane, PoolH!Lane, PoolP!All, PoolH!All, PoolP!LanesTotal, PoolH!LanesTotal
  <2>1. /\ PoolP!SlotType = PoolH!SlotType /\ PoolP!EntryType = PoolH!EntryType
        /\ PoolP!ProgressType = PoolH!ProgressType /\ PoolP!NodeLanes = PoolH!NodeLanes
        /\ PoolP!VecElem = PoolH!VecElem
    BY DEF PoolP!SlotType, PoolH!SlotType, PoolP!EntryType, PoolH!EntryType,
        PoolP!ProgressType, PoolH!ProgressType, PoolP!NodeLanes, PoolH!NodeLanes,
        PoolP!VecElem, PoolH!VecElem
  <2> QED
    BY <2>1 DEF PoolP!TypeOK, PoolH!TypeOK, PoolP!progress, PoolH!progress
<1>5. tokens = {} => PoolH!LogExact
  BY DEF PoolH!LogExact
<1> QED
  BY <1>1, <1>2, <1>4, <1>5 DEF UnitsTried

\* With no history, the allocator's invariant is the one between trials.
LEMMA RegsIdle ==
  regPast = << >> => (RegP!RegInv <=> RegH!RegInv)
<1> SUFFICES ASSUME regPast = << >> PROVE RegP!RegInv <=> RegH!RegInv
  OBVIOUS
<1> USE DEF RegP!Idle, RegH!Idle, RegP!regs, RegH!regs, RegP!Tag, RegH!Tag, RegP!Range, RegH!Range,
    RegP!Base, RegH!Base, RegP!Word, RegH!Word, RegP!Words, RegH!Words, RegP!Granule, RegH!Granule
<1>1. \A s : RegP!TypeAt(s) <=> RegH!TypeAt(s)
  BY DEF RegP!TypeAt, RegH!TypeAt
<1>2. \A s : RegP!PartitionAt(s) <=> RegH!PartitionAt(s)
  BY DEF RegP!PartitionAt, RegH!PartitionAt, RegP!Held, RegH!Held, RegP!ListOf, RegH!ListOf,
         RegP!IsInjective, RegH!IsInjective
<1>3. \A s : RegP!CountsAt(s) <=> RegH!CountsAt(s)
  BY DEF RegP!CountsAt, RegH!CountsAt, RegP!Held, RegH!Held
<1>4. RegP!LatestFresh <=> RegH!LatestFresh
  BY DEF RegP!LatestFresh, RegH!LatestFresh, RegP!Front, RegH!Front,
         RegP!WordsInOrder, RegH!WordsInOrder
<1>5. RegP!TypeOK <=> RegH!TypeOK
  BY <1>1 DEF RegP!TypeOK, RegH!TypeOK
<1>6. ASSUME RegP!RegInv \/ RegH!RegInv PROVE regLog = << >>
  <2>1. Len(regLog) = Len(<< >>)
    BY <1>6 DEF RegP!RegInv, RegH!RegInv, RegP!UndoExact, RegH!UndoExact
  <2>2. regLog \in Seq(RegH!Range(regLog))
    BY <1>6 DEF RegP!RegInv, RegH!RegInv, RegP!TrialGood, RegH!TrialGood
  <2> QED
    BY <2>1, <2>2, EmptySeq
<1>7. ASSUME regLog = << >> PROVE RegP!TrialGood /\ RegH!TrialGood /\ RegP!UndoExact /\ RegH!UndoExact
  <2>1. DOMAIN << >> = {} /\ (\A S : << >> \in Seq(S)) /\ Len(<< >>) = 0
    OBVIOUS
  <2> QED
    BY <1>7, <2>1 DEF RegP!TrialGood, RegH!TrialGood, RegP!UndoExact, RegH!UndoExact
<1> QED
  BY <1>1, <1>2, <1>3, <1>4, <1>5, <1>6, <1>7
  DEF RegP!RegInv, RegH!RegInv, RegP!Partition, RegH!Partition, RegP!CountsAgree, RegH!CountsAgree

\* The checkpoint, and the start of the rollback.
LEMMA RegsOpened ==
  ASSUME RegIdle, regPast = << >>, Reg!Checkpoint, UNCHANGED regPast
  PROVE  RegH!RegInv' /\ regRecording' /\ regTarget' = -1 /\ UNCHANGED <<readCount, Reg!regs>>
<1>1. RegH!RegInv
  BY RegsIdle DEF RegIdle
<1>2. RegH!RegInv'
  BY <1>1, RegUndone, RegsKept DEF RegH!HNext
<1> QED
  BY <1>2 DEF RegIdle, Reg!Checkpoint, Reg!regs

\* When the log is empty the history is, and the state is the one it led to.
LEMMA RegsBack ==
  ASSUME RegH!RegInv, regTarget = 0, Reg!RollbackDone, UNCHANGED regPast
  PROVE  /\ RegH!RegInv' /\ RegIdle' /\ regPast' = << >> /\ UNCHANGED <<readCount, Reg!regs>>
         /\ Reg!regs' = Root(regPast, Reg!regs)
<1>1. RegH!RegInv'
  BY RegUndone, RegsKept DEF RegH!HNext
<1>2. regPast = << >>
  BY RegsPast DEF Reg!RollbackDone
<1>3. (regPast = << >> => (RegP!RegInv <=> RegH!RegInv))'
  BY RegsIdle, PTL
<1>4. RegP!RegInv'
  BY <1>1, <1>2, <1>3
<1> QED
  BY <1>1, <1>2, <1>4 DEF RegIdle, Reg!RollbackDone, Reg!Idle, Reg!regs, Root

-----------------------------------------------------------------------------
LEMMA DagsIdle ==
  dagPast = << >> /\ flying = InFlight => (DagP!DagInv <=> DagH!DagInv)
<1> SUFFICES ASSUME dagPast = << >>, flying = InFlight PROVE DagP!DagInv <=> DagH!DagInv
  OBVIOUS
<1> USE DEF DagP!Idle, DagH!Idle, DagP!live, DagH!live, DagP!RawIn, DagH!RawIn, DagP!WarIn, DagH!WarIn,
            DagP!RawOut, DagH!RawOut, DagP!State, DagH!State
<1>1. DagP!TypeOK <=> DagH!TypeOK
  <2>1. \A S : << >> \in Seq(S)
    OBVIOUS
  <2>2. DagP!Entry = DagH!Entry
    BY DEF DagP!Entry, DagH!Entry
  <2> QED
    BY <2>1, <2>2 DEF DagP!TypeOK, DagH!TypeOK
<1>2. DagP!PointOK(graph, DagP!now) <=> DagH!PointOK(graph, DagH!now)
  <2>1. \A g, s, f : DagP!CountersOf(g, s, f) <=> DagH!CountersOf(g, s, f)
    BY DEF DagP!CountersOf, DagH!CountersOf, DagP!Cardinality, DagH!Cardinality
  <2>2. \A g, s, f : DagP!FrontierOf(g, s, f) <=> DagH!FrontierOf(g, s, f)
    BY DEF DagP!FrontierOf, DagH!FrontierOf
  <2>3. \A g, s, f : DagP!ClosedBelow(g, s, f) <=> DagH!ClosedBelow(g, s, f)
    BY DEF DagP!ClosedBelow, DagH!ClosedBelow, DagP!HasReader, DagH!HasReader
  <2> QED
    BY <2>1, <2>2, <2>3 DEF DagP!PointOK, DagH!PointOK, DagP!now, DagH!now
<1>3. DagP!UndoExact <=> DagH!UndoExact
  <2>1. Len(<< >>) = 0 /\ 1 .. 0 = {}
    OBVIOUS
  <2> QED
    BY <2>1 DEF DagP!UndoExact, DagH!UndoExact
<1> QED
  BY <1>1, <1>2, <1>3 DEF DagP!DagInv, DagH!DagInv

\* The checkpoint, and the start of the rollback.
LEMMA DagsOpened ==
  ASSUME DagIdle, dagPast = << >>, flying = {}, InFlight = {}, Dag!Checkpoint, UNCHANGED <<flying, dagPast>>
  PROVE  DagH!DagInv' /\ dagRecording' /\ dagTarget' = -1 /\ UNCHANGED point
<1>1. DagH!DagInv
  BY DagsIdle DEF DagIdle
<1>2. DagH!DagInv'
  BY <1>1, DagUndone, DagsKept DEF DagH!HNext
<1> QED
  BY <1>2 DEF DagIdle, Dag!Checkpoint, Dag!live, point

\* When the log is empty the history is, and the point is the one it led to.
LEMMA DagsBack ==
  ASSUME DagH!DagInv, dagTarget = 0, Dag!RollbackDone, UNCHANGED <<flying, dagPast>>,
         Root(dagPast, point).inFlight = {}, InFlight' = {}
  PROVE  /\ DagIdle' /\ dagPast' = << >> /\ flying' = {} /\ UNCHANGED point
         /\ point' = Root(dagPast, point)
<1>1. DagH!DagInv'
  BY DagUndone, DagsKept DEF DagH!HNext
<1>2. dagPast = << >>
  BY DagsPast DEF Dag!RollbackDone
<1>3. flying = {}
  BY <1>2 DEF Root, point
<1>4. (dagPast = << >> /\ flying = InFlight => (DagP!DagInv <=> DagH!DagInv))'
  BY DagsIdle, PTL
<1>5. DagP!DagInv'
  BY <1>1, <1>2, <1>3, <1>4
<1> QED
  BY <1>2, <1>3, <1>5 DEF DagIdle, Dag!RollbackDone, Dag!Idle, Dag!live, Root, point

-----------------------------------------------------------------------------
\* Between trials RunnerInv is about the parts and the tables.
LEMMA TablesThen ==
  at = "try" => (RunnerInv <=> PartsOK /\ TablesAt(Dag!live, Reg!regs, Pool!progress))
<1> SUFFICES ASSUME at = "try"
             PROVE  RunnerInv <=> PartsOK /\ TablesAt(Dag!live, Reg!regs, Pool!progress)
  OBVIOUS
<1>1. ~Filling /\ ~InCycle
  BY DEF Filling, InCycle
<1>2. /\ Dag!live.committed = committed /\ Reg!regs.assigned = assigned /\ Reg!regs.remaining = remaining
      /\ Pool!progress.lanesDone = lanesDone
  BY DEF Dag!live, Reg!regs, Pool!progress
<1>3. \A t : ToRead(Dag!live, t) = Unread(t)
  BY <1>2 DEF ToRead, Unread, Consumed
<1>4. \A n : LandedIn(Pool!progress, n) = LandedLanes(n)
  BY <1>2 DEF LandedIn, LandedLanes
<1>5. TablesAt(Dag!live, Reg!regs, Pool!progress)
        <=> /\ CountsOK /\ ProgressOK /\ ScratchOK
            /\ scratch \in [0 .. SCRATCH - 1 -> [tag : Tag \cup {"none"}, lane : Nat]]
  <2> DEFINE Live == Dag!live
             Regs == Reg!regs
             Done == Pool!progress
             Landing(n) == \A t \in Dest(n) \cap DOMAIN Regs.assigned : \A j \in LandedIn(Done, n) :
                             \A v \in LanesWritten(n, j) : scratch[Regs.assigned[t] + v.lane] = v
             Progressing(n) == /\ n \in Live.committed => Done.lanesDone[n] = Pool!LanesTotal(n)
                               /\ n \notin Live.committed /\ Done.lanesDone[n] > 0
                                    => Dest(n) \subseteq DOMAIN Regs.assigned
             Counting == /\ \A t \in DOMAIN Regs.assigned :
                              /\ Regs.remaining[t] = Cardinality(ToRead(Live, t))
                              /\ Regs.remaining[t] = 0 => ReadCount[t] = 0
                         /\ \A n \in Live.committed : \A t \in Dest(n) \ DOMAIN Regs.assigned :
                              ToRead(Live, t) = {}
  <2>1. /\ Live.committed = committed /\ Regs.assigned = assigned /\ Regs.remaining = remaining
        /\ Done.lanesDone = lanesDone
        /\ \A t : ToRead(Live, t) = Unread(t)
        /\ \A n : LandedIn(Done, n) = LandedLanes(n)
    BY <1>2, <1>3, <1>4
  <2>2. TablesAt(Live, Regs, Done)
          <=> /\ readCount = ReadCount
              /\ scratch \in [0 .. SCRATCH - 1 -> [tag : Tag \cup {"none"}, lane : Nat]]
              /\ \A n \in Node : Progressing(n) /\ Landing(n)
              /\ Counting
    BY DEF TablesAt
  <2> HIDE DEF Live, Regs, Done
  <2>3. (\A n \in Node : Progressing(n)) <=> ProgressOK
    BY <2>1 DEF ProgressOK, Holds
  <2>4. (\A n \in Node : Landing(n)) <=> ScratchOK
    <3>1. ScratchOK <=>
            \A n \in Node : \A t \in Dest(n) \cap DOMAIN assigned : \A j \in LandedLanes(n) :
              \A v \in LanesWritten(n, j) : scratch[assigned[t] + v.lane] = v
      BY <1>1 DEF ScratchOK
    <3>2. \A n \in Node : Landing(n) <=>
            \A t \in Dest(n) \cap DOMAIN assigned : \A j \in LandedLanes(n) :
              \A v \in LanesWritten(n, j) : scratch[assigned[t] + v.lane] = v
      BY <2>1
    <3> HIDE DEF Landing
    <3> QED
      BY <3>1, <3>2
  <2>5. readCount = ReadCount /\ Counting <=> CountsOK
    BY <2>1 DEF CountsOK
  <2> HIDE DEF Landing, Progressing, Counting
  <2>6. TablesAt(Live, Regs, Done)
          <=> /\ CountsOK /\ ProgressOK /\ ScratchOK
              /\ scratch \in [0 .. SCRATCH - 1 -> [tag : Tag \cup {"none"}, lane : Nat]]
    BY <2>2, <2>3, <2>4, <2>5
  <2> QED
    BY <2>6 DEF Live, Regs, Done
<1>6. BundleOK /\ ReadsOK /\ RefusalOK
  BY <1>1 DEF BundleOK, ReadsOK, RefusalOK
<1>7. PlaceOK <=> scratch \in [0 .. SCRATCH - 1 -> [tag : Tag \cup {"none"}, lane : Nat]]
  BY DEF PlaceOK
<1> QED
  BY <1>5, <1>6, <1>7 DEF RunnerInv

\* Whether a trial is open can be told from where the search is.
LEMMA TrialOrNot ==
  ASSUME PhaseOK
  PROVE  /\ at \in {"reset", "judge", "undo", "undoRegs", "undoDag"} => Trying
         /\ at \in {"top", "try", "advance", "collect", "done", "starved", "stuck", "capped"} => ~Trying
         /\ Filling => (Trying <=> dry)
         /\ Trying => TrialPlace /\ TrialParts /\ TrialStart /\ OriginOK
         /\ ~Trying => /\ RunnerInv /\ flying = {} /\ dagPast = <<>> /\ regPast = <<>>
                       /\ at = "try" => snapshot = origin
<1>1. CASE Trying
  BY <1>1 DEF PhaseOK, TrialPlace, Filling
<1>2. CASE ~Trying
  <2>1. RunnerInv
    BY <1>2 DEF PhaseOK
  <2>2. PlaceOK /\ PoolIdle
    BY <2>1 DEF RunnerInv, PartsOK
  <2> QED
    BY <1>2, <2>2 DEF PhaseOK, PlaceOK, PoolIdle, InCycle, Filling
<1> QED
  BY <1>1, <1>2

\* The state a trial starts from is the present one, under three checkpoints.
LEMMA OpenTrialKeeps ==
  ASSUME RolloutInv, OpenTrial, UNCHANGED history
  PROVE  RolloutInv'
<1> USE DEF RolloutInv
<1>1. /\ at = "try" /\ at' = "reset" /\ order' \in SetToSeqs(frontier)
      /\ Dag!Checkpoint /\ Reg!Checkpoint /\ Pool!Checkpoint
      /\ UNCHANGED <<flying, dagPast, regPast, scratch, origin>>
      /\ UNCHANGED <<node, nCommitted, tried, best, nCycle>>
  BY DEF OpenTrial, Goto, history, ownVars, machineVars
<1>2. /\ ~Trying /\ RunnerInv /\ flying = {} /\ dagPast = << >> /\ regPast = << >> /\ snapshot = origin
  BY <1>1, TrialOrNot
<1>3. /\ origin.dag = Dag!live /\ origin.regs = Reg!regs /\ origin.progress = Pool!progress
      /\ origin.dag.frontier = frontier /\ origin.dag.committed = committed
  BY <1>2 DEF snapshot, Dag!live
<1>4. /\ DagIdle /\ RegIdle /\ PoolIdle /\ frontier \subseteq Node
      /\ ~Filling /\ ~InCycle /\ InFlight = {}
  BY <1>1, <1>2, InvParts DEF InCycle, Filling, InFlight
<1>5. DagH!DagInv' /\ dagRecording' /\ dagTarget' = -1 /\ UNCHANGED point
  BY <1>1, <1>2, <1>4, DagsOpened
<1>6. RegH!RegInv' /\ regRecording' /\ regTarget' = -1 /\ UNCHANGED <<readCount, Reg!regs>>
  BY <1>1, <1>2, <1>4, RegsOpened
<1>7. UnitsTried' /\ poolRecording'
  <2>1. UnitsTried /\ tokens = {} /\ poolLog = << >> /\ ~poolRecording
    BY <1>4, UnitsIdle DEF PoolIdle
  <2> QED
    BY <1>1, <1>3, <2>1, UnitsOpened
<1>8. OriginOK'
  <2>1. OriginOK
    BY <1>1, <1>2, <1>3, TablesThen DEF OriginOK
  <2> QED
    BY <1>1, <1>6, <2>1, OriginKept
<1>9. TrialStart'
  <2>1. /\ Root(dagPast, point) = [dag |-> origin.dag, inFlight |-> {}]
        /\ Root(regPast, Reg!regs) = origin.regs
        /\ origin = [dag |-> origin.dag, regs |-> origin.regs, progress |-> origin.progress]
    BY <1>2, <1>3 DEF Root, point, snapshot
  <2> QED
    BY <1>1, <1>2, <1>5, <1>6, <1>7, <2>1 DEF TrialStart, Root
<1>10. TrialPlace'
  BY <1>1, <1>5, <1>6, <1>7 DEF TrialPlace, Filling
<1>11. PhaseOK'
  BY <1>5, <1>6, <1>7, <1>8, <1>9, <1>10 DEF PhaseOK, TrialParts, Trying
<1>12. OrderOK'
  <2>1. RegP!ListOf(order', frontier)
    <3>1. IsFiniteSet(frontier) /\ RegP!IsFiniteSet(frontier)
      <4>1. IsFiniteSet(frontier)
        BY <1>4, ProgramFacts, FS_Subset
      <4> QED
        BY <4>1 DEF IsFiniteSet, RegP!IsFiniteSet
    <3>2. SetToSeqs(frontier) = RegP!SetToSeqs(frontier)
      BY DEF SetToSeqs, RegP!SetToSeqs, IsInjective, RegP!IsInjective, Range, RegP!Range,
             Cardinality, RegP!Cardinality
    <3> QED
      BY <1>1, <3>1, <3>2, RegP!OrderList, RegSizes
  <2>2. frontier # {} /\ (best # << >> => RegP!ListOf(best, origin.dag.frontier))
    BY <1>1, <1>3 DEF OrderOK
  <2> QED
    BY <1>1, <1>3, <1>5, <2>1, <2>2 DEF OrderOK, Trying, RegP!ListOf, RegP!IsInjective
<1>13. CountOK'
  BY <1>1, <1>2, <1>3, <1>4, <1>5 DEF CountOK, Trying
<1>14. TrialStuckOK'
  BY <1>1 DEF TrialStuckOK, Filling, AllRefused, RefusedThen, Reg!CanWrite, Reg!BestFit
<1>15. EndOK'
  BY <1>1 DEF EndOK, StuckIsFinal
<1> QED
  BY <1>11, <1>12, <1>13, <1>14, <1>15

\* The trial's cycle starts, with the units reset.
LEMMA StartTrialKeeps ==
  ASSUME RolloutInv, StartTrial, UNCHANGED history
  PROVE  RolloutInv'
<1> USE DEF RolloutInv
<1>1. /\ at = "reset" /\ at' = "pick" /\ queue' = order /\ nCycle' = 0 /\ Pool!NewCycle(TRUE)
      /\ UNCHANGED <<dagVars, regVars, scratch, flying, dagPast, regPast>>
      /\ UNCHANGED <<node, nCommitted, order, tried, best, origin>>
  BY DEF StartTrial, RunCycle, StartCycle, Goto, history, ownVars
<1>2. Trying /\ TrialPlace /\ TrialParts /\ TrialStart /\ OriginOK
  BY <1>1, TrialOrNot
<1>3. poolRecording /\ regRecording /\ regTarget = -1 /\ dagTarget = -1
  BY <1>1, <1>2 DEF TrialPlace
<1>4. UnitsTried' /\ UNCHANGED poolRecording /\ dry' = TRUE /\ free' = Capacity
  BY <1>1, <1>2, <1>3, UnitsStarted DEF TrialParts
<1>5. /\ Trying' /\ TrialParts' /\ TrialStart' /\ OriginOK'
      /\ UNCHANGED <<regRecording, regTarget, dagTarget>>
  <2>1. TrialParts /\ TrialStart /\ OriginOK /\ NoteRegs /\ NoteDag /\ at' # "reset" /\ UNCHANGED <<dagVars, flying>>
    BY <1>1, <1>2 DEF PhaseOK, NoteRegs, NoteDag, dagVars, regVars
  <2> QED
    BY <1>1, <1>2, <1>3, <1>4, <2>1, TrialCall
<1>6. origin.dag.frontier \subseteq Node /\ RegP!ListOf(order, origin.dag.frontier)
  BY <1>2, OriginState DEF DagH!State, OrderOK
<1>7. PhaseOK'
  <2>1. order \in Seq(Node)
    BY <1>6 DEF RegP!ListOf
  <2> QED
    BY <1>1, <1>3, <1>4, <1>5, <2>1 DEF PhaseOK, TrialPlace, Filling
<1>8. OrderOK' /\ CountOK'
  BY <1>1, <1>2, <1>5 DEF OrderOK, CountOK
<1>9. TrialStuckOK'
  <2>1. Reg!regs' = origin.regs
    BY <1>1, <1>2 DEF TrialStart, Root, regVars, Reg!regs
  <2>2. \A n \in origin.dag.frontier : n \in Range(queue')
    BY <1>1, <1>6 DEF RegP!ListOf, Range
  <2>3. \A e \in Pool!Engine : free'[e] <= Capacity[e]
    BY <1>4, TrialSizes DEF Pool!Engine, PoolH!Engine
  <2> QED
    BY <1>1, <2>1, <2>2, <2>3 DEF TrialStuckOK, AllRefused, RefusedThen
<1>10. EndOK'
  BY <1>1 DEF EndOK, StuckIsFinal
<1> QED
  BY <1>7, <1>8, <1>9, <1>10

\* A trial takes the next node of its order.
LEMMA PickInTrial ==
  ASSUME RolloutInv, Trying, Pick, UNCHANGED history
  PROVE  RolloutInv'
<1> USE DEF RolloutInv
<1>1. /\ at = "pick" /\ queue # << >> /\ node' = Head(queue) /\ queue' = Tail(queue)
      /\ at' \in {"place", "write"}
      /\ UNCHANGED <<dagVars, regVars, poolVars, machineVars, flying, dagPast, regPast>>
      /\ UNCHANGED <<nCommitted, order, tried, best, nCycle, origin>>
  BY DEF Pick, Take, Goto, history
<1>2. /\ TrialPlace /\ TrialParts /\ Filling
      /\ poolRecording /\ regRecording /\ regTarget = -1 /\ dagTarget = -1 /\ dry
      /\ queue \in Seq(Node)
  BY <1>1, TrialOrNot DEF TrialPlace, Filling
<1>3. UnitsTried' /\ UNCHANGED <<dry, poolRecording>>
  BY <1>1, <1>2, UnitsAlone DEF TrialParts
<1>4. /\ Trying' /\ TrialParts' /\ TrialStart' /\ OriginOK'
      /\ UNCHANGED <<regRecording, regTarget, dagTarget>>
  <2>1. TrialParts /\ TrialStart /\ OriginOK /\ NoteRegs /\ NoteDag /\ at' # "reset" /\ UNCHANGED <<dagVars, flying, scratch>>
    BY <1>1, <1>2 DEF PhaseOK, NoteRegs, NoteDag, dagVars, regVars, machineVars
  <2> QED
    BY <1>1, <1>2, <1>3, <2>1, TrialCall
<1>5. Head(queue) \in Node /\ Tail(queue) \in Seq(Node) /\ Range(queue) = {Head(queue)} \cup Range(Tail(queue))
  BY <1>1, <1>2, HeadAndTail
<1>6. PhaseOK'
  BY <1>1, <1>2, <1>3, <1>4, <1>5 DEF PhaseOK, TrialPlace, Filling
<1>7. OrderOK' /\ CountOK'
  BY <1>1, <1>4 DEF OrderOK, CountOK
<1>8. TrialStuckOK'
  <2>1. UNCHANGED <<free, Reg!regs, TrialStuck>>
    BY <1>1 DEF poolVars, regVars, Reg!regs, TrialStuck
  <2> QED
    BY <1>1, <1>2, <1>4, <1>5, <2>1 DEF TrialStuckOK, AllRefused, RefusedThen
<1>9. EndOK'
  BY <1>1 DEF EndOK, StuckIsFinal
<1> QED
  BY <1>6, <1>7, <1>8, <1>9

\* The calls for that node.
LEMMA InnerInTrial ==
  ASSUME RolloutInv, Trying, HInner
  PROVE  RolloutInv'
<1> USE DEF RolloutInv
<1>1. /\ at \in {"write", "place", "unwrite", "read"}
      /\ at' \in {"pick", "place", "unwrite", "read"}
      /\ UNCHANGED <<dagVars, flying, dagPast, scratch, node, nCommitted>> /\ NoteRegs
      /\ UNCHANGED <<queue, order, tried, best, nCycle, origin>>
  BY DEF HInner, Inner, Allocate, PlaceNode, GiveBack, ConsumeRead, Goto, AfterPlace, ownVars, machineVars
<1>2. /\ TrialPlace /\ TrialParts /\ UnitsTried /\ Filling /\ Filling'
      /\ poolRecording /\ regRecording /\ regTarget = -1 /\ dagTarget = -1 /\ dry
      /\ queue \in Seq(Node) /\ node \in Node
  BY <1>1, TrialOrNot DEF TrialPlace, TrialParts, Filling
<1>3. UnitsTried' /\ UNCHANGED <<dry, poolRecording>>
  <2>1. CASE PlaceNode
    BY <1>1, <1>2, <2>1, TrialPlaces DEF PlaceNode
  <2>2. CASE UNCHANGED poolVars
    BY <1>1, <1>2, <2>2, UnitsAlone
  <2> QED
    BY <2>1, <2>2 DEF HInner, Inner, Allocate, GiveBack, ConsumeRead
<1>4. UNCHANGED regVars \/ \E t \in Tag : Reg!Write(t) \/ Reg!Unwrite(t) \/ Reg!Read(t)
  <2>1. \A t \in Dest(node) : t \in Tag
    BY <1>2, ProgramFacts
  <2>2. ASSUME NEW t, Reg!Read(t) PROVE t \in Tag
    <3>1. DOMAIN RegH!regs.assigned \subseteq Tag
      BY <1>2 DEF TrialParts, RegH!RegInv, RegH!TypeOK, RegH!TypeAt, RegH!Tag, Tag
    <3> QED
      BY <2>2, <3>1 DEF Reg!Read, RegH!regs
  <2> QED
    BY <2>1, <2>2 DEF HInner, Inner, Allocate, PlaceNode, GiveBack, ConsumeRead
<1>5. /\ Trying' /\ TrialParts' /\ TrialStart' /\ OriginOK'
      /\ UNCHANGED <<regRecording, regTarget, dagTarget>>
  <2>1. TrialParts /\ TrialStart /\ OriginOK /\ NoteDag /\ at' # "reset"
    BY <1>1, <1>2 DEF PhaseOK, NoteDag, dagVars
  <2> QED
    BY <1>1, <1>2, <1>3, <1>4, <2>1, TrialCall
<1>6. PhaseOK'
  BY <1>1, <1>2, <1>3, <1>5 DEF PhaseOK, TrialPlace, Filling
<1>7. OrderOK' /\ CountOK'
  BY <1>1, <1>5 DEF OrderOK, CountOK
<1>8. TrialStuckOK'
  <2>1. \A e \in Pool!Engine : free[e] <= Capacity[e]
    BY <1>2 DEF TrialStuckOK
  <2>2. CASE PlaceNode
    <3>1. /\ at = "place" /\ at' = AfterPlace(node, lanesDone'[node]) /\ Pool!Place(node)
      BY <2>2 DEF PlaceNode, Goto
    <3>2. /\ \A e \in Pool!Engine : free'[e] <= Capacity[e]
          /\ Kind[node] = "debug" => at' = "read"
          /\ Kind[node] # "debug" => ~TrialStuck'
      BY <1>2, <2>1, <3>1, PlaceTakes DEF AfterPlace, TrialStuck
    <3> QED
      BY <1>1, <3>1, <3>2 DEF TrialStuckOK, AllRefused, RefusedThen
  <2>3. CASE GiveBack \/ ConsumeRead
    <3>1. free' = free /\ UNCHANGED TrialStuck
      BY <1>1, <2>3 DEF GiveBack, ConsumeRead, poolVars, TrialStuck
    <3>2. (at = "unwrite" /\ at' = "pick") \/ (at = "read" /\ at' = "read")
      BY <2>3 DEF GiveBack, ConsumeRead, Goto
    <3> QED
      BY <1>1, <2>1, <3>1, <3>2 DEF TrialStuckOK, AllRefused, RefusedThen
  <2>4. CASE Allocate
    <3>1. free' = free /\ UNCHANGED TrialStuck /\ at = "write"
      BY <1>1, <2>4 DEF Allocate, poolVars, TrialStuck
    <3>2. CASE at' = "place"
      BY <1>1, <2>1, <3>1, <3>2 DEF TrialStuckOK, AllRefused, RefusedThen
    <3>3. CASE at' = "pick" /\ UNCHANGED regVars /\ \E t \in Dest(node) : ~Reg!CanWrite(Reg!regs, t)
      <4>1. UNCHANGED Reg!regs
        BY <3>3 DEF regVars, Reg!regs
      <4>2. Reg!regs = origin.regs => RefusedThen(node)
        BY <3>3 DEF RefusedThen
      <4>3. \A n : RefusedThen(n)' <=> RefusedThen(n)
        BY <1>1 DEF RefusedThen
      <4> HIDE DEF RefusedThen
      <4> QED
        BY <1>1, <2>1, <3>1, <3>3, <4>1, <4>2, <4>3 DEF TrialStuckOK, AllRefused
    <3> QED
      BY <2>4, <3>2, <3>3 DEF Allocate, Goto
  <2> QED
    BY <2>2, <2>3, <2>4 DEF HInner, Inner
<1>9. EndOK'
  BY <1>1 DEF EndOK, StuckIsFinal
<1> QED
  BY <1>6, <1>7, <1>8, <1>9

\* It commits a node: the trial is no longer a stuck one.
LEMMA CommitInTrial ==
  ASSUME RolloutInv, Trying, HCommit
  PROVE  RolloutInv'
<1> USE DEF RolloutInv
<1>1. /\ at = "read" /\ at' = "pick" /\ Dag!Commit(node) /\ nCycle' = nCycle + 1
      /\ UNCHANGED <<regVars, poolVars, scratch, regPast>> /\ NoteCommit /\ NoteDag
      /\ UNCHANGED <<nCommitted, queue, order, tried, best, origin>>
  BY DEF HCommit, Commit, CommitNode, Goto, machineVars
<1>2. /\ TrialPlace /\ TrialParts /\ Filling
      /\ poolRecording /\ regRecording /\ regTarget = -1 /\ dagTarget = -1 /\ dry
      /\ queue \in Seq(Node)
  BY <1>1, TrialOrNot DEF TrialPlace, Filling
<1>3. UnitsTried' /\ UNCHANGED <<dry, poolRecording>>
  BY <1>1, <1>2, UnitsAlone DEF TrialParts
<1>4. /\ Trying' /\ TrialParts' /\ TrialStart' /\ OriginOK'
      /\ UNCHANGED <<regRecording, regTarget, dagTarget>>
  <2>1. TrialParts /\ TrialStart /\ OriginOK /\ NoteRegs /\ at' # "reset"
    BY <1>1, <1>2 DEF PhaseOK, NoteRegs, regVars
  <2> QED
    BY <1>1, <1>2, <1>3, <2>1, TrialCall
<1>5. PhaseOK'
  BY <1>1, <1>2, <1>3, <1>4 DEF PhaseOK, TrialPlace, Filling
<1>6. OrderOK' /\ CountOK'
  BY <1>1, <1>4 DEF OrderOK, CountOK
<1>7. TrialStuckOK'
  <2>1. free' = free /\ nCycle' # 0
    BY <1>1 DEF poolVars, CountOK
  <2> QED
    BY <1>1, <1>2, <2>1 DEF TrialStuckOK, TrialStuck, AllRefused, RefusedThen
<1>8. EndOK'
  BY <1>1 DEF EndOK, StuckIsFinal
<1> QED
  BY <1>5, <1>6, <1>7, <1>8

\* The trial's cycle ends when its order does.  If it took no slot and
\* committed nothing, every node that was ready was refused.
LEMMA EndTrialKeeps ==
  ASSUME RolloutInv, HEndTrial
  PROVE  RolloutInv'
<1> USE DEF RolloutInv
<1>1. /\ at = "pick" /\ at' = "judge" /\ queue = << >> /\ dry /\ AdvanceDag /\ flying' = {}
      /\ UNCHANGED <<regVars, poolVars, scratch, regPast>> /\ NoteDag
      /\ UNCHANGED <<node, nCommitted, queue, order, tried, best, nCycle, origin>>
  BY DEF HEndTrial, EndTrial, AdvanceDag, Goto, ownVars, searchVars
<1>2. Trying
  BY <1>1, TrialOrNot DEF Filling
<1>3. /\ TrialPlace /\ TrialParts /\ Filling
      /\ poolRecording /\ regRecording /\ regTarget = -1 /\ dagTarget = -1
  BY <1>1, <1>2, TrialOrNot DEF TrialPlace, Filling
<1>4. UnitsTried' /\ UNCHANGED <<dry, poolRecording>>
  BY <1>1, <1>3, UnitsAlone DEF TrialParts
<1>5. /\ Trying' /\ TrialParts' /\ TrialStart' /\ OriginOK'
      /\ UNCHANGED <<regRecording, regTarget, dagTarget>>
  <2>1. TrialParts /\ TrialStart /\ OriginOK /\ NoteRegs /\ at' # "reset"
    BY <1>1, <1>2 DEF PhaseOK, NoteRegs, regVars
  <2> QED
    BY <1>1, <1>2, <1>3, <1>4, <2>1, TrialCall
<1>6. PhaseOK'
  BY <1>1, <1>3, <1>4, <1>5 DEF PhaseOK, TrialPlace, Filling
<1>7. OrderOK' /\ CountOK'
  BY <1>1, <1>2, <1>5 DEF OrderOK, CountOK
<1>8. TrialStuckOK'
  <2>1. free' = free /\ UNCHANGED TrialStuck
    BY <1>1 DEF poolVars, TrialStuck
  <2>2. Range(queue) = {}
    BY <1>1 DEF Range
  <2>3. TrialStuck => AllRefused
    BY <1>1, <1>2, <2>2 DEF TrialStuckOK, AllRefused
  <2>4. \A n : RefusedThen(n)' <=> RefusedThen(n)
    BY <1>1 DEF RefusedThen
  <2> HIDE DEF RefusedThen
  <2> QED
    BY <1>1, <1>2, <1>3, <2>1, <2>3, <2>4 DEF TrialStuckOK, AllRefused
<1>9. EndOK'
  BY <1>1 DEF EndOK, StuckIsFinal
<1> QED
  BY <1>6, <1>7, <1>8, <1>9

\* A trial that scores is the best so far, or is not.
LEMMA JudgeKeeps ==
  ASSUME RolloutInv, Judge, UNCHANGED history
  PROVE  RolloutInv'
<1> USE DEF RolloutInv
<1>1. /\ at = "judge" /\ at' = "undo"
      /\ best' = order \/ (best' = best /\ (TrialStuck \/ best # << >>))
      /\ UNCHANGED <<dagVars, regVars, poolVars, scratch, flying, dagPast, regPast>>
      /\ UNCHANGED <<node, nCommitted, queue, order, tried, nCycle, origin>>
  BY DEF Judge, Goto, history, ownVars, machineVars
<1>2. /\ Trying /\ TrialPlace /\ TrialParts
      /\ poolRecording /\ regRecording /\ regTarget = -1 /\ dagTarget = -1 /\ dry
  BY <1>1, TrialOrNot DEF TrialPlace
<1>3. UnitsTried' /\ UNCHANGED <<dry, poolRecording>>
  BY <1>1, <1>2, UnitsAlone DEF TrialParts
<1>4. /\ Trying' /\ TrialParts' /\ TrialStart' /\ OriginOK'
      /\ UNCHANGED <<regRecording, regTarget, dagTarget>>
  <2>1. TrialParts /\ TrialStart /\ OriginOK /\ NoteRegs /\ NoteDag /\ at' # "reset" /\ UNCHANGED <<dagVars, flying>>
    BY <1>1, <1>2 DEF PhaseOK, NoteRegs, NoteDag, dagVars, regVars
  <2> QED
    BY <1>1, <1>2, <1>3, <2>1, TrialCall
<1>5. PhaseOK'
  BY <1>1, <1>2, <1>3, <1>4 DEF PhaseOK, TrialPlace, Filling
<1>6. OrderOK' /\ CountOK'
  <2>1. RegP!ListOf(order, origin.dag.frontier) /\ origin.dag.frontier # {}
    BY <1>2 DEF OrderOK
  <2> QED
    BY <1>1, <1>2, <1>4, <2>1 DEF OrderOK, CountOK, Filling
<1>7. TrialStuckOK'
  <2>1. order # << >>
    <3>1. RegP!ListOf(order, origin.dag.frontier) /\ origin.dag.frontier # {}
      BY <1>2 DEF OrderOK
    <3> QED
      BY <3>1 DEF RegP!ListOf
  <2>2. TrialStuck => AllRefused
    BY <1>1, <1>2 DEF TrialStuckOK
  <2>3. AllRefused' <=> AllRefused
    BY <1>1 DEF AllRefused, RefusedThen
  <2> QED
    BY <1>1, <2>1, <2>2, <2>3 DEF TrialStuckOK, Filling
<1>8. EndOK'
  BY <1>1 DEF EndOK, StuckIsFinal
<1> QED
  BY <1>5, <1>6, <1>7, <1>8

\* The placements are rolled back, and the allocator's rollback begins.
LEMMA UndoPlacementsKeeps ==
  ASSUME RolloutInv, UndoPlacements, UNCHANGED history
  PROVE  RolloutInv'
<1> USE DEF RolloutInv
<1>1. /\ at = "undo" /\ at' = "undoRegs" /\ Pool!Rollback(0) /\ Reg!Rollback(0)
      /\ UNCHANGED <<dagVars, scratch, flying, dagPast, regPast>>
      /\ UNCHANGED <<node, nCommitted, queue, order, tried, best, nCycle, origin>>
  BY DEF UndoPlacements, Goto, history, ownVars, machineVars, searchVars
<1>2. /\ Trying /\ TrialPlace /\ TrialParts /\ TrialStart /\ OriginOK
      /\ poolRecording /\ dagTarget = -1 /\ dry
  BY <1>1, TrialOrNot DEF TrialPlace
<1>3. UnitsTried' /\ poolRecording' = FALSE /\ dry' = dry /\ Pool!progress' = origin.progress
  BY <1>1, <1>2, UnitsBack DEF TrialParts, Pool!Rollback
<1>4. /\ RegH!RegInv' /\ UNCHANGED <<regRecording, readCount, Reg!regs>> /\ regTarget' = 0
  BY <1>1, <1>2, RegsRolled DEF TrialParts, Reg!Rollback
<1>5. /\ DagH!DagInv' /\ UNCHANGED <<dagRecording, dagTarget>>
      /\ Root(dagPast, point)' = Root(dagPast, point)
  <2>1. NoteDag /\ dagRecording
    BY <1>1, <1>2 DEF NoteDag, dagVars, Trying
  <2> QED
    BY <1>1, <1>2, <2>1, DagsLogged DEF TrialParts
<1>6. OriginOK'
  BY <1>1, <1>2, <1>4, OriginKept
<1>7. TrialStart'
  <2>1. Root(regPast, Reg!regs)' = Root(regPast, Reg!regs)
    BY <1>1, <1>4 DEF Root
  <2> QED
    BY <1>1, <1>2, <1>3, <1>5, <2>1 DEF TrialStart
<1>8. PhaseOK'
  <2>1. TrialPlace'
    BY <1>1, <1>2, <1>3, <1>4, <1>5 DEF TrialPlace, Filling
  <2> QED
    BY <1>2, <1>3, <1>4, <1>5, <1>6, <1>7, <2>1 DEF PhaseOK, TrialParts, Trying
<1>9. OrderOK' /\ CountOK'
  BY <1>1, <1>2, <1>5 DEF OrderOK, CountOK, Trying, Filling
<1>10. TrialStuckOK'
  BY <1>1 DEF TrialStuckOK, Filling, AllRefused, RefusedThen
<1>11. EndOK'
  BY <1>1 DEF EndOK, StuckIsFinal
<1> QED
  BY <1>8, <1>9, <1>10, <1>11

\* The allocator goes back through its log; when it is done, the graph's
\* rollback begins.
LEMMA UndoRegsKeeps ==
  ASSUME RolloutInv, HUndoRegs
  PROVE  RolloutInv'
<1> USE DEF RolloutInv
<1>1. /\ at = "undoRegs"
      /\ UNCHANGED <<poolVars, scratch, flying, dagPast>>
      /\ UNCHANGED <<node, nCommitted, queue, order, tried, best, nCycle, origin>>
      /\ regPast' = IF regLog' = regLog THEN regPast ELSE Front(regPast)
      /\ \/ Reg!PopEntry /\ UNCHANGED <<at, dagVars>>
         \/ Reg!RollbackDone /\ Dag!Rollback(0) /\ at' = "undoDag"
  BY DEF HUndoRegs, UndoRegs, Goto, ownVars, machineVars, searchVars
<1>2. /\ Trying /\ TrialPlace /\ TrialParts /\ TrialStart /\ OriginOK
      /\ ~poolRecording /\ regRecording /\ regTarget = 0 /\ dagTarget = -1 /\ dry
  BY <1>1, TrialOrNot DEF TrialPlace, Filling
<1>3. UnitsTried' /\ UNCHANGED <<dry, poolRecording, Pool!progress>>
  BY <1>1, <1>2, UnitsAlone DEF TrialParts
<1>4. /\ RegH!RegInv' /\ UNCHANGED readCount
      /\ Root(regPast, Reg!regs)' = Root(regPast, Reg!regs)
      /\ at' = "undoRegs" => UNCHANGED <<regRecording, regTarget>>
      /\ at' = "undoDag" => regRecording' = FALSE /\ regTarget' = -1
  <2>1. CASE Reg!PopEntry /\ at' = at
    BY <1>1, <1>2, <2>1, RegsPopped DEF TrialParts
  <2>2. CASE Reg!RollbackDone /\ at' = "undoDag"
    <3>1. UNCHANGED regPast
      BY <1>1, <2>2 DEF Reg!RollbackDone
    <3>2. /\ RegH!RegInv' /\ RegIdle' /\ regPast' = << >> /\ UNCHANGED <<readCount, Reg!regs>>
      BY <1>2, <2>2, <3>1, RegsBack DEF TrialParts
    <3> QED
      BY <2>2, <3>1, <3>2 DEF RegIdle, Root, Reg!RollbackDone
  <2> QED
    BY <1>1, <2>1, <2>2
<1>5. /\ DagH!DagInv' /\ dagRecording' /\ dagTarget' = (IF at' = "undoDag" THEN 0 ELSE -1)
      /\ Root(dagPast, point)' = Root(dagPast, point)
  <2>1. CASE UNCHANGED <<at, dagVars>>
    <3>1. NoteDag /\ dagRecording
      BY <1>1, <1>2, <2>1 DEF NoteDag, dagVars, Trying
    <3> QED
      BY <1>1, <1>2, <2>1, <3>1, DagsLogged DEF TrialParts
  <2>2. CASE Dag!Rollback(0) /\ at' = "undoDag"
    <3>1. DagH!DagInv' /\ dagRecording' /\ dagTarget' = 0 /\ UNCHANGED point
      BY <1>1, <1>2, <2>2, DagsRolled DEF TrialParts
    <3> QED
      BY <1>1, <2>2, <3>1 DEF Root
  <2> QED
    BY <1>1, <2>1, <2>2
<1>6. at' \in {"undoRegs", "undoDag"}
  BY <1>1
<1>7. OriginOK' /\ TrialStart'
  BY <1>1, <1>2, <1>3, <1>4, <1>5, <1>6, OriginKept DEF TrialStart
<1>8. PhaseOK'
  <2>1. TrialPlace'
    BY <1>1, <1>2, <1>3, <1>4, <1>5, <1>6 DEF TrialPlace, Filling
  <2> QED
    BY <1>2, <1>3, <1>4, <1>5, <1>7, <2>1 DEF PhaseOK, TrialParts, Trying
<1>9. OrderOK' /\ CountOK'
  BY <1>1, <1>2, <1>5, <1>6 DEF OrderOK, CountOK, Trying, Filling
<1>10. TrialStuckOK'
  BY <1>1, <1>6 DEF TrialStuckOK, Filling, AllRefused, RefusedThen
<1>11. EndOK'
  BY <1>1, <1>6 DEF EndOK, StuckIsFinal
<1> QED
  BY <1>8, <1>9, <1>10, <1>11

\* The graph goes back through its log; when it is done, the search is where it
\* was before the trial.
LEMMA UndoDagKeeps ==
  ASSUME RolloutInv, HUndoDag
  PROVE  RolloutInv'
<1> USE DEF RolloutInv
<1>1. /\ at = "undoDag"
      /\ UNCHANGED <<regVars, poolVars, scratch, regPast>>
      /\ UNCHANGED <<node, nCommitted, queue, order, best, nCycle, origin>>
      /\ IF dagLog' = dagLog THEN UNCHANGED <<flying, dagPast>>
         ELSE dagPast' = Front(dagPast) /\ flying' = Last(dagPast).inFlight
      /\ \/ Dag!PopEntry /\ UNCHANGED <<at, tried>>
         \/ Dag!RollbackDone /\ at' = "try" /\ tried' = tried + 1
  BY DEF HUndoDag, UndoDag, Goto, ownVars, machineVars
<1>2. /\ Trying /\ TrialPlace /\ TrialParts /\ TrialStart /\ OriginOK
      /\ poolRecording = FALSE /\ regRecording = FALSE /\ regTarget = -1 /\ dagTarget = 0 /\ dry
  BY <1>1, TrialOrNot DEF TrialPlace, Filling
<1>3. UnitsTried' /\ UNCHANGED <<dry, poolRecording, Pool!progress>>
  BY <1>1, <1>2, UnitsAlone DEF TrialParts
<1>4. RegH!RegInv' /\ UNCHANGED <<readCount, regRecording, regTarget, Reg!regs>>
  <2>1. UNCHANGED RegH!vars /\ UNCHANGED <<readCount, regRecording, regTarget, Reg!regs>>
    BY <1>1 DEF regVars, RegH!vars, Reg!regs
  <2> QED
    BY <1>2, <2>1, RegsKept DEF TrialParts
<1>5. OriginOK'
  BY <1>1, <1>2, <1>4, OriginKept
<1>6. CASE Dag!PopEntry /\ UNCHANGED <<at, tried>>
  <2>1. /\ DagH!DagInv' /\ UNCHANGED <<dagRecording, dagTarget>>
        /\ Root(dagPast, point)' = Root(dagPast, point)
    BY <1>1, <1>2, <1>6, DagsPopped DEF TrialParts
  <2>2. TrialStart'
    BY <1>1, <1>2, <1>3, <1>4, <1>6, <2>1 DEF TrialStart, Root
  <2>3. TrialPlace'
    BY <1>1, <1>2, <1>3, <1>4, <1>6, <2>1 DEF TrialPlace, Filling
  <2>4. PhaseOK'
    BY <1>2, <1>3, <1>4, <1>5, <2>1, <2>2, <2>3 DEF PhaseOK, TrialParts, Trying
  <2>5. OrderOK' /\ CountOK'
    BY <1>1, <1>2, <1>6, <2>1 DEF OrderOK, CountOK, Trying, Filling
  <2>6. TrialStuckOK' /\ EndOK'
    BY <1>1, <1>6 DEF TrialStuckOK, Filling, AllRefused, RefusedThen, EndOK, StuckIsFinal
  <2> QED
    BY <2>4, <2>5, <2>6
<1>7. CASE Dag!RollbackDone /\ at' = "try" /\ tried' = tried + 1
  <2>1. regPast = << >>
    <3>1. regLog = << >>
      BY <1>2 DEF TrialParts, RegH!RegInv, RegH!UndoExact
    <3> QED
      BY <1>2, <3>1, RegsPast, EmptySeq DEF TrialParts
  <2>2. Reg!regs = origin.regs /\ Pool!progress = origin.progress
    BY <1>2, <2>1 DEF TrialStart, Root
  <2>3. /\ DagIdle' /\ dagPast' = << >> /\ flying' = {} /\ Dag!live' = origin.dag
    <3>1. UNCHANGED <<flying, dagPast>> /\ InFlight' = {}
      BY <1>1, <1>7 DEF Dag!RollbackDone, InFlight, InCycle, Filling
    <3>2. Root(dagPast, point) = [dag |-> origin.dag, inFlight |-> {}]
      BY <1>2 DEF TrialStart
    <3>3. DagIdle' /\ dagPast' = << >> /\ flying' = {} /\ point' = Root(dagPast, point)
      BY <1>2, <1>7, <3>1, <3>2, DagsBack DEF TrialParts
    <3> QED
      BY <3>2, <3>3 DEF point
  <2>4. RegIdle'
    <3>1. (regPast = << >> => (RegP!RegInv <=> RegH!RegInv))'
      BY RegsIdle, PTL
    <3> QED
      BY <1>1, <1>2, <1>4, <2>1, <3>1 DEF RegIdle
  <2>5. PoolIdle'
    <3>1. (~poolRecording =>
             /\ PoolP!TypeOK /\ PoolP!Modes /\ PoolP!BudgetExact => UnitsTried /\ tokens = {} /\ poolLog = << >>
             /\ UnitsTried => PoolP!TypeOK /\ PoolP!Modes /\ PoolP!BudgetExact)'
      BY UnitsIdle, PTL
    <3>2. PoolP!TypeOK' /\ PoolP!Modes' /\ PoolP!BudgetExact' /\ ~poolRecording' /\ dry'
      BY <1>2, <1>3, <3>1
    <3>3. ~InCycle'
      BY <1>7 DEF InCycle, Filling
    <3> QED
      BY <3>2, <3>3 DEF PoolIdle, PoolP!IndicesGrow, PoolP!EvictionIndexValid
  <2>6. Dag!live' = origin'.dag /\ Reg!regs' = origin'.regs /\ Pool!progress' = origin'.progress
    BY <1>1, <1>3, <1>4, <2>2, <2>3
  <2>7. RunnerInv'
    <3>1. (at = "try" => (RunnerInv <=> PartsOK /\ TablesAt(Dag!live, Reg!regs, Pool!progress)))'
      BY TablesThen, PTL
    <3>2. PartsOK'
      BY <2>3, <2>4, <2>5 DEF PartsOK
    <3>3. TablesAt(Dag!live, Reg!regs, Pool!progress)'
      BY <1>5, <2>6 DEF OriginOK
    <3> QED
      BY <1>7, <3>1, <3>2, <3>3
  <2>8. snapshot' = origin'
    <3>1. origin' = [dag |-> origin'.dag, regs |-> origin'.regs, progress |-> origin'.progress]
      BY <1>1, <1>2 DEF TrialStart
    <3> QED
      BY <2>6, <3>1 DEF snapshot
  <2>9. ~Trying'
    BY <2>3 DEF DagIdle, Trying
  <2>10. PhaseOK'
    BY <1>1, <2>1, <2>3, <2>7, <2>8, <2>9 DEF PhaseOK, Trying
  <2>11. OrderOK' /\ CountOK'
    <3>1. committed' = origin.dag.committed
      BY <2>3 DEF Dag!live
    <3> QED
      BY <1>1, <1>2, <1>7, <2>9, <3>1 DEF OrderOK, CountOK, InCycle, Filling
  <2>12. TrialStuckOK' /\ EndOK'
    BY <1>1, <1>7, <2>9 DEF TrialStuckOK, Filling, AllRefused, RefusedThen, EndOK, StuckIsFinal
  <2> QED
    BY <2>10, <2>11, <2>12
<1> QED
  BY <1>1, <1>6, <1>7

-----------------------------------------------------------------------------
\* With no trial open nothing is noted, and the runner's lemmas carry the rest.
LEMMA UntriedKept ==
  ASSUME PhaseOK, ~Trying, RunnerInv', UNCHANGED <<dagRecording, history>>,
         at' = "try" => snapshot' = origin'
  PROVE  PhaseOK' /\ ~Trying'
BY DEF PhaseOK, Trying, history

\* The trials of a cycle begin.
LEMMA BeginSearchKeeps ==
  ASSUME RolloutInv, BeginSearch, UNCHANGED history
  PROVE  RolloutInv'
<1> USE DEF RolloutInv
<1>1. /\ at = "top" /\ at' = "try" /\ tried' = 0 /\ best' = << >> /\ origin' = snapshot /\ frontier # {}
      /\ UNCHANGED <<dagVars, regVars, poolVars, ownVars, machineVars, queue, order, nCycle>>
  BY DEF BeginSearch, Goto
<1>2. ~Trying /\ RunnerInv
  BY <1>1, TrialOrNot
<1>3. RunnerInv'
  BY <1>1, <1>2, StopStep
<1>4. UNCHANGED <<snapshot, dagRecording, committed, frontier, nCommitted>>
  BY <1>1 DEF snapshot, Dag!live, Reg!regs, Pool!progress, dagVars, regVars, poolVars, ownVars
<1>5. PhaseOK' /\ ~Trying'
  BY <1>1, <1>2, <1>3, <1>4, UntriedKept
<1>6. OrderOK'
  <2>1. origin'.dag.frontier = frontier
    BY <1>1 DEF snapshot, Dag!live
  <2> QED
    BY <1>1, <1>5, <2>1 DEF OrderOK, Filling
<1>7. CountOK'
  BY <1>1, <1>2, <1>4, <1>5 DEF CountOK, InCycle, Filling
<1>8. TrialStuckOK' /\ EndOK'
  BY <1>1, <1>5 DEF TrialStuckOK, EndOK, StuckIsFinal
<1> QED
  BY <1>5, <1>6, <1>7, <1>8

\* The best order is run again, emitting.
LEMMA ReplayKeeps ==
  ASSUME RolloutInv, Replay, UNCHANGED history
  PROVE  RolloutInv'
<1> USE DEF RolloutInv
<1>1. /\ at = "try" /\ at' = "pick" /\ best # << >> /\ StartCycle(FALSE) /\ queue' = best /\ nCycle' = 0
      /\ UNCHANGED <<dagVars, ownVars, order, tried, best, origin>>
  BY DEF Replay, RunCycle, StartCycle, Goto
<1>2. ~Trying /\ RunnerInv /\ snapshot = origin
  BY <1>1, TrialOrNot
<1>3. /\ origin.dag.frontier = frontier /\ frontier # {}
  BY <1>1, <1>2 DEF snapshot, Dag!live, OrderOK
<1>4. RunnerInv' /\ UNCHANGED <<committed, frontier>>
  BY <1>1, <1>2, <1>3, StartStep
<1>5. UNCHANGED <<dagRecording, nCommitted, node>>
  BY <1>1 DEF dagVars, ownVars
<1>6. PhaseOK' /\ ~Trying'
  BY <1>1, <1>2, <1>4, <1>5, UntriedKept
<1>7. OrderOK'
  <2>1. best \in Seq(frontier) /\ IsInjective(best)
    BY <1>1, <1>3 DEF OrderOK, RegP!ListOf, RegP!IsInjective, IsInjective
  <2> QED
    BY <1>1, <1>4, <1>6, <2>1 DEF OrderOK
<1>8. CountOK'
  BY <1>1, <1>2, <1>4, <1>5, <1>6 DEF CountOK, InCycle, Filling
<1>9. TrialStuckOK' /\ EndOK'
  BY <1>1, <1>6 DEF TrialStuckOK, EndOK, StuckIsFinal
<1> QED
  BY <1>6, <1>7, <1>8, <1>9

\* The replay takes the next node of its order.
LEMMA PickInReplay ==
  ASSUME RolloutInv, ~Trying, Pick, UNCHANGED history
  PROVE  RolloutInv'
<1> USE DEF RolloutInv
<1>1. /\ at = "pick" /\ queue # << >> /\ Take(Head(queue)) /\ node' = Head(queue) /\ queue' = Tail(queue)
      /\ at' \in {"place", "write"}
      /\ UNCHANGED <<dagVars, nCommitted, order, tried, best, nCycle, origin>>
  BY DEF Pick, Take, Goto
<1>2. /\ RunnerInv /\ Filling /\ InCycle /\ queue \in Seq(frontier) /\ IsInjective(queue)
  BY <1>1, TrialOrNot DEF OrderOK, Filling, InCycle
<1>3. /\ Head(queue) \in frontier /\ Tail(queue) \in Seq(frontier)
      /\ IsInjective(Tail(queue)) /\ Head(queue) \notin Range(Tail(queue))
  BY <1>1, <1>2, HeadAndTail
<1>4. RunnerInv'
  BY <1>1, <1>2, <1>3, TakeStep
<1>5. UNCHANGED <<dagRecording, frontier, committed>> /\ Filling' /\ InCycle'
  BY <1>1 DEF dagVars, Filling, InCycle
<1>6. PhaseOK' /\ ~Trying'
  BY <1>1, <1>2, <1>4, <1>5, UntriedKept
<1>7. OrderOK' /\ CountOK'
  BY <1>1, <1>2, <1>3, <1>5, <1>6 DEF OrderOK, CountOK
<1>8. TrialStuckOK' /\ EndOK'
  BY <1>1, <1>6 DEF TrialStuckOK, EndOK, StuckIsFinal, AllRefused, RefusedThen
<1> QED
  BY <1>6, <1>7, <1>8

\* The calls for that node: RunnerInv keeps the allocator and the units right.
LEMMA InnerInReplay ==
  ASSUME RolloutInv, ~Trying, HInner
  PROVE  RolloutInv'
<1> USE DEF RolloutInv
<1>1. /\ at \in {"write", "place", "unwrite", "read"} /\ at' \in {"pick", "place", "unwrite", "read"}
      /\ UNCHANGED <<dagVars, node, nCommitted, flying, dagPast>> /\ NoteRegs
      /\ UNCHANGED <<queue, order, tried, best, nCycle, origin>>
  BY DEF HInner, Inner, Allocate, PlaceNode, GiveBack, ConsumeRead, Goto, AfterPlace, ownVars
<1>2. RunnerInv /\ Filling /\ Filling' /\ InCycle /\ InCycle' /\ regRecording = FALSE
  <2>1. RunnerInv
    BY TrialOrNot
  <2>2. RegIdle /\ regRecording \in BOOLEAN
    BY <2>1, InvParts DEF RegIdle, RegP!RegInv, RegP!TypeOK
  <2> QED
    BY <1>1, <2>1, <2>2 DEF RegIdle, Filling, InCycle
<1>3. RunnerInv'
  <2>1. CASE PlaceNode \/ GiveBack \/ ConsumeRead
    BY <1>2, <2>1, PlaceStep, GiveBackStep, ConsumeStep
  <2>2. CASE Allocate
    <3>1. at = "write" /\ UNCHANGED <<dagVars, poolVars, ownVars, machineVars>>
      BY <2>2 DEF Allocate
    <3>2. CASE UNCHANGED regVars /\ at' = "place" /\ \A t \in Dest(node) : t \in DOMAIN assigned
      BY <1>2, <3>1, <3>2, KeepOrRefuseStep DEF Holds
    <3>3. CASE at' = "place" /\ \E t \in Dest(node) : Reg!Write(t)
      BY <1>2, <3>1, <3>3, WriteStep
    <3>4. CASE UNCHANGED regVars /\ at' = "pick"
      BY <1>2, <3>1, <3>4, KeepOrRefuseStep
    <3> QED
      BY <2>2, <3>2, <3>3, <3>4 DEF Allocate, Goto
  <2> QED
    BY <2>1, <2>2 DEF HInner, Inner
<1>4. UNCHANGED regPast
  <2>1. UNCHANGED regLog
    BY <1>2 DEF HInner, Inner, Allocate, PlaceNode, GiveBack, ConsumeRead, regVars,
       Reg!Write, Reg!WriteVec, Reg!WriteWord, Reg!WriteClaim, Reg!Unwrite, Reg!Read, Reg!Record
  <2> QED
    BY <1>1, <2>1 DEF NoteRegs
<1>5. UNCHANGED <<dagRecording, frontier, committed, history>>
  BY <1>1, <1>4 DEF dagVars, history
<1>6. PhaseOK' /\ ~Trying'
  BY <1>1, <1>3, <1>5, UntriedKept
<1>7. OrderOK' /\ CountOK'
  BY <1>1, <1>2, <1>5, <1>6 DEF OrderOK, CountOK
<1>8. TrialStuckOK' /\ EndOK'
  BY <1>1, <1>6 DEF TrialStuckOK, EndOK, StuckIsFinal, AllRefused, RefusedThen
<1> QED
  BY <1>6, <1>7, <1>8

\* It commits a node, and the rest of the order is still ready.
LEMMA CommitInReplay ==
  ASSUME RolloutInv, ~Trying, HCommit
  PROVE  RolloutInv'
<1> USE DEF RolloutInv
<1>1. /\ at = "read" /\ at' = "pick" /\ CommitNode /\ Dag!Commit(node) /\ nCycle' = nCycle + 1
      /\ UNCHANGED regPast /\ NoteCommit /\ NoteDag
      /\ UNCHANGED <<nCommitted, queue, order, tried, best, origin>>
  BY DEF HCommit, Commit, CommitNode, Goto
<1>2. /\ RunnerInv /\ Filling /\ InCycle /\ Filling' /\ InCycle' /\ committed \subseteq Node
      /\ queue \in Seq(frontier) /\ IsInjective(queue) /\ node \notin Range(queue)
  <2>1. RunnerInv /\ Filling
    BY <1>1, TrialOrNot DEF Filling
  <2> QED
    BY <1>1, <2>1, InvParts DEF OrderOK, Filling, InCycle
<1>3. /\ RunnerInv' /\ node \in Node \ committed /\ committed' = committed \cup {node}
      /\ frontier \ {node} \subseteq frontier'
  BY <1>1, <1>2, CommitStep
<1>4. UNCHANGED <<dagRecording, history>>
  <2>1. UNCHANGED <<dagLog, dagRecording>> /\ ~dagRecording
    BY <1>1 DEF Trying, Dag!Commit, Dag!Record
  <2> QED
    BY <1>1, <2>1 DEF NoteCommit, NoteDag, history
<1>5. PhaseOK' /\ ~Trying'
  BY <1>1, <1>3, <1>4, UntriedKept
<1>6. queue \in Seq(frontier')
  <2>1. \A k \in 1 .. Len(queue) : queue[k] \in frontier /\ queue[k] # node
    BY <1>2, ElementOfSeq, LenProperties DEF Range
  <2>2. \A k \in 1 .. Len(queue) : queue[k] \in frontier'
    BY <1>3, <2>1
  <2> QED
    BY <1>2, <2>2, LenProperties, SeqDef
<1>7. OrderOK'
  BY <1>1, <1>2, <1>5, <1>6 DEF OrderOK
<1>8. CountOK'
  <2>1. Cardinality(committed') = Cardinality(committed) + 1
    BY <1>2, <1>3, ProgramFacts, FS_Subset, FS_AddElement
  <2> QED
    BY <1>1, <1>2, <1>5, <2>1 DEF CountOK
<1>9. TrialStuckOK' /\ EndOK'
  BY <1>1, <1>5 DEF TrialStuckOK, EndOK, StuckIsFinal, AllRefused, RefusedThen
<1> QED
  BY <1>5, <1>7, <1>8, <1>9

\* The bundle is executed.
LEMMA EndReplayKeeps ==
  ASSUME RolloutInv, EndReplay, UNCHANGED history
  PROVE  RolloutInv'
<1> USE DEF RolloutInv
<1>1. /\ at = "pick" /\ ~dry /\ at' = "advance" /\ Execute
      /\ UNCHANGED <<dagVars, regVars, poolVars, ownVars, resolved>>
      /\ UNCHANGED <<nCommitted, queue, order, tried, best, nCycle, origin, dagRecording, committed>>
  BY DEF EndReplay, Goto, searchVars, ownVars, dagVars
<1>2. ~Trying /\ RunnerInv
  BY <1>1, TrialOrNot DEF Filling
<1>3. RunnerInv'
  BY <1>1, <1>2, EmitStep
<1>4. PhaseOK' /\ ~Trying'
  BY <1>1, <1>2, <1>3, UntriedKept
<1>5. OrderOK' /\ CountOK'
  BY <1>1, <1>2, <1>4 DEF OrderOK, CountOK, InCycle, Filling
<1>6. TrialStuckOK' /\ EndOK'
  BY <1>1, <1>4 DEF TrialStuckOK, EndOK, StuckIsFinal, AllRefused, RefusedThen
<1> QED
  BY <1>4, <1>5, <1>6

\* The graph advances, and the loop counts what the replay committed.
LEMMA AdvanceKeeps ==
  ASSUME RolloutInv, Advance, UNCHANGED history
  PROVE  RolloutInv'
<1> USE DEF RolloutInv
<1>1. /\ at = "advance" /\ at' = "collect" /\ AdvanceDag /\ nCommitted' = nCommitted + nCycle
      /\ UNCHANGED <<node, todo, scratch>>
      /\ UNCHANGED <<queue, order, tried, best, nCycle, origin>>
  BY DEF Advance, Goto, searchVars
<1>2. ~Trying /\ RunnerInv
  BY <1>1, TrialOrNot
<1>3. RunnerInv' /\ committed' = committed
  BY <1>1, <1>2, AdvanceStep
<1>4. UNCHANGED dagRecording
  BY <1>1 DEF AdvanceDag, Dag!Advance, dagVars
<1>5. PhaseOK' /\ ~Trying'
  BY <1>1, <1>2, <1>3, <1>4, UntriedKept
<1>6. OrderOK'
  BY <1>1, <1>5 DEF OrderOK, Filling
<1>7. CountOK'
  BY <1>1, <1>2, <1>3, <1>5 DEF CountOK, InCycle, Filling
<1>8. TrialStuckOK' /\ EndOK'
  BY <1>1, <1>5 DEF TrialStuckOK, EndOK, StuckIsFinal, AllRefused, RefusedThen
<1> QED
  BY <1>5, <1>6, <1>7, <1>8

\* Garbage is collected, and none is left.
LEMMA CollectKeeps ==
  ASSUME RolloutInv, Collect, UNCHANGED history
  PROVE  RolloutInv'
<1> USE DEF RolloutInv
<1>1. /\ at = "collect" /\ at' \in {"top", "capped"} /\ CollectGarbage
      /\ UNCHANGED <<node, todo, nCommitted, machineVars, dagVars>>
      /\ UNCHANGED <<queue, order, tried, best, nCycle, origin>>
  BY DEF Collect, CollectGarbage, CountCycle, Goto, searchVars
<1>2. ~Trying /\ RunnerInv
  BY <1>1, TrialOrNot
<1>3. RunnerInv' /\ committed' = committed
  BY <1>1, <1>2, CollectStep
<1>4. UNCHANGED dagRecording
  BY <1>1 DEF dagVars
<1>5. PhaseOK' /\ ~Trying'
  BY <1>1, <1>2, <1>3, <1>4, UntriedKept
<1>6. OrderOK' /\ CountOK'
  BY <1>1, <1>2, <1>3, <1>5 DEF OrderOK, CountOK, InCycle, Filling
<1>7. Reg!Reclaimable' = {}
  BY <1>1, <1>2, NothingReclaimable, InvParts
<1>8. TrialStuckOK' /\ EndOK'
  BY <1>1, <1>5, <1>7 DEF TrialStuckOK, EndOK, StuckIsFinal, AllRefused, RefusedThen
<1> QED
  BY <1>5, <1>6, <1>8

\* "deadlock" is raised only when no ready node can get a register, and the
\* empty frontier never: the trials of a cycle with no winner each found every
\* ready node refused.
LEMMA FailKeeps ==
  ASSUME RolloutInv, Fail, UNCHANGED history
  PROVE  RolloutInv'
<1> USE DEF RolloutInv
<1>1. /\ Failure # "none" /\ at' = Failure
      /\ UNCHANGED <<dagVars, regVars, poolVars, ownVars, machineVars>>
      /\ UNCHANGED <<nCommitted, queue, order, tried, best, nCycle, origin>>
  BY DEF Fail, Raise, Goto, searchVars, ownVars
<1>2. at \in {"top", "try"} /\ ~Trying /\ RunnerInv
  <2>1. at \in {"top", "try"}
    BY <1>1 DEF Failure
  <2> QED
    BY <2>1, TrialOrNot
<1>3. ~ (at = "top" /\ nCommitted < Len(Program) /\ frontier = {})
  <2> SUFFICES ASSUME at = "top", nCommitted < Len(Program) PROVE frontier # {}
    OBVIOUS
  <2>1. ~InCycle
    BY DEF InCycle, Filling
  <2>2. nCommitted = Cardinality(committed)
    BY <1>2, <2>1 DEF CountOK
  <2>3. committed # Node
    BY <1>2, <2>2, CountedNodes, ProgramFacts
  <2> QED
    BY <1>2, <2>1, <2>3, SomeReady
<1>4. at = "try" /\ at' = "stuck" /\ tried = Trials /\ best = << >>
  BY <1>1, <1>3 DEF Failure
<1>5. RunnerInv'
  BY <1>1, <1>2, <1>4, StopStep
<1>6. UNCHANGED <<dagRecording, committed, frontier, freeVec, freeWords, assigned>>
  BY <1>1 DEF dagVars, regVars
<1>7. PhaseOK' /\ ~Trying'
  BY <1>2, <1>4, <1>5, <1>6, UntriedKept
<1>8. frontier # {} /\ \A n \in frontier : Refused(n)
  <2>1. origin = snapshot
    BY <1>2, <1>4, TrialOrNot
  <2>2. origin.regs = Reg!regs /\ origin.dag.frontier = frontier
    BY <2>1 DEF snapshot, Dag!live
  <2>3. AllRefused /\ origin.dag.frontier # {}
    BY <1>4, TrialsAssumption DEF TrialStuckOK, OrderOK
  <2> QED
    BY <2>2, <2>3 DEF AllRefused, RefusedThen, Refused
<1>9. StuckIsFinal'
  BY <1>2, <1>6, <1>8, RefusedIsFinal
<1>10. OrderOK' /\ CountOK'
  BY <1>1, <1>2, <1>4, <1>6, <1>7 DEF OrderOK, CountOK, InCycle, Filling
<1>11. TrialStuckOK' /\ EndOK'
  BY <1>1, <1>4, <1>7, <1>9 DEF TrialStuckOK, EndOK, AllRefused, RefusedThen
<1> QED
  BY <1>7, <1>10, <1>11

\* The loop returns when every node is committed.
LEMMA ReturnKeeps ==
  ASSUME RolloutInv, Return, UNCHANGED history
  PROVE  RolloutInv'
<1> USE DEF RolloutInv
<1>1. /\ at = "top" /\ at' = "done" /\ nCommitted = Len(Program)
      /\ UNCHANGED <<dagVars, regVars, poolVars, ownVars, machineVars>>
      /\ UNCHANGED <<nCommitted, queue, order, tried, best, nCycle, origin>>
  BY DEF Return, Finish, Goto, searchVars, ownVars
<1>2. ~Trying /\ RunnerInv /\ ~InCycle
  BY <1>1, TrialOrNot DEF InCycle, Filling
<1>3. RunnerInv'
  BY <1>1, <1>2, StopStep
<1>4. UNCHANGED <<dagRecording, committed, freeCount>>
  BY <1>1 DEF dagVars, regVars
<1>5. PhaseOK' /\ ~Trying'
  BY <1>1, <1>2, <1>3, <1>4, UntriedKept
<1>6. OrderOK' /\ CountOK'
  BY <1>1, <1>2, <1>4, <1>5 DEF OrderOK, CountOK, InCycle, Filling
<1>7. committed = Node
  <2>1. nCommitted = Cardinality(committed)
    BY <1>2 DEF CountOK
  <2> QED
    BY <1>1, <1>2, <2>1, CountedNodes
<1>8. TrialStuckOK' /\ EndOK'
  BY <1>1, <1>4, <1>5, <1>7 DEF TrialStuckOK, EndOK, StuckIsFinal, AllRefused, RefusedThen, Reg!Reclaimable
<1> QED
  BY <1>5, <1>6, <1>8

\* A step of something else.
LEMMA StayKeeps ==
  ASSUME RolloutInv, UNCHANGED hvars
  PROVE  RolloutInv'
<1> USE DEF RolloutInv
<1>1. /\ UNCHANGED <<dagVars, regVars, poolVars, at, ownVars, machineVars, history>>
      /\ UNCHANGED <<queue, order, tried, best, nCycle, origin>>
  BY DEF hvars, vars, searchVars
<1>2. /\ UNCHANGED <<node, nCommitted, scratch, flying, dagPast, regPast, free, dry, poolRecording>>
      /\ UNCHANGED <<readCount, freeVec, freeWords, freeCount, claimOf, assigned, remaining,
                     regRecording, regLog, regTarget, latest>>
      /\ UNCHANGED <<graph, raw, war, pending, committed, frontier, dagRecording, dagLog, dagTarget>>
  BY <1>1 DEF ownVars, machineVars, history, poolVars, regVars, dagVars
<1>3. UNCHANGED <<Reg!regs, Pool!progress, point, snapshot, Filling, InCycle, TrialStuck>>
  BY <1>1, <1>2 DEF Reg!regs, Pool!progress, point, snapshot, Dag!live, Filling, InCycle, TrialStuck, poolVars
<1>4. PhaseOK'
  <2>1. CASE Trying
    <3>1. TrialPlace /\ TrialParts /\ TrialStart /\ OriginOK
      BY <2>1, TrialOrNot
    <3>2. UNCHANGED DagH!vars /\ UNCHANGED RegH!vars
      BY <1>2 DEF DagH!vars, RegH!vars
    <3>3. TrialParts'
      BY <1>1, <3>1, <3>2, DagsKept, RegsKept, UnitsAlone DEF TrialParts
    <3>4. TrialStart' /\ OriginOK'
      BY <1>1, <1>2, <1>3, <3>1, OriginKept DEF TrialStart, Root
    <3>5. TrialPlace'
      BY <1>1, <1>2, <1>3, <3>1 DEF TrialPlace
    <3> QED
      BY <1>2, <2>1, <3>3, <3>4, <3>5 DEF PhaseOK, Trying
  <2>2. CASE ~Trying
    <3>1. RunnerInv /\ (at = "try" => snapshot = origin)
      BY <2>2, TrialOrNot
    <3>2. RunnerInv'
      BY <1>1, <3>1, StutterStep
    <3> QED
      BY <1>1, <1>2, <1>3, <2>2, <3>1, <3>2, UntriedKept
  <2> QED
    BY <2>1, <2>2
<1>5. OrderOK' /\ CountOK'
  BY <1>1, <1>2, <1>3 DEF OrderOK, CountOK, Trying
<1>6. TrialStuckOK'
  BY <1>1, <1>2, <1>3 DEF TrialStuckOK, Trying, AllRefused, RefusedThen
<1>7. EndOK'
  BY <1>1, <1>2 DEF EndOK, StuckIsFinal, FreeWords, Reg!Reclaimable
<1> QED
  BY <1>4, <1>5, <1>6, <1>7

\* The loop in its first state.
LEMMA RolloutStart == HInit => RolloutInv
<1> SUFFICES ASSUME HInit PROVE RolloutInv
  OBVIOUS
<1>1. /\ RunnerInv /\ at = "top" /\ nCommitted = 0 /\ nCycle = 0 /\ tried = 0 /\ best = << >>
      /\ flying = {} /\ dagPast = << >> /\ regPast = << >>
  BY RunnerStart DEF HInit, Init, RunnerInit
<1>2. committed = {} /\ Reg!Reclaimable = {} /\ ~Trying
  BY DEF HInit, Init, RunnerInit, Dag!Init, Dag!Fresh, Reg!Init, Reg!Empty, Reg!Reclaimable, Trying
<1>3. CountOK
  BY <1>1, <1>2, FS_EmptySet DEF CountOK, InCycle, Filling
<1> QED
  BY <1>1, <1>2, <1>3 DEF RolloutInv, PhaseOK, OrderOK, TrialStuckOK, EndOK, StuckIsFinal, Filling
-----------------------------------------------------------------------------
\* The invariant of schedule_rollout().
THEOREM RolloutInvariant == HSpec => []RolloutInv
<1>1. RolloutInv /\ [HNext]_hvars => RolloutInv'
  <2> SUFFICES ASSUME RolloutInv, [HNext]_hvars PROVE RolloutInv'
    OBVIOUS
  <2>1. CASE HInner \/ HCommit \/ (Pick /\ UNCHANGED history)
    BY <2>1, InnerInTrial, InnerInReplay, CommitInTrial, CommitInReplay, PickInTrial, PickInReplay
  <2>2. CASE (BeginSearch \/ OpenTrial \/ StartTrial \/ Judge) /\ UNCHANGED history
    BY <2>2, BeginSearchKeeps, OpenTrialKeeps, StartTrialKeeps, JudgeKeeps
  <2>3. CASE HEndTrial \/ HUndoRegs \/ HUndoDag \/ (UndoPlacements /\ UNCHANGED history)
    BY <2>3, EndTrialKeeps, UndoRegsKeeps, UndoDagKeeps, UndoPlacementsKeeps
  <2>4. CASE (Replay \/ EndReplay \/ Advance \/ Collect) /\ UNCHANGED history
    BY <2>4, ReplayKeeps, EndReplayKeeps, AdvanceKeeps, CollectKeeps
  <2>5. CASE (Fail \/ Return) /\ UNCHANGED history
    BY <2>5, FailKeeps, ReturnKeeps
  <2>6. CASE UNCHANGED hvars
    BY <2>6, StayKeeps
  <2>7. Stay /\ UNCHANGED history => UNCHANGED hvars
    BY DEF Stay, hvars
  <2> QED
    BY <2>1, <2>2, <2>3, <2>4, <2>5, <2>6, <2>7 DEF HNext
<1> QED
  BY <1>1, RolloutStart, PTL DEF HSpec

\* A trial, whatever it tried and however it ended, leaves no trace in the
\* graph, the allocator or the progress of any node.
THEOREM RolloutTrialLeavesNoTrace == HSpec => []TrialLeavesNoTrace
<1>1. RolloutInv => TrialLeavesNoTrace
  BY TrialOrNot DEF RolloutInv, TrialLeavesNoTrace
<1> QED
  BY <1>1, RolloutInvariant, PTL

\* Every slot of every bundle that a replay emits finds its operands in the
\* registers it names.
THEOREM RolloutOperandsIntact == HSpec => []OperandsIntact
<1>1. RolloutInv => OperandsIntact
  <2> SUFFICES ASSUME RolloutInv, at = "pick", ~dry PROVE SlotsReadRight
    BY DEF OperandsIntact
  <2>1. Filling /\ RunnerInv
    BY TrialOrNot DEF RolloutInv, Filling
  <2> QED
    BY <2>1 DEF RunnerInv, ReadsOK
<1> QED
  BY <1>1, RolloutInvariant, PTL

\* The "deadlock" error of schedule_rollout() is final: no ready node can get a
\* register, though the search saw it only through its trials.
THEOREM RolloutStuckIsFinal == HSpec => []StuckIsFinal
<1>1. RolloutInv => StuckIsFinal
  BY DEF RolloutInv, EndOK
<1> QED
  BY <1>1, RolloutInvariant, PTL

\* "frontier empty ..." is never raised.
THEOREM RolloutNeverStarved == HSpec => [](at # "starved")
<1>1. RolloutInv => at # "starved"
  BY DEF RolloutInv, EndOK
<1> QED
  BY <1>1, RolloutInvariant, PTL

\* A complete schedule of a pruned program has given every register back.
THEOREM RolloutNothingLeaks ==
  ASSUME EveryTagRead
  PROVE  HSpec => []NothingLeaks
<1>1. RolloutInv => NothingLeaks
  <2> SUFFICES ASSUME RolloutInv, at = "done"
               PROVE  DOMAIN assigned = {} /\ Len(freeVec) = (SCRATCH \div VLEN) - 1
    BY DEF NothingLeaks
  <2>1. RunnerInv /\ committed = Node /\ Reg!Reclaimable = {}
    BY TrialOrNot DEF RolloutInv, EndOK
  <2>2. DOMAIN assigned = {}
    BY <2>1, AllGivenBack
  <2> QED
    BY <2>1, <2>2, PoolWhole, InvParts
<1> QED
  BY <1>1, RolloutInvariant, PTL

-----------------------------------------------------------------------------
(***************************************************************************)
(* The cap.  A cycle is replayed only after a trial that took a slot or    *)
(* committed a node; so some node that was ready could have had a          *)
(* register, and the replay emits.                                         *)
(***************************************************************************)

\* When every ready node would be refused a register, a trial gets nowhere.
Stalled ==
  /\ at = "judge" => TrialStuck
  /\ Filling => /\ at \in {"pick", "write"} /\ TrialStuck /\ Reg!regs = origin.regs
                /\ Range(queue) \subseteq origin.dag.frontier
                /\ at = "write" => node \in origin.dag.frontier

\* In a replay that has emitted nothing, the nodes offered so far were refused.
RefusedSoFar ==
  Emitted = {} /\ at \in {"pick", "write"} =>
    /\ Reg!regs = origin.regs
    /\ \A n \in origin.dag.frontier :
         n \in Range(queue) \/ RefusedThen(n) \/ (at = "write" /\ n = node)

\* The cycles emitted are paid for, by what was done before an open trial.
CapOK ==
  /\ IF Trying
     THEN C \in Nat /\ C <= Cardinality(PaidAt(origin.dag.committed, origin.progress.lanesDone))
     ELSE BaselineOK
  /\ Trying /\ AllRefused => Stalled
  /\ best # <<>> => ~AllRefused
  /\ Filling /\ ~Trying => best # <<>> /\ RefusedSoFar

\* What was refused at the start of the cycle.
LEMMA SameOrigin ==
  ASSUME UNCHANGED origin
  PROVE  (AllRefused' <=> AllRefused) /\ \A n : RefusedThen(n)' <=> RefusedThen(n)
<1>1. \A n : RefusedThen(n)' <=> RefusedThen(n)
  BY DEF RefusedThen
<1> HIDE DEF RefusedThen
<1> QED
  BY <1>1 DEF AllRefused

\* A node that was refused is not a debug node, and while the allocator is as
\* it was Allocate refuses it again.
LEMMA RefusedAgain ==
  ASSUME NEW n \in Node, RefusedThen(n)
  PROVE  /\ Kind[n] # "debug"
         /\ Reg!regs = origin.regs /\ n = node /\ Allocate => at' = "pick" /\ UNCHANGED regVars
<1>1. PICK t \in Dest(n) : ~Reg!CanWrite(origin.regs, t)
  BY DEF RefusedThen
<1>2. Kind[n] # "debug" /\ \A u \in Dest(n) : u = t
  BY <1>1, ProgramAssumption
<1>3. ASSUME Reg!regs = origin.regs, n = node, Allocate
      PROVE  at' = "pick" /\ UNCHANGED regVars
  <2>1. ~Reg!CanWrite(Reg!regs, t) /\ Reg!regs.assigned = assigned
    BY <1>1, <1>3 DEF Reg!regs
  <2>2. t \notin DOMAIN assigned
    BY <2>1 DEF Reg!CanWrite
  <2>3. ~ \E u \in Dest(node) : Reg!Write(u)
    BY <1>2, <1>3, <2>1 DEF Reg!Write
  <2> QED
    BY <1>1, <1>3, <2>2, <2>3 DEF Allocate, Goto
<1> QED
  BY <1>2, <1>3

\* A trial that gets nowhere gets no further.
LEMMA StaysStalled ==
  ASSUME RolloutInv, CapOK, Trying, AllRefused,
         \/ StartTrial \/ Pick \/ HInner \/ HCommit \/ HEndTrial
         \/ Judge \/ UndoPlacements \/ HUndoRegs \/ HUndoDag
  PROVE  Stalled'
<1>1. /\ Stalled /\ TrialPlace /\ TrialStart /\ OrderOK
      /\ origin.dag.frontier \subseteq Node /\ \A n \in origin.dag.frontier : RefusedThen(n)
  BY TrialOrNot, OriginState DEF RolloutInv, CapOK, DagH!State, AllRefused
<1>2. CASE StartTrial
  <2>1. /\ at = "reset" /\ at' = "pick" /\ queue' = order /\ nCycle' = 0 /\ free' = Capacity
        /\ UNCHANGED <<regVars, origin>>
    BY <1>2 DEF StartTrial, RunCycle, StartCycle, Goto, Pool!NewCycle
  <2>2. Reg!regs' = origin'.regs
    BY <1>1, <2>1 DEF TrialStart, Root, regVars, Reg!regs
  <2>3. Range(order) \subseteq origin.dag.frontier
    BY <1>1 DEF OrderOK, RegP!ListOf, RegP!Range, Range
  <2> QED
    BY <2>1, <2>2, <2>3 DEF Stalled, TrialStuck
<1>3. CASE Pick
  <2>1. /\ at = "pick" /\ queue # << >> /\ node' = Head(queue) /\ queue' = Tail(queue)
        /\ at' = (IF Kind[node'] = "debug" THEN "place" ELSE "write") /\ Filling
        /\ UNCHANGED <<free, nCycle, Reg!regs, origin>>
    BY <1>3 DEF Pick, Take, Goto, Filling, poolVars, regVars, Reg!regs
  <2>2. queue \in Seq(Node)
    BY <1>1, <2>1 DEF TrialPlace
  <2>3. Range(queue) = {Head(queue)} \cup Range(Tail(queue))
    BY <2>1, <2>2, HeadAndTail
  <2>4. node' \in origin.dag.frontier /\ Range(queue') \subseteq origin.dag.frontier
    BY <1>1, <2>1, <2>3 DEF Stalled
  <2>5. at' = "write"
    BY <1>1, <2>1, <2>4, RefusedAgain
  <2> QED
    BY <1>1, <2>1, <2>4, <2>5 DEF Stalled, TrialStuck
<1>4. CASE HInner
  <2>1. /\ at \in {"write", "place", "unwrite", "read"} /\ Filling
        /\ UNCHANGED <<node, queue, nCycle, origin>>
    BY <1>4 DEF HInner, Inner, Allocate, PlaceNode, GiveBack, ConsumeRead, Filling, ownVars
  <2>2. at = "write" /\ Reg!regs = origin.regs /\ node \in origin.dag.frontier
    BY <1>1, <2>1 DEF Stalled
  <2>3. Allocate
    BY <1>4, <2>2 DEF HInner, Inner, PlaceNode, GiveBack, ConsumeRead
  <2>4. at' = "pick" /\ UNCHANGED regVars /\ free' = free
    BY <1>1, <2>2, <2>3, RefusedAgain DEF Allocate, poolVars
  <2>5. UNCHANGED Reg!regs
    BY <2>4 DEF regVars, Reg!regs
  <2> QED
    BY <1>1, <2>1, <2>2, <2>4, <2>5 DEF Stalled, TrialStuck
<1>5. CASE HCommit
  BY <1>1, <1>5 DEF HCommit, Commit, CommitNode, Stalled, Filling
<1>6. CASE HEndTrial
  <2>1. at = "pick" /\ at' = "judge" /\ UNCHANGED <<free, nCycle>> /\ Filling /\ ~Filling'
    BY <1>6 DEF HEndTrial, EndTrial, AdvanceDag, Goto, searchVars, poolVars, Filling
  <2> QED
    BY <1>1, <2>1 DEF Stalled, TrialStuck
<1>7. CASE Judge \/ UndoPlacements \/ HUndoRegs \/ HUndoDag
  <2>1. at' \in {"undo", "undoRegs", "undoDag", "try"} /\ ~Filling'
    BY <1>7 DEF Judge, UndoPlacements, HUndoRegs, UndoRegs, HUndoDag, UndoDag, Goto, Filling
  <2> QED
    BY <2>1 DEF Stalled
<1> QED
  BY <1>2, <1>3, <1>4, <1>5, <1>6, <1>7

\* A trial pays for nothing, and wins only if some node could have a register.
LEMMA TrialPays ==
  ASSUME RolloutInv, CapOK, RolloutInv', Trying,
         \/ StartTrial \/ Pick \/ HInner \/ HCommit \/ HEndTrial
         \/ Judge \/ UndoPlacements \/ HUndoRegs \/ HUndoDag
  PROVE  CapOK'
<1>1. UNCHANGED <<C, origin>>
  BY DEF StartTrial, RunCycle, Pick, Take, HInner, Inner, Allocate, PlaceNode, GiveBack, ConsumeRead,
    HCommit, Commit, CommitNode, HEndTrial, EndTrial, Judge, UndoPlacements,
    HUndoRegs, UndoRegs, HUndoDag, UndoDag, ownVars, searchVars
<1>2. AllRefused' <=> AllRefused
  BY <1>1, SameOrigin
<1>3. best' # << >> => ~AllRefused'
  <2>1. CASE Judge
    <3>1. at = "judge" /\ (best' = best \/ ~TrialStuck)
      BY <2>1 DEF Judge
    <3> QED
      BY <1>2, <3>1 DEF CapOK, Stalled
  <2>2. CASE ~Judge
    <3>1. best' = best
      BY <2>2 DEF StartTrial, RunCycle, Pick, HInner, Inner, HCommit, Commit, HEndTrial, EndTrial,
        UndoPlacements, HUndoRegs, UndoRegs, HUndoDag, UndoDag, searchVars
    <3> QED
      BY <1>2, <3>1 DEF CapOK
  <2> QED
    BY <2>1, <2>2
<1>4. AllRefused => Stalled'
  BY StaysStalled
<1>5. C' \in Nat /\ C' <= Cardinality(PaidAt(origin'.dag.committed, origin'.progress.lanesDone))
  BY <1>1 DEF CapOK
<1>6. CASE Trying'
  BY <1>2, <1>3, <1>4, <1>5, <1>6 DEF CapOK
<1>7. CASE ~Trying'
  <2>1. at' = "try"
    <3>1. PhaseOK /\ PhaseOK'
      BY DEF RolloutInv
    <3>2. dagRecording /\ ~dagRecording'
      BY <1>7 DEF Trying
    <3>3. HUndoDag
      BY <3>2 DEF StartTrial, RunCycle, StartCycle, Pick, Take, HInner, Inner, Allocate, PlaceNode, GiveBack,
        ConsumeRead, HCommit, Commit, CommitNode, Dag!Commit, HEndTrial, EndTrial, AdvanceDag, Dag!Advance,
        Judge, UndoPlacements, HUndoRegs, UndoRegs, Dag!Rollback, dagVars
    <3>4. at = "undoDag" /\ (UNCHANGED at \/ at' = "try")
      BY <3>3 DEF HUndoDag, UndoDag, Goto
    <3>5. at' # "undoDag"
      BY <1>7, <3>1 DEF PhaseOK, RunnerInv, PlaceOK, InCycle, Filling
    <3> QED
      BY <1>7, <3>4, <3>5
  <2>2. snapshot' = origin'
    BY <1>7, <2>1 DEF RolloutInv, PhaseOK
  <2>3. origin'.dag.committed = committed' /\ origin'.progress.lanesDone = lanesDone'
    BY <2>2 DEF snapshot, Dag!live, Pool!progress
  <2>4. C' <= Cardinality(Paid')
    BY <1>5, <2>3 DEF Paid
  <2>5. ~Filling'
    BY <2>1 DEF Filling
  <2>6. BaselineOK'
    BY <1>5, <2>1, <2>4, <2>5 DEF BaselineOK
  <2> QED
    BY <1>3, <1>7, <2>5, <2>6 DEF CapOK
<1> QED
  BY <1>6, <1>7

\* The search of a cycle starts with no winner, and a trial with the cycles
\* paid for so far.
LEMMA SearchPays ==
  ASSUME RolloutInv, CapOK, RolloutInv', BeginSearch \/ OpenTrial
  PROVE  CapOK'
<1>1. ~Trying /\ BaselineOK /\ at' \in {"try", "reset"} /\ ~Filling'
  BY TrialOrNot DEF RolloutInv, CapOK, BeginSearch, OpenTrial, Goto, Filling
<1>2. UNCHANGED <<committed, lanesDone, C, node>>
  BY DEF BeginSearch, OpenTrial, Dag!Checkpoint, Dag!live, Pool!Checkpoint, dagVars, poolVars, ownVars
<1>3. CASE BeginSearch
  <2>1. best' = << >> /\ dagRecording' = dagRecording
    BY <1>3 DEF BeginSearch, dagVars
  <2>2. BaselineOK'
    BY <1>1, <1>2, <1>3, StillPaid DEF BeginSearch, Goto
  <2> QED
    BY <1>1, <2>1, <2>2 DEF CapOK, Trying
<1>4. CASE OpenTrial
  <2>1. at = "try" /\ dagRecording' = TRUE /\ UNCHANGED <<best, origin>>
    BY <1>4 DEF OpenTrial, Dag!Checkpoint
  <2>2. origin = snapshot
    BY <1>1, <2>1, TrialOrNot DEF RolloutInv
  <2>3. PaidAt(origin.dag.committed, origin.progress.lanesDone) = Paid
    BY <2>2 DEF Paid, snapshot, Dag!live, Pool!progress
  <2>4. (AllRefused' <=> AllRefused) /\ Stalled'
    BY <1>1, <2>1, <1>4, SameOrigin DEF Stalled, OpenTrial, Goto
  <2> QED
    BY <1>1, <1>2, <2>1, <2>3, <2>4 DEF CapOK, BaselineOK, Trying
<1> QED
  BY <1>3, <1>4

\* A replay has emitted something by its end.
LEMMA ReplayEmits ==
  ASSUME RolloutInv, CapOK, EndReplay
  PROVE  Emitted # {}
<1>1. /\ at = "pick" /\ queue = << >> /\ Filling /\ ~Trying
  BY TrialOrNot DEF EndReplay, RolloutInv, Filling
<1>2. RefusedSoFar /\ ~AllRefused
  BY <1>1 DEF CapOK
<1>3. Range(queue) = {}
  BY <1>1 DEF Range
<1> QED
  BY <1>1, <1>2, <1>3 DEF RefusedSoFar, AllRefused

\* While a replay has emitted nothing, each node it offers is refused.
LEMMA ReplayRefused ==
  ASSUME RolloutInv, CapOK, ~Trying, Filling, Pick \/ HInner \/ HCommit
  PROVE  RefusedSoFar'
<1>1. /\ RunnerInv /\ RefusedSoFar /\ UNCHANGED origin
  BY TrialOrNot DEF RolloutInv, CapOK, Pick, HInner, Inner, HCommit, Commit
<1>2. \A n : RefusedThen(n)' <=> RefusedThen(n)
  BY <1>1, SameOrigin
<1> HIDE DEF RefusedThen
<1>3. CASE Pick
  <2>1. /\ at = "pick" /\ queue # << >> /\ node' = Head(queue) /\ queue' = Tail(queue)
        /\ at' \in {"place", "write"} /\ UNCHANGED <<Emitted, Reg!regs>>
    BY <1>3 DEF Pick, Take, Goto, poolVars, regVars, Emitted, Reg!regs
  <2>2. Range(queue) = {Head(queue)} \cup Range(Tail(queue))
    <3>1. queue \in Seq(frontier)
      BY DEF RolloutInv, OrderOK
    <3> QED
      BY <2>1, <3>1, HeadAndTail
  <2>3. CASE Kind[node'] = "debug"
    BY <1>3, <2>3 DEF Pick, Take, Goto, RefusedSoFar
  <2>4. CASE Kind[node'] # "debug"
    <3>1. at' = "write"
      BY <1>3, <2>4 DEF Pick, Take, Goto
    <3> QED
      BY <1>1, <1>2, <2>1, <2>2, <3>1 DEF RefusedSoFar
  <2> QED
    BY <2>3, <2>4
<1>4. CASE HInner /\ Allocate
  <2>1. /\ at = "write" /\ UNCHANGED <<node, queue, Emitted>>
    BY <1>4 DEF HInner, Inner, Allocate, poolVars, ownVars, Emitted
  <2>2. CASE at' = "place"
    BY <2>2 DEF RefusedSoFar
  <2>3. CASE at' = "pick" /\ UNCHANGED regVars /\ \E t \in Dest(node) : ~Reg!CanWrite(Reg!regs, t)
    <3>1. UNCHANGED Reg!regs
      BY <2>3 DEF regVars, Reg!regs
    <3>2. Reg!regs = origin.regs => RefusedThen(node)
      BY <2>3 DEF RefusedThen
    <3> QED
      BY <1>1, <1>2, <2>1, <2>3, <3>1, <3>2 DEF RefusedSoFar
  <2> QED
    BY <1>4, <2>2, <2>3 DEF Allocate, Goto
<1>5. CASE HInner /\ ~Allocate
  <2>1. PlaceNode \/ GiveBack \/ ConsumeRead
    BY <1>5 DEF HInner, Inner
  <2>2. Emitted' # {}
    <3>1. CASE PlaceNode
      BY <1>1, <3>1, PlaceStep
    <3>2. CASE GiveBack \/ ConsumeRead
      BY <1>1, <3>2, GiveBackStep, ConsumeStep DEF RunnerInv, RefusalOK, GiveBack, ConsumeRead
    <3> QED
      BY <2>1, <3>1, <3>2
  <2> QED
    BY <2>2 DEF RefusedSoFar
<1>6. CASE HCommit
  <2>1. CommitNode /\ at = "read"
    BY <1>6 DEF HCommit, Commit, CommitNode
  <2>2. Emitted' # {}
    BY <1>1, <2>1, CommitStep DEF RunnerInv, RefusalOK
  <2> QED
    BY <2>2 DEF RefusedSoFar
<1> QED
  BY <1>3, <1>4, <1>5, <1>6

\* The replay pays for the cycle it emits.
LEMMA ReplayPays ==
  ASSUME SequentialCap, RolloutInv, CapOK, RolloutInv', ~Trying,
         Replay \/ Pick \/ HInner \/ HCommit \/ EndReplay
  PROVE  CapOK'
<1>1. RunnerInv /\ BaselineOK /\ UNCHANGED <<best, origin>>
  BY TrialOrNot DEF RolloutInv, CapOK, Replay, RunCycle, Pick, HInner, Inner, HCommit, Commit, EndReplay, searchVars
<1>2. ~Trying'
  <2>1. UNCHANGED dagRecording
    BY DEF Replay, RunCycle, StartCycle, Pick, Take, HInner, Inner, Allocate, PlaceNode, GiveBack,
      ConsumeRead, HCommit, Commit, CommitNode, Dag!Commit, EndReplay, dagVars
  <2> QED
    BY <2>1 DEF Trying
<1>3. RunnerInv' /\ (AllRefused' <=> AllRefused) /\ \A n : RefusedThen(n)' <=> RefusedThen(n)
  BY <1>1, <1>2, SameOrigin DEF RolloutInv, PhaseOK
<1>4. CASE Replay
  <2>1. /\ at = "try" /\ at' = "pick" /\ best # << >> /\ queue' = best /\ StartCycle(FALSE)
        /\ UNCHANGED <<committed, regVars, C, dagVars, ownVars>>
    BY <1>4 DEF Replay, RunCycle, StartCycle, Goto, dagVars, ownVars
  <2>2. Emitted' = {} /\ lanesDone' = lanesDone
    <3>1. PoolIdle
      BY <1>1 DEF RunnerInv, PartsOK
    <3> QED
      BY <2>1, <3>1, StartEffect DEF StartCycle
  <2>3. BaselineOK'
    BY <1>1, <2>1, <2>2, StillPaid
  <2>4. origin = snapshot
    BY <2>1, TrialOrNot DEF RolloutInv
  <2>5. Reg!regs' = origin'.regs
    BY <1>1, <2>1, <2>4 DEF snapshot, regVars, Reg!regs
  <2>6. \A n \in origin'.dag.frontier : n \in Range(queue')
    <3>1. RegP!ListOf(best, origin.dag.frontier)
      BY <2>1 DEF RolloutInv, OrderOK
    <3> QED
      BY <1>1, <2>1, <3>1 DEF RegP!ListOf, Range
  <2>7. RefusedSoFar'
    BY <2>5, <2>6 DEF RefusedSoFar
  <2> QED
    BY <1>1, <1>2, <1>3, <2>1, <2>3, <2>7 DEF CapOK
<1>5. CASE Pick \/ HInner \/ HCommit
  <2>1. Filling
    BY <1>5 DEF Pick, Take, HInner, Inner, Allocate, PlaceNode, GiveBack, ConsumeRead,
      HCommit, Commit, CommitNode, Filling
  <2>2. RefusedSoFar' /\ best # << >>
    BY <1>5, <2>1, ReplayRefused DEF CapOK
  <2>3. BaselineOK'
    BY <1>1, <1>3, <1>5, TakePays, InnerPays, CommitPays DEF Pick, HInner, Inner, HCommit, Commit
  <2> QED
    BY <1>1, <1>2, <1>3, <2>2, <2>3 DEF CapOK
<1>6. CASE EndReplay
  <2>1. at = "pick" /\ at' = "advance" /\ Filling /\ ~Filling' /\ UNCHANGED <<committed, lanesDone, C>>
    BY <1>6 DEF EndReplay, Goto, dagVars, poolVars, ownVars, Filling
  <2>2. C < Cardinality(Paid)
    BY <1>1, <1>6, <2>1, ReplayEmits DEF BaselineOK
  <2>3. BaselineOK'
    BY <1>1, <2>1, <2>2, StillPaid
  <2> QED
    BY <1>1, <1>2, <1>3, <2>1, <2>3 DEF CapOK
<1> QED
  BY <1>4, <1>5, <1>6

\* The end of the cycle, and of the loop.
LEMMA EndPays ==
  ASSUME SequentialCap, RolloutInv, CapOK, RolloutInv', Advance \/ Collect \/ Fail \/ Return
  PROVE  CapOK'
<1>1. ~Trying /\ RunnerInv /\ BaselineOK /\ ~Filling' /\ UNCHANGED <<best, origin>>
  <2>1. /\ at \in {"advance", "collect", "top", "try"} /\ ~Filling' /\ UNCHANGED <<best, origin>>
    BY DEF Advance, Collect, CountCycle, Fail, Failure, Raise, Return, Finish, Goto, searchVars, Filling
  <2> QED
    BY <2>1, TrialOrNot DEF RolloutInv, CapOK
<1>2. at' # "undoDag" /\ at' \notin {"reset", "judge", "undo", "undoRegs"}
  BY DEF Advance, Collect, CountCycle, Fail, Failure, Raise, Return, Finish, Goto
<1>3. ~Trying'
  BY <1>1, <1>2 DEF RolloutInv, PhaseOK, TrialPlace
<1>4. AllRefused' <=> AllRefused
  BY <1>1, SameOrigin
<1>5. BaselineOK'
  <2>1. CASE Advance
    <3>1. at = "advance" /\ at' = "collect" /\ UNCHANGED <<lanesDone, C>>
      BY <2>1 DEF Advance, AdvanceDag, Goto, poolVars
    <3>2. committed' = committed
      BY <1>1, <2>1, AdvanceStep DEF Advance, Goto
    <3> QED
      BY <1>1, <3>1, <3>2, StillPaid DEF BaselineOK
  <2>2. CASE Collect
    BY <1>1, <2>2, CountedCyclePays DEF Collect
  <2>3. CASE Fail \/ Return
    <3>1. at' \in {"starved", "stuck", "done"} /\ UNCHANGED <<committed, lanesDone, C>>
      BY <2>3 DEF Fail, Failure, Raise, Return, Finish, Goto, dagVars, poolVars, ownVars
    <3> QED
      BY <1>1, <3>1, StillPaid
  <2> QED
    BY <2>1, <2>2, <2>3
<1> QED
  BY <1>1, <1>3, <1>4, <1>5 DEF CapOK

\* Whatever orders are tried and whichever wins, schedule_rollout() does not
\* exceed a cap with room for a cycle per node and a cycle per lane of each
\* gather: "cycle count exceeded cap" and "frontier empty" are never raised.
THEOREM RolloutWithinBaseline ==
  ASSUME SequentialCap
  PROVE  HSpec => []WithinBaseline
<1>1. HInit => CapOK
  <2> SUFFICES ASSUME HInit PROVE CapOK
    OBVIOUS
  <2>1. RunnerInit /\ best = << >> /\ at = "top" /\ ~dagRecording
    BY DEF HInit, Init, RunnerInit, Dag!Init, Dag!Fresh
  <2> QED
    BY <2>1, NothingOwed DEF CapOK, Trying, Filling
<1>2. RolloutInv /\ RolloutInv' /\ CapOK /\ [HNext]_hvars => CapOK'
  <2> SUFFICES ASSUME RolloutInv, RolloutInv', CapOK, [HNext]_hvars PROVE CapOK'
    OBVIOUS
  <2>1. CASE \/ StartTrial \/ HEndTrial \/ Judge \/ UndoPlacements \/ HUndoRegs \/ HUndoDag
    <3>1. Trying
      <4>1. at \in {"reset", "judge", "undo", "undoRegs", "undoDag"} \/ (at = "pick" /\ dry)
        BY <2>1 DEF StartTrial, HEndTrial, EndTrial, Judge, UndoPlacements, HUndoRegs, UndoRegs, HUndoDag, UndoDag
      <4> QED
        BY <4>1, TrialOrNot DEF RolloutInv, Filling
    <3> QED
      BY <2>1, <3>1, TrialPays
  <2>2. CASE Pick \/ HInner \/ HCommit
    BY <2>2, TrialPays, ReplayPays
  <2>3. CASE Replay \/ EndReplay
    <3>1. ~Trying
      BY <2>3, TrialOrNot DEF RolloutInv, Replay, EndReplay, Filling
    <3> QED
      BY <2>3, <3>1, ReplayPays
  <2>4. CASE BeginSearch \/ OpenTrial
    BY <2>4, SearchPays
  <2>5. CASE Advance \/ Collect \/ Fail \/ Return
    BY <2>5, EndPays
  <2>6. CASE UNCHANGED hvars
    <3>1. UNCHANGED <<at, node, dagVars, regVars, poolVars, C, best, origin, queue, nCycle>>
      BY <2>6 DEF hvars, vars, ownVars, searchVars
    <3>2. UNCHANGED <<committed, lanesDone, Emitted, Reg!regs, free, dagRecording>>
      BY <3>1 DEF dagVars, poolVars, regVars, Emitted, Reg!regs
    <3>a. (Filling' <=> Filling) /\ (Trying' <=> Trying) /\ (TrialStuck' <=> TrialStuck)
      BY <3>1, <3>2 DEF Filling, Trying, TrialStuck
    <3>3. (AllRefused' <=> AllRefused) /\ \A n : RefusedThen(n)' <=> RefusedThen(n)
      BY <3>1, SameOrigin
    <3>4. BaselineOK => BaselineOK'
      BY <3>1, <3>2, <3>a, <3>3, StillPaid DEF BaselineOK
    <3>5. (Stalled => Stalled') /\ (RefusedSoFar => RefusedSoFar')
      BY <3>1, <3>2, <3>a, <3>3 DEF Stalled, RefusedSoFar
    <3> QED
      BY <3>1, <3>a, <3>3, <3>4, <3>5 DEF CapOK
  <2> QED
    BY <2>1, <2>2, <2>3, <2>4, <2>5, <2>6 DEF HNext, Stay, hvars
<1>3. RolloutInv /\ CapOK => WithinBaseline
  <2> SUFFICES ASSUME RolloutInv, CapOK PROVE at \notin {"starved", "capped"}
    BY DEF WithinBaseline
  <2>1. at = "capped" => ~Trying
    BY TrialOrNot DEF RolloutInv
  <2> QED
    BY <2>1 DEF RolloutInv, EndOK, CapOK, BaselineOK
<1> QED
  BY <1>1, <1>2, <1>3, RolloutInvariant, PTL DEF HSpec
=============================================================================
