---------------------------- MODULE CycleRunner ----------------------------
(***************************************************************************)
(* One cycle of list scheduling, the part schedule() and _run_cycle()      *)
(* share: take a node, give its result a register, place it on the units,  *)
(* give the register back if no lane landed, and when every lane has       *)
(* landed consume its reads and commit it.  The dependency graph, the      *)
(* register allocator and the functional units are the modules DepDag,     *)
(* RegAlloc and FuncUnitPool; each step below is one call of theirs.       *)
(*                                                                         *)
(* What an emitted bundle does to scratch memory is Machine.step: every    *)
(* slot reads what scratch held before the cycle, and all writes land at   *)
(* its end.                                                                *)
(***************************************************************************)
EXTENDS TaggedProgram

CONSTANTS SCRATCH,   \* words of scratch
          Capacity,  \* engine -> slots in a cycle
          Cap        \* cycles after which the scheduler gives up

VARIABLES graph, raw, war, pending, committed, frontier, dagRecording, dagLog, dagTarget
VARIABLES readCount, freeVec, freeWords, freeCount, claimOf, assigned, remaining,
          regRecording, regLog, regTarget, latest
VARIABLES free, bundle, valuElems, offered, dry, lanesDone, choice, poolRecording,
          poolLog, tokens
VARIABLES
  at,         \* where the scheduler is in its code
  node,       \* the node it is placing
  todo,       \* operands of that node whose reads are still to be consumed
  nCommitted, \* the loop's count of committed nodes
  C,          \* cycles emitted
  scratch,    \* word -> the lane of a tag it holds, or Blank
  resolved    \* nodes placed this cycle -> address of each of its tags

dagVars == <<graph, raw, war, pending, committed, frontier, dagRecording, dagLog, dagTarget>>
regVars == <<readCount, freeVec, freeWords, freeCount, claimOf, assigned, remaining,
             regRecording, regLog, regTarget, latest>>
poolVars == <<free, bundle, valuElems, offered, dry, lanesDone, choice, poolRecording,
              poolLog, tokens>>
ownVars == <<node, todo, nCommitted, C>>
machineVars == <<scratch, resolved>>

\* Bound: mutations of the allocator in a cycle.  No cycle makes more, for it
\* gives a register to a node once at most, takes it back once at most, and
\* consumes each operand once.
LogRoom == 2 * Len(Program) + Cardinality(Operands)

Dag == INSTANCE DepDag WITH Graphs <- {Graph}, recording <- dagRecording,
                            log <- dagLog, target <- dagTarget
Reg == INSTANCE RegAlloc WITH ReadCounts <- {ReadCount}, MaxLog <- LogRoom,
                              recording <- regRecording, log <- regLog, target <- regTarget
Pool == INSTANCE FuncUnitPool WITH MaxTokens <- 1, recording <- poolRecording, log <- poolLog

ASSUME SizesAssumption == /\ SCRATCH \in Nat \ {0} /\ SCRATCH % VLEN = 0
                          /\ Capacity \in [Pool!Engine -> Nat \ {0}]
                          /\ Kind \in [Node -> Pool!Kinds]

Nobody == 0
Blank == [tag |-> "none", lane |-> 0]

RunnerInit == /\ Dag!Init /\ Reg!Init /\ Pool!Init
              /\ at = "top"
              /\ node = Nobody
              /\ todo = <<>>
              /\ nCommitted = 0
              /\ C = 0
              /\ scratch = [w \in 0 .. SCRATCH - 1 |-> Blank]
              /\ resolved = <<>>

Goto(place) == at' = place

-----------------------------------------------------------------------------
\* Take a node of the cycle's working set; a debug node needs no register.
Take(n) ==
  /\ at = "pick"
  /\ node' = n
  /\ Goto(IF Kind[n] = "debug" THEN "place" ELSE "write")
  /\ UNCHANGED <<dagVars, regVars, poolVars, todo, nCommitted, C, machineVars>>

\* can_write() and write() of the tag the node writes; a register it holds
\* already is kept.  With no register, the node is left for the next cycle.
Allocate ==
  /\ at = "write"
  /\ \/ /\ \A t \in Dest(node) : t \in DOMAIN assigned
        /\ Goto("place")
        /\ UNCHANGED regVars
     \/ /\ \E t \in Dest(node) : Reg!Write(t)
        /\ Goto("place")
     \/ /\ \E t \in Dest(node) : ~Reg!CanWrite(Reg!regs, t)
        /\ Goto("pick")
        /\ UNCHANGED regVars
  /\ UNCHANGED <<dagVars, poolVars, ownVars, machineVars>>

\* _resolve_operands: the registers of the node's operands at this moment.
\* addr_of() takes a tag without a register for the pinned granule.
Addresses(n) == [t \in Dest(n) \cup TagsRead(n) |->
                   IF t \in DOMAIN assigned THEN assigned[t] ELSE 0]

\* Mutant: a node is complete when its first lane lands.
AfterFirstLane(n, lanes) ==
  IF lanes > 0 \/ Kind[n] = "debug" THEN "read"
  ELSE IF Kind[n] # "gather" /\ Dest(n) # {} THEN "unwrite"
  ELSE "pick"

\* Where the scheduler goes when place() has left a node with so many lanes
\* landed: complete, refused with nothing landed, or partly placed.  A gather
\* that finds no load slot keeps its register.
AfterPlace(n, lanes) ==
  IF lanes = Pool!LanesTotal(n) THEN "read"
  ELSE IF lanes = 0 /\ Kind[n] # "gather" /\ Dest(n) # {} THEN "unwrite"
  ELSE "pick"

PlaceNode ==
  /\ at = "place"
  /\ Pool!Place(node)
  /\ Goto(AfterPlace(node, lanesDone'[node]))
  /\ todo' = Reads(node)
  /\ resolved' = [n \in DOMAIN resolved \cup {node} |->
                    IF n = node THEN Addresses(node) ELSE resolved[n]]
  /\ UNCHANGED <<dagVars, regVars, node, nCommitted, C, scratch>>

\* Nothing landed: unwrite() the register.
GiveBack ==
  /\ at = "unwrite"
  /\ \E t \in Dest(node) : Reg!Unwrite(t)
  /\ Goto("pick")
  /\ UNCHANGED <<dagVars, poolVars, ownVars, machineVars>>

\* Every lane has landed: read() each operand that has a register.
ConsumeRead ==
  /\ at = "read"
  /\ todo # <<>>
  /\ LET t == Head(todo).tag
     IN  IF t \in DOMAIN assigned THEN Reg!Read(t) ELSE UNCHANGED regVars
  /\ todo' = Tail(todo)
  /\ UNCHANGED <<dagVars, poolVars, at, node, nCommitted, C, machineVars>>

\* commit() the node.
CommitNode ==
  /\ at = "read"
  /\ todo = <<>>
  /\ Dag!Commit(node)
  /\ Goto("pick")
  /\ UNCHANGED <<regVars, poolVars, node, todo, C, machineVars>>

\* advance() at the end of the cycle.
AdvanceDag ==
  /\ IF \E d \in Node : pending[d] > 0 THEN Dag!Advance ELSE UNCHANGED dagVars
  /\ UNCHANGED <<regVars, poolVars, resolved>>

\* collect_scalar_garbage() at the end of an emitted cycle.
CollectGarbage ==
  /\ IF Reg!Reclaimable # {} THEN Reg!Collect ELSE UNCHANGED regVars
  /\ UNCHANGED <<dagVars, poolVars>>

\* reset() the units for a cycle that emits, or for a trial.
StartCycle(d) == /\ Pool!NewCycle(d)
                 /\ resolved' = <<>>
                 /\ UNCHANGED <<dagVars, regVars, scratch>>

-----------------------------------------------------------------------------
Emitted == UNION { Range(bundle[e]) : e \in DOMAIN bundle }
LanesRun(slot) == IF slot.lane = All THEN LanesOf(slot.node) ELSE {slot.lane}
EmittedRuns == UNION { {slot.node} \X LanesRun(slot) : slot \in Emitted }

WordOf(n, v) == resolved[n][v.tag] + v.lane

\* Machine.step: the words written by the bundle change together.
Execute ==
  scratch' = [w \in DOMAIN scratch |->
    LET writes == { v \in UNION { { [node |-> r[1], value |-> x] : x \in LanesWritten(r[1], r[2]) }
                                  : r \in EmittedRuns } : WordOf(v.node, v.value) = w }
    IN  IF writes = {} THEN scratch[w] ELSE (CHOOSE v \in writes : TRUE).value]

\* The cycle count, and the cap on it.
CountCycle == /\ C' = C + 1
              /\ Goto(IF C + 1 > Cap THEN "capped" ELSE "top")

\* The loop ends when every node is committed.
Finish == /\ at = "top"
          /\ nCommitted = Len(Program)
          /\ Goto("done")
          /\ UNCHANGED <<dagVars, regVars, poolVars, ownVars, machineVars>>

Raise(cause) == /\ Goto(cause)
                /\ UNCHANGED <<dagVars, regVars, poolVars, ownVars, machineVars>>

Stopped == at \in {"done", "starved", "stuck", "capped"}
=============================================================================
