-------------------------- MODULE RolloutSchedule --------------------------
(***************************************************************************)
(* rollout.schedule_rollout: a cycle is tried out with several orders of   *)
(* the ready nodes, each under a checkpoint that is rolled back, and the   *)
(* order with the best score is replayed, emitting.                        *)
(*                                                                         *)
(* Sort functions and scores are weights and shuffles: any order may be    *)
(* tried, and any trial that placed something may win.  The logs are       *)
(* closed between trials, so every token is 0.                             *)
(***************************************************************************)
EXTENDS CycleRunner

CONSTANT Trials   \* orders tried in a cycle

\* The default set holds the greedy order.
ASSUME TrialsAssumption == Trials \in Nat \ {0}

VARIABLES
  queue,     \* nodes left of the order this cycle runs
  order,     \* the order being tried
  tried,     \* trials done this cycle
  best,      \* best order so far, or empty
  nCycle,    \* nodes this run of the cycle committed
  regDelta,  \* registers it allocated minus registers it freed
  origin,    \* history: the state before the trials of this cycle
  outcome    \* history: the state the best trial reached

searchVars == <<queue, order, tried, best, nCycle, regDelta, origin, outcome>>
vars == <<dagVars, regVars, poolVars, at, ownVars, machineVars, searchVars>>

snapshot == [dag |-> Dag!live, regs |-> Reg!regs, progress |-> Pool!progress]

Init == /\ RunnerInit
        /\ queue = <<>> /\ order = <<>> /\ tried = 0 /\ best = <<>>
        /\ nCycle = 0 /\ regDelta = 0
        /\ origin = snapshot /\ outcome = snapshot

BeginSearch == /\ at = "top"
               /\ nCommitted < Len(Program)
               /\ frontier # {}
               /\ Goto("try")
               /\ tried' = 0
               /\ best' = <<>>
               /\ origin' = snapshot
               /\ UNCHANGED <<dagVars, regVars, poolVars, ownVars, machineVars,
                              queue, order, nCycle, regDelta, outcome>>

OpenTrial == /\ at = "try"
             /\ tried < Trials
             /\ order' \in SetToSeqs(frontier)
             /\ Dag!Checkpoint /\ Reg!Checkpoint /\ Pool!Checkpoint
             /\ Goto("reset")
             /\ UNCHANGED <<ownVars, machineVars, queue, tried, best, nCycle, regDelta,
                            origin, outcome>>

\* _run_cycle from the top, in an order, tried out or emitting.
RunCycle(d, o) == /\ StartCycle(d)
                  /\ Goto("pick")
                  /\ queue' = o
                  /\ nCycle' = 0
                  /\ regDelta' = 0
                  /\ UNCHANGED <<ownVars, order, tried, best, origin, outcome>>

StartTrial == at = "reset" /\ RunCycle(TRUE, order)

Pick == /\ queue # <<>>
        /\ Take(Head(queue))
        /\ queue' = Tail(queue)
        /\ UNCHANGED <<order, tried, best, nCycle, regDelta, origin, outcome>>

\* write() and read() count what they allocate and free; unwrite() does not.
Inner == /\ Allocate \/ PlaceNode \/ GiveBack \/ ConsumeRead
         /\ regDelta' = IF at = "unwrite" THEN regDelta
                        ELSE regDelta + Cardinality(DOMAIN assigned')
                                      - Cardinality(DOMAIN assigned)
         /\ UNCHANGED <<queue, order, tried, best, nCycle, origin, outcome>>

Commit == /\ CommitNode
          /\ nCycle' = nCycle + 1
          /\ UNCHANGED <<nCommitted, queue, order, tried, best, regDelta, origin, outcome>>

EndTrial == /\ at = "pick" /\ queue = <<>> /\ dry
            /\ AdvanceDag
            /\ Goto("judge")
            /\ UNCHANGED <<ownVars, scratch, searchVars>>

\* Mutants: a cycle that only lands some lanes counts as stuck; none ever does.
TrialStuckNoCommit == nCycle = 0
TrialNeverStuck == FALSE

\* A trial that used no slot and committed nothing scores minus infinity.
TrialStuck == free = Capacity /\ nCycle = 0

Judge == /\ at = "judge"
         /\ \/ /\ ~TrialStuck
               /\ best' = order /\ outcome' = snapshot
            \/ /\ TrialStuck \/ best # <<>>
               /\ UNCHANGED <<best, outcome>>
         /\ Goto("undo")
         /\ UNCHANGED <<dagVars, regVars, poolVars, ownVars, machineVars, queue, order,
                        tried, nCycle, regDelta, origin>>

\* The placements, the allocator and the graph are rolled back in turn.
UndoPlacements == /\ at = "undo"
                  /\ Pool!Rollback(0)
                  /\ Reg!Rollback(0)
                  /\ Goto("undoRegs")
                  /\ UNCHANGED <<dagVars, ownVars, machineVars, searchVars>>

UndoRegs == /\ at = "undoRegs"
            /\ \/ Reg!PopEntry /\ UNCHANGED <<at, dagVars>>
               \/ Reg!RollbackDone /\ Dag!Rollback(0) /\ Goto("undoDag")
            /\ UNCHANGED <<poolVars, ownVars, machineVars, searchVars>>

UndoDag == /\ at = "undoDag"
           /\ \/ Dag!PopEntry /\ UNCHANGED <<at, tried>>
              \/ Dag!RollbackDone /\ Goto("try") /\ tried' = tried + 1
           /\ UNCHANGED <<regVars, poolVars, ownVars, machineVars, queue, order, best,
                          nCycle, regDelta, origin, outcome>>

Replay == /\ at = "try" /\ tried = Trials /\ best # <<>>
          /\ RunCycle(FALSE, best)

EndReplay == /\ at = "pick" /\ queue = <<>> /\ ~dry
             /\ Execute
             /\ Goto("advance")
             /\ UNCHANGED <<dagVars, regVars, poolVars, ownVars, resolved, searchVars>>

Advance == /\ at = "advance"
           /\ AdvanceDag
           /\ nCommitted' = nCommitted + nCycle
           /\ Goto("collect")
           /\ UNCHANGED <<node, todo, C, scratch, searchVars>>

Collect == /\ at = "collect"
           /\ CollectGarbage
           /\ CountCycle
           /\ UNCHANGED <<node, todo, nCommitted, machineVars, searchVars>>

\* Two errors: "frontier empty ..." before a cycle, "deadlock" when every
\* trial was stuck.
Failure == CASE at = "top" /\ nCommitted < Len(Program) /\ frontier = {} -> "starved"
             [] at = "try" /\ tried = Trials /\ best = <<>>              -> "stuck"
             [] OTHER                                                    -> "none"

Fail == Failure # "none" /\ Raise(Failure) /\ UNCHANGED searchVars
Return == Finish /\ UNCHANGED searchVars
Stay == Stopped /\ UNCHANGED vars

Next == \/ BeginSearch \/ OpenTrial \/ StartTrial \/ Pick \/ Inner \/ Commit \/ EndTrial
        \/ Judge \/ UndoPlacements \/ UndoRegs \/ UndoDag \/ Replay \/ EndReplay
        \/ Advance \/ Collect \/ Fail \/ Return \/ Stay

Spec == Init /\ [][Next]_vars /\ WF_vars(Next)
=============================================================================
