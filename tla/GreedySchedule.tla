--------------------------- MODULE GreedySchedule ---------------------------
(***************************************************************************)
(* regalloc.schedule: a cycle offers every ready node to the units once,   *)
(* in the order of a priority.  Any order is allowed here, for the keys    *)
(* depend on weights and on the random generator; so every property holds  *)
(* whatever picker is given.                                               *)
(***************************************************************************)
EXTENDS CycleRunner

VARIABLE working   \* ready nodes still to be offered this cycle

vars == <<dagVars, regVars, poolVars, at, ownVars, machineVars, working>>

Init == RunnerInit /\ working = {}

BeginCycle == /\ at = "top"
              /\ nCommitted < Len(Program)
              /\ frontier # {}
              /\ StartCycle(FALSE)
              /\ working' = frontier
              /\ Goto("pick")
              /\ UNCHANGED ownVars

Pick == \E n \in working : Take(n) /\ working' = working \ {n}

\* commit() returns the nodes it released; they join the working set.
Commit == /\ CommitNode
          /\ nCommitted' = nCommitted + 1
          /\ working' = working \cup (frontier' \ frontier)

Inner == /\ Allocate \/ PlaceNode \/ GiveBack \/ ConsumeRead
         /\ UNCHANGED working

\* Two errors: "frontier empty ... cyclic DAG or counter bug" before a cycle,
\* "empty cycle ... stuck" after one.
Failure == CASE at = "top" /\ nCommitted < Len(Program) /\ frontier = {} -> "starved"
             [] /\ at = "pick" /\ working = {} /\ Emitted = {}
                /\ nCommitted < Len(Program)                           -> "stuck"
             [] OTHER                                                    -> "none"

Fail == Failure # "none" /\ Raise(Failure) /\ UNCHANGED working

EmitBundle == /\ at = "pick"
              /\ working = {}
              /\ Failure = "none"
              /\ Execute
              /\ Goto("advance")
              /\ UNCHANGED <<dagVars, regVars, poolVars, ownVars, resolved, working>>

Advance == /\ at = "advance"
           /\ AdvanceDag
           /\ Goto("collect")
           /\ UNCHANGED <<ownVars, scratch, working>>

Collect == /\ at = "collect"
           /\ CollectGarbage
           /\ CountCycle
           /\ UNCHANGED <<node, todo, nCommitted, machineVars, working>>

Return == Finish /\ UNCHANGED working
Stay == Stopped /\ UNCHANGED vars

Next == \/ BeginCycle \/ Pick \/ Inner \/ Commit \/ EmitBundle \/ Advance \/ Collect
        \/ Fail \/ Return \/ Stay

\* The scheduler is one loop: while it can take a step it does.
Spec == Init /\ [][Next]_vars /\ WF_vars(Next)
=============================================================================
