----------------------------- MODULE IssueOrder -----------------------------
(***************************************************************************)
(* What a dependency graph promises its scheduler, without counters: a     *)
(* node is issued once everything it reads is visible and everything it    *)
(* overwrites has been read; a result becomes visible in the next cycle;   *)
(* and while a trial is open the way back is kept, step by step.           *)
(***************************************************************************)
EXTENDS Integers, Sequences

CONSTANTS Node, Graphs

VARIABLES
  graph,     \* edges: graph.raw and graph.war, sets of pairs
  done,      \* nodes issued
  inFlight,  \* issued nodes whose result a reader will see next cycle
  trying,    \* a trial is open
  trail      \* the states the open trial can step back through

orderVars == <<graph, done, inFlight, trying, trail>>

point == [done |-> done, inFlight |-> inFlight]

Ready(i) == /\ i \notin done
            /\ \A s \in Node : <<s, i>> \in graph.raw => s \in done \ inFlight
            /\ \A s \in Node : <<s, i>> \in graph.war => s \in done

HasReader(i) == \E d \in Node : <<i, d>> \in graph.raw

Leave == trail' = IF trying THEN Append(trail, point) ELSE trail

Init == /\ graph \in Graphs
        /\ done = {}
        /\ inFlight = {}
        /\ trying = FALSE
        /\ trail = <<>>

Issue(i) == /\ Ready(i)
            /\ done' = done \cup {i}
            /\ inFlight' = IF HasReader(i) THEN inFlight \cup {i} ELSE inFlight
            /\ Leave
            /\ UNCHANGED <<graph, trying>>

NextCycle == /\ inFlight # {}
             /\ inFlight' = {}
             /\ Leave
             /\ UNCHANGED <<graph, done, trying>>

Open == /\ trying' = TRUE
        /\ UNCHANGED <<graph, done, inFlight, trail>>

StepBack == /\ trail # <<>>
            /\ done' = trail[Len(trail)].done
            /\ inFlight' = trail[Len(trail)].inFlight
            /\ trail' = SubSeq(trail, 1, Len(trail) - 1)
            /\ UNCHANGED <<graph, trying>>

Close == /\ trail = <<>>
         /\ trying' = FALSE
         /\ UNCHANGED <<graph, done, inFlight, trail>>

Restart == /\ ~trying
           /\ done' = {}
           /\ inFlight' = {}
           /\ UNCHANGED <<graph, trying, trail>>

Next == \/ \E i \in Node : Issue(i)
        \/ NextCycle
        \/ Open
        \/ StepBack
        \/ Close
        \/ Restart

Spec == Init /\ [][Next]_orderVars
=============================================================================
