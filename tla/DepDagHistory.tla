---------------------------- MODULE DepDagHistory ----------------------------
(***************************************************************************)
(* DepDag with two history variables, its properties, and the refinement   *)
(* of IssueOrder.  History variables only watch: every action below is the *)
(* action of DepDag with the same name, and a note of what it did.         *)
(***************************************************************************)
EXTENDS DepDag

VARIABLES
  inFlight,  \* nodes committed this cycle that some node waits for by RAW
  past       \* the state before each mutation in the log, oldest first

vars == <<graph, raw, war, pending, committed, frontier, recording, log, target,
          inFlight, past>>

HasReader(g, i) == RawOut(g, i) # {}

now == [dag |-> live, inFlight |-> inFlight]

Note == past' = IF recording THEN Append(past, now) ELSE past

HInit == /\ Init
         /\ inFlight = {}
         /\ past = <<>>

HCommit(i) == /\ Commit(i)
              /\ inFlight' = IF HasReader(graph, i) THEN inFlight \cup {i} ELSE inFlight
              /\ Note

HAdvance == /\ Advance
            /\ inFlight' = {}
            /\ Note

HCheckpoint == Checkpoint /\ UNCHANGED <<inFlight, past>>

HRollback(token) == Rollback(token) /\ UNCHANGED <<inFlight, past>>

HPopEntry == /\ PopEntry
             /\ inFlight' = past[Len(past)].inFlight
             /\ past' = SubSeq(past, 1, Len(past) - 1)

HRollbackDone == RollbackDone /\ UNCHANGED <<inFlight, past>>

HReset == Reset /\ inFlight' = {} /\ UNCHANGED past

HNext == \/ \E i \in Node : HCommit(i)
         \/ HAdvance
         \/ HCheckpoint
         \/ \E token \in 0 .. Len(log) : HRollback(token)
         \/ HPopEntry
         \/ HRollbackDone
         \/ HReset

HSpec == HInit /\ [][HNext]_vars

-----------------------------------------------------------------------------
State == [raw : [Node -> Nat], war : [Node -> Nat], pending : [Node -> Nat],
          committed : SUBSET Node, frontier : SUBSET Node]

\* Type of every variable: counters never go below zero.
TypeOK ==
  /\ graph \in Graphs
  /\ live \in State
  /\ recording \in BOOLEAN
  /\ log \in Seq(Entry)
  /\ target \in {Idle} \cup 0 .. Len(log)
  /\ inFlight \in SUBSET Node
  /\ past \in Seq([dag : State, inFlight : SUBSET Node])

\* The incremental counters are what a recount over the edges gives: a
\* blocker is unresolved, buffered, or gone, and never counted twice.
CountersOf(g, s, f) ==
  \A d \in Node :
    /\ s.raw[d] = Cardinality({ q \in RawIn(g, d) : q \notin s.committed \ f })
    /\ s.war[d] = Cardinality({ q \in WarIn(g, d) : q \notin s.committed })
    /\ s.pending[d] = Cardinality({ q \in RawIn(g, d) : q \in f })

CountersExact == CountersOf(graph, live, inFlight)

\* ready() returns exactly the nodes that may be placed now: no node whose
\* operands are still in flight, and none left behind by an update.
FrontierOf(g, s, f) ==
  s.frontier = { i \in Node \ s.committed :
                   /\ RawIn(g, i) \subseteq s.committed \ f
                   /\ WarIn(g, i) \subseteq s.committed }

FrontierExact == FrontierOf(graph, live, inFlight)

\* Both schedulers raise "frontier empty with ... uncommitted nodes" ("cyclic
\* DAG or counter bug") when a cycle starts with an empty frontier: it never
\* can while work remains.
NeverStarved ==
  (target = Idle /\ committed # Node /\ \A d \in Node : pending[d] = 0)
    => frontier # {}

\* Undoing the entries of the log one by one leads back through exactly the
\* states the trial came from, whatever was committed or advanced between.
UndoExact ==
  /\ Len(past) = Len(log)
  /\ ~recording => log = <<>>
  /\ \A k \in 1 .. Len(log) :
       Undo(IF k = Len(log) THEN live ELSE past[k + 1].dag, log[k]) = past[k].dag

\* Nothing is placed before what it waits for; only readers are waited for.
ClosedBelow(g, s, f) ==
  /\ f \subseteq s.committed
  /\ \A i \in f : HasReader(g, i)
  /\ \A i \in s.committed : RawIn(g, i) \cup WarIn(g, i) \subseteq s.committed

PointOK(g, p) == /\ CountersOf(g, p.dag, p.inFlight)
                 /\ FrontierOf(g, p.dag, p.inFlight)
                 /\ ClosedBelow(g, p.dag, p.inFlight)

\* The inductive invariant: the live state and every state the open trial can
\* go back to satisfy PointOK, and the log leads from each to the one before.
DagInv == /\ TypeOK
          /\ PointOK(graph, now)
          /\ \A k \in 1 .. Len(past) : PointOK(graph, past[k])
          /\ UndoExact
          /\ target # Idle => recording

\* The graph keeps the promise of IssueOrder.
Order == INSTANCE IssueOrder WITH
  done <- committed,
  trying <- recording,
  trail <- [k \in 1 .. Len(past) |->
              [done |-> past[k].dag.committed, inFlight |-> past[k].inFlight]]

ImplementsIssueOrder == Order!Spec
=============================================================================
