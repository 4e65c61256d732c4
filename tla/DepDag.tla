------------------------------- MODULE DepDag -------------------------------
(***************************************************************************)
(* The dependency graph of scheduler.py: which instructions may be placed  *)
(* this cycle.  A RAW edge (weight 1) releases its consumer in the next    *)
(* cycle, a WAR edge (weight 0) in the same one.  The scheduler commits    *)
(* ready nodes, advances to the next cycle, and may try a cycle out: take  *)
(* a checkpoint, commit and advance, and roll every mutation back.         *)
(*                                                                         *)
(* The code's undo log holds one entry per mutation.  Here one entry       *)
(* gathers the mutations of one commit() or advance(); each field is named *)
(* for the kinds it stands for.  rollback() is its own loop, one action    *)
(* per entry, and nothing else runs until the loop ends.                   *)
(***************************************************************************)
EXTENDS Integers, Sequences, FiniteSets

CONSTANTS Node,     \* indices of the nodes, in program order
          Graphs    \* the graphs checked: records of two sets of edges

ASSUME NodeAssumption == Node \subseteq Nat /\ IsFiniteSet(Node)

\* build_dag adds an edge only from an earlier node to a later one.
Forward == { e \in Node \X Node : e[1] < e[2] }

ASSUME GraphsAssumption ==
  Graphs \subseteq [raw : SUBSET Forward, war : SUBSET Forward]

VARIABLES
  graph,      \* the edges; chosen once, never changed
  raw,        \* unresolved RAW in-edges of each node
  war,        \* unresolved WAR in-edges of each node
  pending,    \* RAW resolutions buffered until the end of the cycle
  committed,  \* nodes already placed
  frontier,   \* nodes ready to be placed
  recording,  \* a checkpoint is open (the code's log is not None)
  log,        \* undo log; empty when nothing is recorded
  target      \* length a running rollback pops the log down to, or Idle

dagVars == <<graph, raw, war, pending, committed, frontier, recording, log, target>>

Idle == -1

RawIn(g, d)  == { s \in Node : <<s, d>> \in g.raw }
WarIn(g, d)  == { s \in Node : <<s, d>> \in g.war }
RawOut(g, s) == { d \in Node : <<s, d>> \in g.raw }
WarOut(g, s) == { d \in Node : <<s, d>> \in g.war }

live == [raw |-> raw, war |-> war, pending |-> pending,
         committed |-> committed, frontier |-> frontier]

Become(s) == /\ raw' = s.raw
             /\ war' = s.war
             /\ pending' = s.pending
             /\ committed' = s.committed
             /\ frontier' = s.frontier

One(d, S) == IF d \in S THEN 1 ELSE 0

-----------------------------------------------------------------------------
\* The counters and the frontier derived from the edges alone.
Fresh(g) ==
  LET r == [d \in Node |-> Cardinality(RawIn(g, d))]
      w == [d \in Node |-> Cardinality(WarIn(g, d))]
  IN  [raw |-> r, war |-> w,
       pending |-> [d \in Node |-> 0],
       committed |-> {},
       frontier |-> { d \in Node : r[d] = 0 /\ w[d] = 0 }]

Init == /\ graph \in Graphs
        /\ raw = Fresh(graph).raw
        /\ war = Fresh(graph).war
        /\ pending = Fresh(graph).pending
        /\ committed = Fresh(graph).committed
        /\ frontier = Fresh(graph).frontier
        /\ recording = FALSE
        /\ log = <<>>
        /\ target = Idle

\* A log entry: every kind of mutation one call made.
Entry == [c     : SUBSET Node,      \* "C"       newly committed
          gone  : SUBSET Node,      \* "F-"      left the frontier
          w     : SUBSET Node,      \* "W"       one WAR blocker fewer
          p     : SUBSET Node,      \* "P"       one buffered resolution more
          moved : [Node -> Nat],    \* "R", "Z"  amount moved out of pending
          woken : SUBSET Node]      \* "F+"      joined the frontier

\* Mutant: a node whose last WAR blocker went is woken with operands in flight.
CommitEntryEager(g, s, i) ==
  LET w == WarOut(g, i) \ (s.committed \cup {i})
  IN  [c |-> {i}, gone |-> {i} \cap s.frontier, w |-> w,
       p |-> RawOut(g, i) \ (s.committed \cup {i}), moved |-> [d \in Node |-> 0],
       woken |-> { d \in w \ s.frontier : s.war[d] = 1 }]

CommitEntry(g, s, i) ==
  LET w == WarOut(g, i) \ (s.committed \cup {i})
  IN  [c |-> {i},
       gone |-> {i} \cap s.frontier,
       w |-> w,
       p |-> RawOut(g, i) \ (s.committed \cup {i}),
       moved |-> [d \in Node |-> 0],
       woken |-> { d \in w \ s.frontier : s.raw[d] = 0 /\ s.war[d] = 1 }]

\* Mutant: advance() resolves operands and wakes nobody.
AdvanceEntryAsleep(s) ==
  [c |-> {}, gone |-> {}, w |-> {}, p |-> {}, moved |-> s.pending, woken |-> {}]

AdvanceEntry(s) ==
  [c |-> {}, gone |-> {}, w |-> {}, p |-> {},
   moved |-> s.pending,
   woken |-> { d \in Node \ (s.committed \cup s.frontier) :
                 s.pending[d] > 0 /\ s.raw[d] = s.pending[d] /\ s.war[d] = 0 }]

\* Mutant: a buffered resolution stays buffered after it is moved.
DoKeepsPending(s, e) ==
  [raw |-> [d \in Node |-> s.raw[d] - e.moved[d]],
   war |-> [d \in Node |-> s.war[d] - One(d, e.w)],
   pending |-> [d \in Node |-> s.pending[d] + One(d, e.p)],
   committed |-> s.committed \cup e.c,
   frontier |-> (s.frontier \ e.gone) \cup e.woken]

\* The effect of the recorded mutations on the state.
Do(s, e) ==
  [raw |-> [d \in Node |-> s.raw[d] - e.moved[d]],
   war |-> [d \in Node |-> s.war[d] - One(d, e.w)],
   pending |-> [d \in Node |-> IF e.moved[d] > 0 THEN 0
                               ELSE s.pending[d] + One(d, e.p)],
   committed |-> s.committed \cup e.c,
   frontier |-> (s.frontier \ e.gone) \cup e.woken]

\* Mutant: a node that was placed does not rejoin the frontier.
UndoForgetsFrontier(s, e) ==
  [raw |-> [d \in Node |-> s.raw[d] + e.moved[d]],
   war |-> [d \in Node |-> s.war[d] + One(d, e.w)],
   pending |-> [d \in Node |-> IF e.moved[d] > 0 THEN e.moved[d]
                               ELSE s.pending[d] - One(d, e.p)],
   committed |-> s.committed \ e.c,
   frontier |-> s.frontier \ e.woken]

\* What rollback() does for the entry it pops.
Undo(s, e) ==
  [raw |-> [d \in Node |-> s.raw[d] + e.moved[d]],
   war |-> [d \in Node |-> s.war[d] + One(d, e.w)],
   pending |-> [d \in Node |-> IF e.moved[d] > 0 THEN e.moved[d]
                               ELSE s.pending[d] - One(d, e.p)],
   committed |-> s.committed \ e.c,
   frontier |-> (s.frontier \ e.woken) \cup e.gone]

Record(e) == log' = IF recording THEN Append(log, e) ELSE log

-----------------------------------------------------------------------------
\* commit(i), called by the schedulers on nodes of their working set only,
\* which holds ready() and the nodes commit() returned.
Commit(i) ==
  /\ target = Idle
  /\ i \in frontier
  /\ LET e == CommitEntry(graph, live, i) IN Become(Do(live, e)) /\ Record(e)
  /\ UNCHANGED <<graph, recording, target>>

\* advance(); it touches, and logs, only nodes with buffered resolutions.
Advance ==
  /\ target = Idle
  /\ \E d \in Node : pending[d] > 0
  /\ LET e == AdvanceEntry(live) IN Become(Do(live, e)) /\ Record(e)
  /\ UNCHANGED <<graph, recording, target>>

\* checkpoint() opens the log, or leaves an open one; the token it returns
\* is the length of the log.
Checkpoint ==
  /\ target = Idle
  /\ recording' = TRUE
  /\ UNCHANGED <<graph, raw, war, pending, committed, frontier, log, target>>

\* rollback(token), with a token no later rollback has passed.
Rollback(token) ==
  /\ target = Idle
  /\ recording
  /\ token \in 0 .. Len(log)
  /\ target' = token
  /\ UNCHANGED <<graph, raw, war, pending, committed, frontier, recording, log>>

PopEntry ==
  /\ target # Idle
  /\ Len(log) > target
  /\ Become(Undo(live, log[Len(log)]))
  /\ log' = SubSeq(log, 1, Len(log) - 1)
  /\ UNCHANGED <<graph, recording, target>>

\* Mutant: rolling back to an inner checkpoint closes the outer one too.
RollbackDoneCloses ==
  /\ target # Idle
  /\ Len(log) <= target
  /\ recording' = FALSE
  /\ target' = Idle
  /\ UNCHANGED <<graph, raw, war, pending, committed, frontier, log>>

\* The loop has ended; token 0 closes the log.
RollbackDone ==
  /\ target # Idle
  /\ Len(log) <= target
  /\ recording' = (target # 0)
  /\ target' = Idle
  /\ UNCHANGED <<graph, raw, war, pending, committed, frontier, log>>

\* reset(), called between passes, when no trial is open.
Reset ==
  /\ target = Idle
  /\ ~recording
  /\ Become(Fresh(graph))
  /\ UNCHANGED <<graph, recording, log, target>>

Next == \/ \E i \in Node : Commit(i)
        \/ Advance
        \/ Checkpoint
        \/ \E token \in 0 .. Len(log) : Rollback(token)
        \/ PopEntry
        \/ RollbackDone
        \/ Reset

Spec == Init /\ [][Next]_dagVars
=============================================================================
