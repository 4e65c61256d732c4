---------------------------- MODULE DepDagProofs ----------------------------
(***************************************************************************)
(* Theorems about the dependency graph, for every finite set of nodes and  *)
(* every set of forward graphs.  The lemmas follow one point (a state of   *)
(* the graph and the nodes in flight) through commit, advance and undo;    *)
(* the theorems carry them along the log.                                  *)
(***************************************************************************)
EXTENDS DepDagHistory, FiniteSetTheorems, SequenceTheorems, WellFoundedInduction,
        TLAPS

\* Subsets of the nodes are finite, and their cardinalities are numbers that
\* are zero only for the empty set: what every counter of the graph counts.
LEMMA SubsetsFinite ==
  ASSUME NEW S \in SUBSET Node
  PROVE  /\ IsFiniteSet(S)
         /\ Cardinality(S) \in Nat
         /\ Cardinality(S) = 0 <=> S = {}
BY NodeAssumption, FS_Subset, FS_CardinalityType, FS_EmptySet

\* Counting a set of nodes in two disjoint parts.
LEMMA CountSplit ==
  ASSUME NEW A \in SUBSET Node, NEW B \in SUBSET Node, A \cap B = {}
  PROVE  Cardinality(A \cup B) = Cardinality(A) + Cardinality(B)
<1>1. IsFiniteSet(A) /\ IsFiniteSet(B)
  BY SubsetsFinite
<1>2. Cardinality(A \cup B) = Cardinality(A) + Cardinality(B) - Cardinality(A \cap B)
  BY <1>1, FS_Union
<1>3. Cardinality(A \cap B) = 0
  BY FS_EmptySet
<1> QED
  BY <1>1, <1>2, <1>3, FS_CardinalityType

\* A set of nodes that holds i has one element iff it is {i}.
LEMMA CountOne ==
  ASSUME NEW S \in SUBSET Node, NEW i \in S
  PROVE  /\ Cardinality(S \ {i}) = Cardinality(S) - 1
         /\ Cardinality(S) = 1 <=> S = {i}
<1>1. Cardinality(S \ {i}) = Cardinality(S) - 1
  BY SubsetsFinite, FS_RemoveElement
<1>2. Cardinality(S \ {i}) = 0 <=> S \ {i} = {}
  BY SubsetsFinite
<1> QED
  BY <1>1, <1>2, SubsetsFinite

\* Edges run forward: a node is not its own neighbour.
LEMMA EdgesForward ==
  ASSUME NEW G \in Graphs, NEW s \in Node, NEW d \in Node
  PROVE  /\ s \in RawIn(G, d) <=> d \in RawOut(G, s)
         /\ s \in WarIn(G, d) <=> d \in WarOut(G, s)
         /\ d \in RawOut(G, s) => s < d
         /\ d \in WarOut(G, s) => s < d
BY GraphsAssumption DEF RawIn, WarIn, RawOut, WarOut, Forward

\* A counter is zero exactly when nothing it counts is left.
LEMMA ZeroCounters ==
  ASSUME NEW G \in Graphs, NEW s \in State, NEW f \in SUBSET Node,
         CountersOf(G, s, f), NEW d \in Node
  PROVE  /\ s.raw[d] = 0 <=> RawIn(G, d) \subseteq s.committed \ f
         /\ s.war[d] = 0 <=> WarIn(G, d) \subseteq s.committed
         /\ s.pending[d] = 0 <=> RawIn(G, d) \cap f = {}
<1> DEFINE R == { q \in RawIn(G, d) : q \notin s.committed \ f }
           W == { q \in WarIn(G, d) : q \notin s.committed }
           P == { q \in RawIn(G, d) : q \in f }
<1>1. R \in SUBSET Node /\ W \in SUBSET Node /\ P \in SUBSET Node
  BY DEF RawIn, WarIn
<1>2. s.raw[d] = Cardinality(R) /\ s.war[d] = Cardinality(W) /\ s.pending[d] = Cardinality(P)
  BY DEF CountersOf
<1>3. (s.raw[d] = 0 <=> R = {}) /\ (s.war[d] = 0 <=> W = {}) /\ (s.pending[d] = 0 <=> P = {})
  BY <1>1, <1>2, SubsetsFinite
<1> QED
  BY <1>3

-----------------------------------------------------------------------------
\* Facts about a ready node: what it waits for is placed and visible, and no
\* node that waits for it is placed, so commit() skips none of its readers.
LEMMA ReadyNode ==
  ASSUME NEW G \in Graphs, NEW s \in State, NEW f \in SUBSET Node,
         FrontierOf(G, s, f), ClosedBelow(G, s, f), NEW i \in s.frontier
  PROVE  /\ i \in Node /\ i \notin s.committed /\ i \notin f
         /\ RawIn(G, i) \subseteq s.committed \ f
         /\ WarIn(G, i) \subseteq s.committed
         /\ CommitEntry(G, s, i).w = WarOut(G, i)
         /\ CommitEntry(G, s, i).p = RawOut(G, i)
         /\ CommitEntry(G, s, i).c = {i}
         /\ CommitEntry(G, s, i).gone = {i}
         /\ CommitEntry(G, s, i).moved = [d \in Node |-> 0]
         /\ CommitEntry(G, s, i).woken =
              { d \in WarOut(G, i) \ s.frontier : s.raw[d] = 0 /\ s.war[d] = 1 }
<1>1. i \in Node /\ i \notin s.committed /\ i \notin f
  BY DEF FrontierOf, ClosedBelow
<1>2. RawIn(G, i) \subseteq s.committed \ f /\ WarIn(G, i) \subseteq s.committed
  BY DEF FrontierOf
<1>3. \A d \in RawOut(G, i) \cup WarOut(G, i) : d \notin s.committed /\ d # i
  <2> SUFFICES ASSUME NEW d \in RawOut(G, i) \cup WarOut(G, i)
               PROVE  d \notin s.committed /\ d # i
    OBVIOUS
  <2>1. d \in Node
    BY DEF RawOut, WarOut
  <2>2. i \in RawIn(G, d) \cup WarIn(G, d)
    BY <1>1, <2>1, EdgesForward
  <2>3. i < d
    BY <1>1, <2>1, EdgesForward
  <2>4. d # i
    BY <2>3, <2>1, <1>1, NodeAssumption
  <2> QED
    BY <2>2, <2>4, <1>1 DEF ClosedBelow
<1>4. /\ WarOut(G, i) \ (s.committed \cup {i}) = WarOut(G, i)
      /\ RawOut(G, i) \ (s.committed \cup {i}) = RawOut(G, i)
  BY <1>3
<1> QED
  BY <1>1, <1>2, <1>4 DEF CommitEntry

\* Committing a ready node keeps the counters an exact recount.
LEMMA CommitCounters ==
  ASSUME NEW G \in Graphs, NEW s \in State, NEW f \in SUBSET Node,
         CountersOf(G, s, f), FrontierOf(G, s, f), ClosedBelow(G, s, f), NEW i \in s.frontier
  PROVE  CountersOf(G, Do(s, CommitEntry(G, s, i)), IF HasReader(G, i) THEN f \cup {i} ELSE f)
<1> DEFINE e == CommitEntry(G, s, i)
           t == Do(s, e)
           g == IF HasReader(G, i) THEN f \cup {i} ELSE f
<1>1. i \in Node /\ i \notin s.committed /\ i \notin f
  BY ReadyNode
<1>2. /\ t.committed = s.committed \cup {i}
      /\ t.raw = [d \in Node |-> s.raw[d] - 0]
      /\ t.war = [d \in Node |-> s.war[d] - One(d, WarOut(G, i))]
      /\ t.pending = [d \in Node |-> s.pending[d] + One(d, RawOut(G, i))]
  BY ReadyNode DEF Do
<1> SUFFICES ASSUME NEW d \in Node
             PROVE  /\ t.raw[d] = Cardinality({ q \in RawIn(G, d) : q \notin t.committed \ g })
                    /\ t.war[d] = Cardinality({ q \in WarIn(G, d) : q \notin t.committed })
                    /\ t.pending[d] = Cardinality({ q \in RawIn(G, d) : q \in g })
  BY DEF CountersOf
<1> HIDE DEF t, e
<1>3. i \in RawIn(G, d) => HasReader(G, i) /\ d \in RawOut(G, i)
  BY <1>1, EdgesForward DEF HasReader
<1>4. t.raw[d] = Cardinality({ q \in RawIn(G, d) : q \notin t.committed \ g })
  <2>1. t.raw[d] = s.raw[d] - 0
    BY <1>2
  <2> DEFINE R == { q \in RawIn(G, d) : q \notin s.committed \ f }
  <2>2. s.raw[d] = Cardinality(R) /\ s.raw[d] \in Nat
    BY DEF CountersOf, State
  <2>3. { q \in RawIn(G, d) : q \notin t.committed \ g } = R
    BY <1>1, <1>2, <1>3
  <2> HIDE DEF R
  <2>4. t.raw[d] = s.raw[d]
    BY <2>1, <2>2
  <2> QED
    BY <2>2, <2>3, <2>4
<1>5. t.war[d] = Cardinality({ q \in WarIn(G, d) : q \notin t.committed })
  <2> DEFINE W == { q \in WarIn(G, d) : q \notin s.committed }
  <2>1. t.war[d] = s.war[d] - One(d, WarOut(G, i))
    BY <1>2
  <2>2. { q \in WarIn(G, d) : q \notin t.committed } = W \ {i}
    BY <1>2
  <2>3. W \in SUBSET Node /\ s.war[d] = Cardinality(W) /\ s.war[d] \in Nat
    BY DEF CountersOf, State, WarIn
  <2>4. CASE i \in WarIn(G, d)
    <3>1. i \in W /\ d \in WarOut(G, i)
      BY <2>4, <1>1, EdgesForward
    <3>2. Cardinality(W \ {i}) = Cardinality(W) - 1
      BY <3>1, <2>3, CountOne
    <3> QED
      BY <2>1, <2>2, <2>3, <3>1, <3>2 DEF One
  <2>5. CASE i \notin WarIn(G, d)
    <3>1. W \ {i} = W /\ d \notin WarOut(G, i)
      BY <2>5, <1>1, EdgesForward
    <3> HIDE DEF W
    <3>2. t.war[d] = s.war[d]
      BY <2>1, <2>3, <3>1 DEF One
    <3> QED
      BY <2>2, <2>3, <3>1, <3>2
  <2> QED
    BY <2>4, <2>5
<1>6. t.pending[d] = Cardinality({ q \in RawIn(G, d) : q \in g })
  <2> DEFINE P == { q \in RawIn(G, d) : q \in f }
  <2>1. t.pending[d] = s.pending[d] + One(d, RawOut(G, i))
    BY <1>2
  <2>2. P \in SUBSET Node /\ s.pending[d] = Cardinality(P) /\ s.pending[d] \in Nat
    BY DEF CountersOf, State, RawIn
  <2>3. CASE i \in RawIn(G, d)
    <3>1. { q \in RawIn(G, d) : q \in g } = P \cup {i}
      BY <2>3, <1>3
    <3>2. Cardinality(P \cup {i}) = Cardinality(P) + 1
      BY <2>2, <1>1, SubsetsFinite, FS_AddElement
    <3> QED
      BY <2>1, <2>2, <1>3, <2>3, <3>1, <3>2 DEF One
  <2>4. CASE i \notin RawIn(G, d)
    <3>1. { q \in RawIn(G, d) : q \in g } = P /\ d \notin RawOut(G, i)
      BY <2>4, <1>1, EdgesForward
    <3> HIDE DEF P
    <3>2. t.pending[d] = s.pending[d]
      BY <2>1, <2>2, <3>1 DEF One
    <3> QED
      BY <2>2, <3>1, <3>2
  <2> QED
    BY <2>3, <2>4
<1> QED
  BY <1>4, <1>5, <1>6

\* Committing a ready node keeps the frontier exactly the ready nodes: WAR
\* readers join it when their last blocker goes, RAW readers do not.
LEMMA CommitFrontier ==
  ASSUME NEW G \in Graphs, NEW s \in State, NEW f \in SUBSET Node,
         CountersOf(G, s, f), FrontierOf(G, s, f), ClosedBelow(G, s, f), NEW i \in s.frontier
  PROVE  FrontierOf(G, Do(s, CommitEntry(G, s, i)), IF HasReader(G, i) THEN f \cup {i} ELSE f)
<1> DEFINE t == Do(s, CommitEntry(G, s, i))
           g == IF HasReader(G, i) THEN f \cup {i} ELSE f
           woken == { d \in WarOut(G, i) \ s.frontier : s.raw[d] = 0 /\ s.war[d] = 1 }
           Placeable(d) == /\ d \notin s.committed \cup {i}
                           /\ RawIn(G, d) \subseteq (s.committed \cup {i}) \ g
                           /\ WarIn(G, d) \subseteq s.committed \cup {i}
<1>1. i \in Node /\ i \notin s.committed /\ i \notin f
  BY ReadyNode
<1>2. t.committed = s.committed \cup {i} /\ t.frontier = (s.frontier \ {i}) \cup woken
  BY ReadyNode DEF Do
<1> SUFFICES (s.frontier \ {i}) \cup woken = { d \in Node \ t.committed :
                  RawIn(G, d) \subseteq t.committed \ g /\ WarIn(G, d) \subseteq t.committed }
  BY <1>2 DEF FrontierOf
<1> HIDE DEF t
<1>3. ASSUME NEW d \in s.frontier \ {i}
      PROVE  d \in Node /\ Placeable(d)
  <2>1. /\ d \in Node /\ d \notin s.committed
        /\ RawIn(G, d) \subseteq s.committed \ f
        /\ WarIn(G, d) \subseteq s.committed
    BY DEF FrontierOf
  <2> QED
    BY <2>1, <1>1
<1>4. ASSUME NEW d \in woken
      PROVE  d \in Node /\ Placeable(d)
  <2> DEFINE W == { q \in WarIn(G, d) : q \notin s.committed }
  <2>1. d \in Node /\ d \in WarOut(G, i) /\ s.raw[d] = 0 /\ s.war[d] = 1
    BY DEF WarOut
  <2>2. i \in WarIn(G, d) /\ i # d
    BY <2>1, <1>1, EdgesForward, NodeAssumption
  <2>3. d \notin s.committed
    BY <2>2, <1>1 DEF ClosedBelow
  <2>4. RawIn(G, d) \subseteq s.committed \ f
    BY <2>1, ZeroCounters
  <2>5. W \in SUBSET Node /\ i \in W /\ Cardinality(W) = 1
    BY <2>1, <2>2, <1>1 DEF CountersOf, WarIn
  <2>6. W = {i}
    BY <2>5, CountOne
  <2> QED
    BY <2>1, <2>2, <2>3, <2>4, <2>6, <1>1
<1>5. ASSUME NEW d \in Node, Placeable(d), d \notin s.frontier
      PROVE  d \in woken
  <2> DEFINE W == { q \in WarIn(G, d) : q \notin s.committed }
  <2>1. i \notin RawIn(G, d)
    BY <1>1, <1>5, EdgesForward DEF HasReader
  <2>2. RawIn(G, d) \subseteq s.committed \ f
    BY <2>1, <1>5
  <2>3. ~ WarIn(G, d) \subseteq s.committed
    BY <2>2, <1>5 DEF FrontierOf
  <2>4. i \in W /\ W = {i} /\ W \in SUBSET Node
    BY <2>3, <1>5, <1>1 DEF WarIn
  <2>5. s.war[d] = 1
    BY <2>4, CountOne DEF CountersOf
  <2>6. s.raw[d] = 0
    BY <2>2, ZeroCounters
  <2>7. d \in WarOut(G, i)
    BY <2>4, <1>1, EdgesForward
  <2> QED
    BY <2>5, <2>6, <2>7, <1>5
<1>6. i \notin woken
  BY <1>4
<1> QED
  BY <1>1, <1>2, <1>3, <1>4, <1>5, <1>6

\* Undoing the entry of a commit or of an advance gives the state back.
LEMMA UndoDo ==
  ASSUME NEW s \in State, NEW e \in Entry,
         e.c \cap s.committed = {}, e.gone \subseteq s.frontier,
         e.woken \cap s.frontier = {},
         \A d \in Node : e.moved[d] > 0 => s.pending[d] = e.moved[d] /\ e.p = {}
  PROVE  Undo(Do(s, e), e) = s
<1> DEFINE t == Do(s, e)
           u == Undo(t, e)
<1>1. /\ e.moved \in [Node -> Nat]
      /\ s.raw \in [Node -> Nat] /\ s.war \in [Node -> Nat] /\ s.pending \in [Node -> Nat]
      /\ s = [raw |-> s.raw, war |-> s.war, pending |-> s.pending,
              committed |-> s.committed, frontier |-> s.frontier]
  BY DEF State, Entry
<1>2. \A d \in Node : One(d, e.w) \in Nat /\ One(d, e.p) \in Nat
  BY DEF One
<1>3. u.committed = s.committed /\ u.frontier = s.frontier
  BY DEF Do, Undo
<1>4. u.raw = s.raw
  <2>1. u.raw = [d \in Node |-> (s.raw[d] - e.moved[d]) + e.moved[d]]
    BY DEF Do, Undo
  <2> QED
    BY <2>1, <1>1
<1>5. u.war = s.war
  <2>1. u.war = [d \in Node |-> (s.war[d] - One(d, e.w)) + One(d, e.w)]
    BY DEF Do, Undo
  <2> QED
    BY <2>1, <1>1, <1>2
<1>6. u.pending = s.pending
  <2>1. u.pending = [d \in Node |-> IF e.moved[d] > 0 THEN e.moved[d]
                      ELSE (IF e.moved[d] > 0 THEN 0 ELSE s.pending[d] + One(d, e.p)) - One(d, e.p)]
    BY DEF Do, Undo
  <2>2. \A d \in Node : u.pending[d] = s.pending[d]
    BY <2>1, <1>1, <1>2
  <2> QED
    BY <2>1, <2>2, <1>1
<1>7. u = [raw |-> u.raw, war |-> u.war, pending |-> u.pending,
           committed |-> u.committed, frontier |-> u.frontier]
  BY DEF Undo
<1> QED
  BY <1>1, <1>3, <1>4, <1>5, <1>6, <1>7

\* The whole of commit(): its entry is well formed, the point it leads to is
\* again as it should be, and its entry undoes it.
LEMMA CommitPoint ==
  ASSUME NEW G \in Graphs, NEW s \in State, NEW f \in SUBSET Node,
         PointOK(G, [dag |-> s, inFlight |-> f]), NEW i \in s.frontier
  PROVE  LET e == CommitEntry(G, s, i)
             g == IF HasReader(G, i) THEN f \cup {i} ELSE f
         IN  /\ e \in Entry
             /\ Do(s, e) \in State
             /\ g \in SUBSET Node
             /\ PointOK(G, [dag |-> Do(s, e), inFlight |-> g])
             /\ Undo(Do(s, e), e) = s
<1> DEFINE e == CommitEntry(G, s, i)
           t == Do(s, e)
           g == IF HasReader(G, i) THEN f \cup {i} ELSE f
<1>0. CountersOf(G, s, f) /\ FrontierOf(G, s, f) /\ ClosedBelow(G, s, f)
  BY DEF PointOK
<1>1. i \in Node /\ i \notin s.committed /\ i \notin f /\ g \in SUBSET Node
  BY <1>0, ReadyNode
<1>2. /\ e.c = {i} /\ e.gone = {i} /\ e.w = WarOut(G, i) /\ e.p = RawOut(G, i)
      /\ e.moved = [d \in Node |-> 0]
      /\ e.woken = { d \in WarOut(G, i) \ s.frontier : s.raw[d] = 0 /\ s.war[d] = 1 }
  BY <1>0, ReadyNode
<1>3. e \in Entry
  <2>1. e = [c |-> e.c, gone |-> e.gone, w |-> e.w, p |-> e.p,
             moved |-> e.moved, woken |-> e.woken]
    BY DEF CommitEntry
  <2>2. /\ e.c \in SUBSET Node /\ e.gone \in SUBSET Node /\ e.w \in SUBSET Node
        /\ e.p \in SUBSET Node /\ e.moved \in [Node -> Nat] /\ e.woken \in SUBSET Node
    BY <1>1, <1>2 DEF WarOut, RawOut
  <2> HIDE DEF e
  <2> QED
    BY <2>1, <2>2 DEF Entry
<1>4. CountersOf(G, t, g)
  BY <1>0, CommitCounters
<1>5. FrontierOf(G, t, g)
  BY <1>0, CommitFrontier
<1>6. t.committed = s.committed \cup {i}
  BY <1>2 DEF Do
<1>7. t.frontier = (s.frontier \ {i}) \cup e.woken
  BY <1>2 DEF Do
<1>8. t \in State
  <2>1. t = [raw |-> t.raw, war |-> t.war, pending |-> t.pending,
             committed |-> t.committed, frontier |-> t.frontier]
    BY DEF Do
  <2>2. t.committed \in SUBSET Node /\ t.frontier \in SUBSET Node
    BY <1>1, <1>2, <1>6, <1>7 DEF State, WarOut
  <2>3. \A d \in Node : t.raw[d] \in Nat /\ t.war[d] \in Nat /\ t.pending[d] \in Nat
    <3> SUFFICES ASSUME NEW d \in Node
                 PROVE  t.raw[d] \in Nat /\ t.war[d] \in Nat /\ t.pending[d] \in Nat
      OBVIOUS
    <3> DEFINE R == { q \in RawIn(G, d) : q \notin t.committed \ g }
               W == { q \in WarIn(G, d) : q \notin t.committed }
               P == { q \in RawIn(G, d) : q \in g }
    <3>1. t.raw[d] = Cardinality(R) /\ t.war[d] = Cardinality(W) /\ t.pending[d] = Cardinality(P)
      BY <1>4 DEF CountersOf
    <3>2. R \in SUBSET Node /\ W \in SUBSET Node /\ P \in SUBSET Node
      BY DEF RawIn, WarIn
    <3> HIDE DEF R, W, P, t
    <3> QED
      BY <3>1, <3>2, SubsetsFinite
  <2>4. /\ t.raw = [d \in Node |-> t.raw[d]] /\ t.war = [d \in Node |-> t.war[d]]
        /\ t.pending = [d \in Node |-> t.pending[d]]
    BY DEF Do
  <2> HIDE DEF t
  <2> QED
    BY <2>1, <2>2, <2>3, <2>4 DEF State
<1>9. ClosedBelow(G, t, g)
  <2>1. g \subseteq t.committed /\ \A q \in g : HasReader(G, q)
    BY <1>0, <1>6 DEF ClosedBelow
  <2>2. RawIn(G, i) \cup WarIn(G, i) \subseteq t.committed
    BY <1>0, <1>6, ReadyNode
  <2>3. \A q \in s.committed : RawIn(G, q) \cup WarIn(G, q) \subseteq t.committed
    BY <1>0, <1>6 DEF ClosedBelow
  <2> HIDE DEF t, g
  <2> QED
    BY <2>1, <2>2, <2>3, <1>6 DEF ClosedBelow
<1>10. Undo(t, e) = s
  <2>1. /\ e.c \cap s.committed = {} /\ e.gone \subseteq s.frontier
        /\ e.woken \cap s.frontier = {} /\ \A d \in Node : ~ e.moved[d] > 0
    BY <1>1, <1>2
  <2> HIDE DEF e
  <2> QED
    BY <1>3, <2>1, UndoDo
<1> HIDE DEF e, t, g
<1> QED
  <2>1. PointOK(G, [dag |-> t, inFlight |-> g])
    BY <1>4, <1>5, <1>9 DEF PointOK
  <2> QED
    BY <1>1, <1>3, <1>8, <1>10, <2>1 DEF e, t, g

\* The whole of advance(): every buffered resolution becomes visible at once,
\* and the nodes it releases are exactly the new frontier members.
LEMMA AdvancePoint ==
  ASSUME NEW G \in Graphs, NEW s \in State, NEW f \in SUBSET Node,
         PointOK(G, [dag |-> s, inFlight |-> f])
  PROVE  LET e == AdvanceEntry(s)
         IN  /\ e \in Entry
             /\ Do(s, e) \in State
             /\ PointOK(G, [dag |-> Do(s, e), inFlight |-> {}])
             /\ Undo(Do(s, e), e) = s
<1> DEFINE e == AdvanceEntry(s)
           t == Do(s, e)
<1>0. CountersOf(G, s, f) /\ FrontierOf(G, s, f) /\ ClosedBelow(G, s, f)
  BY DEF PointOK
<1>1. /\ s.raw \in [Node -> Nat] /\ s.war \in [Node -> Nat] /\ s.pending \in [Node -> Nat]
      /\ s.committed \in SUBSET Node /\ s.frontier \in SUBSET Node
  BY DEF State
<1>2. /\ e.c = {} /\ e.gone = {} /\ e.w = {} /\ e.p = {} /\ e.moved = s.pending
      /\ e.woken = { d \in Node \ (s.committed \cup s.frontier) :
                       s.pending[d] > 0 /\ s.raw[d] = s.pending[d] /\ s.war[d] = 0 }
  BY DEF AdvanceEntry
<1>3. e \in Entry
  <2>1. e = [c |-> e.c, gone |-> e.gone, w |-> e.w, p |-> e.p,
             moved |-> e.moved, woken |-> e.woken]
    BY DEF AdvanceEntry
  <2>2. /\ e.c \in SUBSET Node /\ e.gone \in SUBSET Node /\ e.w \in SUBSET Node
        /\ e.p \in SUBSET Node /\ e.moved \in [Node -> Nat] /\ e.woken \in SUBSET Node
    BY <1>1, <1>2
  <2> HIDE DEF e
  <2> QED
    BY <2>1, <2>2 DEF Entry
<1> HIDE DEF e
<1>4. /\ t.raw = [d \in Node |-> s.raw[d] - s.pending[d]]
      /\ t.war = [d \in Node |-> s.war[d] - One(d, {})]
      /\ t.pending = [d \in Node |-> IF s.pending[d] > 0 THEN 0 ELSE s.pending[d] + One(d, {})]
      /\ t.committed = s.committed
      /\ t.frontier = s.frontier \cup e.woken
      /\ t = [raw |-> t.raw, war |-> t.war, pending |-> t.pending,
              committed |-> t.committed, frontier |-> t.frontier]
  BY <1>2 DEF Do
<1> HIDE DEF t
<1>5. ASSUME NEW d \in Node
      PROVE  /\ t.raw[d] = Cardinality({ q \in RawIn(G, d) : q \notin s.committed })
             /\ t.raw[d] = s.raw[d] - s.pending[d]
             /\ t.raw[d] \in Nat
             /\ t.war[d] = s.war[d] /\ t.pending[d] = 0
  <2> DEFINE R == { q \in RawIn(G, d) : q \notin s.committed \ f }
             P == { q \in RawIn(G, d) : q \in f }
             N == { q \in RawIn(G, d) : q \notin s.committed }
  <2>1. R = N \cup P /\ N \cap P = {}
    BY <1>0 DEF ClosedBelow
  <2>2. R \in SUBSET Node /\ P \in SUBSET Node /\ N \in SUBSET Node
    BY DEF RawIn
  <2>3. s.raw[d] = Cardinality(R) /\ s.pending[d] = Cardinality(P)
    BY <1>0 DEF CountersOf
  <2>4. t.raw[d] = s.raw[d] - s.pending[d] /\ t.war[d] = s.war[d] /\ t.pending[d] = 0
    BY <1>1, <1>4 DEF One
  <2> HIDE DEF R, P, N
  <2>5. Cardinality(R) = Cardinality(N) + Cardinality(P)
    BY <2>1, <2>2, CountSplit
  <2>6. t.raw[d] = Cardinality(N) /\ t.raw[d] \in Nat
    BY <2>2, <2>3, <2>4, <2>5, SubsetsFinite
  <2> QED
    BY <2>4, <2>6 DEF N
<1>6. CountersOf(G, t, {})
  <2> SUFFICES ASSUME NEW d \in Node
               PROVE  /\ t.raw[d] = Cardinality({ q \in RawIn(G, d) : q \notin t.committed \ {} })
                      /\ t.war[d] = Cardinality({ q \in WarIn(G, d) : q \notin t.committed })
                      /\ t.pending[d] = Cardinality({ q \in RawIn(G, d) : q \in {} })
    BY DEF CountersOf
  <2>1. t.raw[d] = Cardinality({ q \in RawIn(G, d) : q \notin t.committed \ {} })
    <3>1. { q \in RawIn(G, d) : q \notin t.committed \ {} }
          = { q \in RawIn(G, d) : q \notin s.committed }
      BY <1>4
    <3> QED
      BY <3>1, <1>5
  <2>2. t.war[d] = Cardinality({ q \in WarIn(G, d) : q \notin t.committed })
    <3>1. s.war[d] = Cardinality({ q \in WarIn(G, d) : q \notin s.committed })
      BY <1>0 DEF CountersOf
    <3>2. t.war[d] = s.war[d] /\ t.committed = s.committed
      BY <1>4, <1>5
    <3> QED
      BY <3>1, <3>2
  <2>3. t.pending[d] = Cardinality({ q \in RawIn(G, d) : q \in {} })
    <3>1. { q \in RawIn(G, d) : q \in {} } = {}
      OBVIOUS
    <3> QED
      BY <3>1, <1>5, FS_EmptySet
  <2> QED
    BY <2>1, <2>2, <2>3
<1>7. t \in State
  <2>1. t.raw \in [Node -> Nat] /\ t.war \in [Node -> Nat] /\ t.pending \in [Node -> Nat]
    <3>1. \A d \in Node : /\ s.raw[d] - s.pending[d] \in Nat
                          /\ s.war[d] - One(d, {}) \in Nat
                          /\ (IF s.pending[d] > 0 THEN 0 ELSE s.pending[d] + One(d, {})) \in Nat
      <4> SUFFICES ASSUME NEW d \in Node
                   PROVE  /\ s.raw[d] - s.pending[d] \in Nat
                          /\ s.war[d] - 0 \in Nat
                          /\ (IF s.pending[d] > 0 THEN 0 ELSE s.pending[d] + 0) \in Nat
        BY DEF One
      <4>1. s.raw[d] - s.pending[d] \in Nat
        BY <1>5
      <4>2. s.war[d] \in Nat /\ s.pending[d] \in Nat
        BY <1>1
      <4> QED
        BY <4>1, <4>2
    <3>2. /\ t.raw = [d \in Node |-> s.raw[d] - s.pending[d]]
          /\ t.war = [d \in Node |-> s.war[d] - One(d, {})]
          /\ t.pending = [d \in Node |-> IF s.pending[d] > 0 THEN 0 ELSE s.pending[d] + One(d, {})]
      BY <1>4
    <3> QED
      BY <3>1, <3>2
  <2>2. t.committed \in SUBSET Node /\ t.frontier \in SUBSET Node
    BY <1>1, <1>2, <1>4
  <2> QED
    BY <1>4, <2>1, <2>2 DEF State
<1>8. FrontierOf(G, t, {})
  <2>1. ASSUME NEW d \in Node \ s.committed
        PROVE  d \in t.frontier <=> /\ RawIn(G, d) \subseteq s.committed
                                    /\ WarIn(G, d) \subseteq s.committed
    <3>1. /\ t.raw[d] = 0 <=> RawIn(G, d) \subseteq t.committed \ {}
          /\ t.war[d] = 0 <=> WarIn(G, d) \subseteq t.committed
      BY <1>6, <1>7, ZeroCounters
    <3>2. /\ s.raw[d] = 0 <=> RawIn(G, d) \subseteq s.committed \ f
          /\ s.war[d] = 0 <=> WarIn(G, d) \subseteq s.committed
      BY <1>0, ZeroCounters
    <3>3. d \in s.frontier <=> s.raw[d] = 0 /\ s.war[d] = 0
      BY <1>0, <3>2 DEF FrontierOf
    <3>4. s.raw[d] \in Nat /\ s.pending[d] \in Nat /\ s.raw[d] - s.pending[d] \in Nat
      BY <1>1, <1>5
    <3>5. d \in e.woken <=> d \notin s.frontier /\ s.pending[d] > 0
                            /\ s.raw[d] = s.pending[d] /\ s.war[d] = 0
      BY <1>2
    <3>6. d \in t.frontier <=> s.raw[d] - s.pending[d] = 0 /\ s.war[d] = 0
      BY <1>4, <3>3, <3>4, <3>5
    <3> QED
      BY <3>1, <3>6, <1>4, <1>5
  <2>2. t.frontier \subseteq Node \ s.committed
    BY <1>0, <1>2, <1>4 DEF FrontierOf
  <2> QED
    BY <2>1, <2>2, <1>4 DEF FrontierOf
<1>9. ClosedBelow(G, t, {})
  BY <1>0, <1>4 DEF ClosedBelow
<1>10. Undo(t, e) = s
  BY <1>2, <1>3, UndoDo DEF t
<1>11. PointOK(G, [dag |-> t, inFlight |-> {}])
  BY <1>6, <1>8, <1>9 DEF PointOK
<1> QED
  BY <1>3, <1>7, <1>10, <1>11 DEF e, t

\* The starting point, and the point reset() goes back to.
LEMMA FreshPoint ==
  ASSUME NEW G \in Graphs
  PROVE  Fresh(G) \in State /\ PointOK(G, [dag |-> Fresh(G), inFlight |-> {}])
<1> DEFINE s == Fresh(G)
<1>1. ASSUME NEW d \in Node
      PROVE  /\ { q \in RawIn(G, d) : q \notin {} \ {} } = RawIn(G, d)
             /\ { q \in WarIn(G, d) : q \notin {} } = WarIn(G, d)
             /\ { q \in RawIn(G, d) : q \in {} } = {}
             /\ RawIn(G, d) \in SUBSET Node /\ WarIn(G, d) \in SUBSET Node
  BY DEF RawIn, WarIn
<1>2. /\ s.raw = [d \in Node |-> Cardinality(RawIn(G, d))]
      /\ s.war = [d \in Node |-> Cardinality(WarIn(G, d))]
      /\ s.pending = [d \in Node |-> 0]
      /\ s.committed = {}
      /\ s.frontier = { d \in Node : s.raw[d] = 0 /\ s.war[d] = 0 }
      /\ s = [raw |-> s.raw, war |-> s.war, pending |-> s.pending,
              committed |-> s.committed, frontier |-> s.frontier]
  BY DEF Fresh
<1> HIDE DEF s
<1>3. \A d \in Node : /\ Cardinality(RawIn(G, d)) \in Nat
                      /\ Cardinality(WarIn(G, d)) \in Nat
  BY <1>1, SubsetsFinite
<1>4. s \in State
  BY <1>2, <1>3 DEF State
<1>5. CountersOf(G, s, {})
  <2> SUFFICES ASSUME NEW d \in Node
               PROVE  /\ s.raw[d] = Cardinality({ q \in RawIn(G, d) : q \notin s.committed \ {} })
                      /\ s.war[d] = Cardinality({ q \in WarIn(G, d) : q \notin s.committed })
                      /\ s.pending[d] = Cardinality({ q \in RawIn(G, d) : q \in {} })
    BY DEF CountersOf
  <2>1. s.raw[d] = Cardinality({ q \in RawIn(G, d) : q \notin s.committed \ {} })
    <3>1. s.raw[d] = Cardinality(RawIn(G, d))
      BY <1>2
    <3>2. { q \in RawIn(G, d) : q \notin s.committed \ {} } = RawIn(G, d)
      BY <1>2
    <3> QED
      BY <3>1, <3>2
  <2>2. s.war[d] = Cardinality({ q \in WarIn(G, d) : q \notin s.committed })
    <3>1. s.war[d] = Cardinality(WarIn(G, d))
      BY <1>2
    <3>2. { q \in WarIn(G, d) : q \notin s.committed } = WarIn(G, d)
      BY <1>2
    <3> QED
      BY <3>1, <3>2
  <2>3. s.pending[d] = Cardinality({ q \in RawIn(G, d) : q \in {} })
    BY <1>1, <1>2, FS_EmptySet
  <2> QED
    BY <2>1, <2>2, <2>3
<1>6. FrontierOf(G, s, {})
  BY <1>2, <1>4, <1>5, ZeroCounters DEF FrontierOf
<1>7. ClosedBelow(G, s, {})
  BY <1>2 DEF ClosedBelow
<1> QED
  BY <1>4, <1>5, <1>6, <1>7 DEF PointOK, s

-----------------------------------------------------------------------------
Point == [dag : State, inFlight : SUBSET Node]

\* The initial states satisfy the inductive invariant.
LEMMA InitDagInv == HInit => DagInv
<1> SUFFICES ASSUME HInit PROVE DagInv
  OBVIOUS
<1>1. graph \in Graphs
  BY DEF HInit, Init
<1>2. live = Fresh(graph)
  BY DEF HInit, Init, live, Fresh
<1>3. live \in State /\ PointOK(graph, [dag |-> live, inFlight |-> {}])
  BY <1>1, <1>2, FreshPoint
<1>4. inFlight = {} /\ past = <<>> /\ log = <<>> /\ recording = FALSE /\ target = Idle
  BY DEF HInit, Init
<1>5. TypeOK
  <2>1. \A S : <<>> \in Seq(S)
    OBVIOUS
  <2>2. log \in Seq(Entry) /\ past \in Seq([dag : State, inFlight : SUBSET Node])
    BY <1>4, <2>1, Zenon
  <2> QED
    BY <1>1, <1>3, <1>4, <2>2 DEF TypeOK
<1>6. Len(past) = 0 /\ Len(log) = 0
  BY <1>4
<1>7. UndoExact
  BY <1>4, <1>6 DEF UndoExact
<1>8. PointOK(graph, now)
  BY <1>3, <1>4 DEF now
<1> QED
  BY <1>4, <1>5, <1>6, <1>7, <1>8 DEF DagInv

\* A recorded (or unrecorded) mutation that leads to a good point and is
\* undone by its entry preserves the invariant.
LEMMA RecordedStep ==
  ASSUME DagInv, target = Idle,
         UNCHANGED <<graph, recording, target>>,
         NEW e \in Entry,
         live' \in State, inFlight' \in SUBSET Node,
         PointOK(graph, [dag |-> live', inFlight |-> inFlight']),
         Undo(live', e) = live,
         Record(e), Note
  PROVE  DagInv'
<1>1. /\ log \in Seq(Entry) /\ past \in Seq(Point) /\ Len(past) = Len(log)
      /\ now \in Point /\ now = [dag |-> live, inFlight |-> inFlight]
      /\ PointOK(graph, now)
      /\ \A k \in 1 .. Len(past) : PointOK(graph, past[k])
      /\ recording \in BOOLEAN /\ graph \in Graphs
  BY DEF DagInv, TypeOK, UndoExact, now, Point
<1>2. now' = [dag |-> live', inFlight |-> inFlight'] /\ now' \in Point
  BY DEF now, Point
<1>3. PointOK(graph', now')
  BY <1>2
<1>4. CASE ~recording
  <2>1. log' = log /\ past' = past /\ log = <<>>
    BY <1>4 DEF Record, Note, DagInv, UndoExact
  <2>2. TypeOK'
    BY <1>1, <2>1 DEF DagInv, TypeOK
  <2>3. UndoExact'
    BY <1>1, <2>1, <1>4 DEF UndoExact
  <2> QED
    BY <1>1, <1>3, <2>1, <2>2, <2>3 DEF DagInv
<1>5. CASE recording
  <2>1. log' = Append(log, e) /\ past' = Append(past, now)
    BY <1>5 DEF Record, Note
  <2>2. /\ log' \in Seq(Entry) /\ past' \in Seq(Point)
        /\ Len(log') = Len(log) + 1 /\ Len(past') = Len(past) + 1
        /\ \A k \in 1 .. Len(log) : log'[k] = log[k] /\ past'[k] = past[k]
        /\ log'[Len(log) + 1] = e /\ past'[Len(log) + 1] = now
    BY <1>1, <2>1
  <2>3. TypeOK'
    BY <1>1, <2>2 DEF DagInv, TypeOK, Point, Idle
  <2>4. \A k \in 1 .. Len(past') : PointOK(graph', past'[k])
    <3> SUFFICES ASSUME NEW k \in 1 .. Len(past')
                 PROVE  PointOK(graph, past'[k])
      OBVIOUS
    <3>1. CASE k \in 1 .. Len(past)
      BY <1>1, <2>2, <3>1
    <3>2. CASE k = Len(past) + 1
      BY <1>1, <2>2, <3>2
    <3> QED
      BY <1>1, <2>2, <3>1, <3>2
  <2>5. UndoExact'
    <3>1. ASSUME NEW k \in 1 .. Len(log')
          PROVE  Undo(IF k = Len(log') THEN live' ELSE past'[k + 1].dag, log'[k]) = past'[k].dag
      <4>1. CASE k = Len(log')
        <5>1. log'[k] = e /\ past'[k] = now
          BY <1>1, <2>2, <4>1
        <5> QED
          BY <1>1, <4>1, <5>1
      <4>2. CASE k = Len(log)
        <5>1. k \in 1 .. Len(log) /\ k # Len(log') /\ past'[k + 1] = now /\ now.dag = live
          BY <1>1, <2>2, <4>2
        <5>2. Undo(live, log[k]) = past[k].dag
          BY <4>2, <5>1 DEF DagInv, UndoExact
        <5> QED
          BY <2>2, <5>1, <5>2
      <4>3. CASE k < Len(log)
        <5>1. /\ k \in 1 .. Len(log) /\ k + 1 \in 1 .. Len(log)
              /\ k # Len(log) /\ k # Len(log')
          BY <1>1, <2>2, <4>3
        <5>2. Undo(past[k + 1].dag, log[k]) = past[k].dag
          BY <5>1 DEF DagInv, UndoExact
        <5> QED
          BY <2>2, <5>1, <5>2
      <4> QED
        BY <1>1, <2>2, <4>1, <4>2, <4>3
    <3> QED
      BY <1>1, <1>5, <2>2, <3>1 DEF UndoExact
  <2> QED
    BY <1>3, <1>5, <2>3, <2>4, <2>5 DEF DagInv
<1> QED
  BY <1>1, <1>4, <1>5

\* Every step preserves the inductive invariant.
LEMMA NextDagInv == DagInv /\ [HNext]_vars => DagInv'
<1> SUFFICES ASSUME DagInv, [HNext]_vars PROVE DagInv'
  OBVIOUS
<1>0. /\ graph \in Graphs /\ live \in State /\ inFlight \in SUBSET Node
      /\ PointOK(graph, [dag |-> live, inFlight |-> inFlight])
      /\ log \in Seq(Entry) /\ past \in Seq(Point) /\ Len(past) = Len(log)
      /\ target \in {Idle} \cup 0 .. Len(log) /\ recording \in BOOLEAN
  BY DEF DagInv, TypeOK, UndoExact, now, Point
<1>1. ASSUME NEW i \in Node, HCommit(i)
      PROVE  DagInv'
  <2> DEFINE e == CommitEntry(graph, live, i)
             g == IF HasReader(graph, i) THEN inFlight \cup {i} ELSE inFlight
  <2>1. i \in live.frontier /\ live' = Do(live, e)
    BY <1>1 DEF HCommit, Commit, Become, live, Do
  <2>2. /\ e \in Entry /\ Do(live, e) \in State /\ g \in SUBSET Node
        /\ PointOK(graph, [dag |-> Do(live, e), inFlight |-> g])
        /\ Undo(Do(live, e), e) = live
    BY <1>0, <2>1, CommitPoint
  <2>3. inFlight' = g /\ Record(e) /\ Note /\ target = Idle /\ UNCHANGED <<graph, recording, target>>
    BY <1>1 DEF HCommit, Commit
  <2> HIDE DEF e, g
  <2> QED
    BY <2>1, <2>2, <2>3, RecordedStep
<1>2. CASE HAdvance
  <2> DEFINE e == AdvanceEntry(live)
  <2>1. live' = Do(live, e)
    BY <1>2 DEF HAdvance, Advance, Become, live, Do
  <2>2. /\ e \in Entry /\ Do(live, e) \in State
        /\ PointOK(graph, [dag |-> Do(live, e), inFlight |-> {}])
        /\ Undo(Do(live, e), e) = live
    BY <1>0, AdvancePoint
  <2>3. inFlight' = {} /\ Record(e) /\ Note /\ target = Idle /\ UNCHANGED <<graph, recording, target>>
    BY <1>2 DEF HAdvance, Advance
  <2> HIDE DEF e
  <2> QED
    BY <2>1, <2>2, <2>3, RecordedStep
<1>3. CASE HCheckpoint
  <2>1. live' = live /\ now' = now /\ UNCHANGED <<graph, log, past, target, inFlight>> /\ recording' = TRUE
    BY <1>3 DEF HCheckpoint, Checkpoint, live, now
  <2>2. TypeOK'
    BY <2>1 DEF DagInv, TypeOK
  <2>3. UndoExact'
    BY <2>1 DEF DagInv, UndoExact
  <2> QED
    BY <2>1, <2>2, <2>3 DEF DagInv
<1>4. ASSUME NEW token \in 0 .. Len(log), HRollback(token)
      PROVE  DagInv'
  <2>1. /\ live' = live /\ now' = now /\ UNCHANGED <<graph, log, past, recording, inFlight>>
        /\ target' = token /\ recording
    BY <1>4 DEF HRollback, Rollback, live, now
  <2>2. TypeOK'
    BY <2>1 DEF DagInv, TypeOK
  <2>3. UndoExact'
    BY <2>1 DEF DagInv, UndoExact
  <2> QED
    BY <2>1, <2>2, <2>3 DEF DagInv
<1>5. CASE HPopEntry
  <2> DEFINE n == Len(log)
  <2>1. /\ n \in Nat /\ n > target /\ target \in 0 .. n /\ target # Idle /\ n > 0
    BY <1>0, <1>5 DEF HPopEntry, PopEntry, Idle
  <2>2. live' = Undo(live, log[n])
    BY <1>5 DEF HPopEntry, PopEntry, Become, live, Undo
  <2>3. /\ inFlight' = past[n].inFlight /\ past' = SubSeq(past, 1, n - 1)
        /\ log' = SubSeq(log, 1, n - 1) /\ UNCHANGED <<graph, recording, target>>
    BY <1>0, <1>5 DEF HPopEntry, PopEntry
  <2>4. past[n] \in Point /\ live' = past[n].dag /\ now' = past[n]
    <3>1. past[n] \in Point
      BY <1>0, <2>1
    <3>2. live' = past[n].dag
      BY <2>1, <2>2 DEF DagInv, UndoExact
    <3>3. now' = [dag |-> live', inFlight |-> inFlight']
      BY DEF now
    <3> QED
      BY <3>1, <3>2, <3>3, <2>3 DEF Point
  <2>5. PointOK(graph', now')
    BY <1>0, <2>1, <2>3, <2>4 DEF DagInv
  <2>6. /\ log' \in Seq(Entry) /\ past' \in Seq(Point) /\ Len(log') = n - 1 /\ Len(past') = n - 1
        /\ \A k \in 1 .. n - 1 : log'[k] = log[k] /\ past'[k] = past[k]
    BY <1>0, <2>1, <2>3
  <2>7. TypeOK'
    BY <1>0, <2>1, <2>3, <2>4, <2>6 DEF TypeOK, Point
  <2>8. \A k \in 1 .. Len(past') : PointOK(graph', past'[k])
    BY <1>0, <2>1, <2>3, <2>6 DEF DagInv
  <2>9. UndoExact'
    <3>1. ASSUME NEW k \in 1 .. Len(log')
          PROVE  Undo(IF k = Len(log') THEN live' ELSE past'[k + 1].dag, log'[k]) = past'[k].dag
      <4>1. k \in 1 .. Len(log) /\ k # Len(log)
        BY <2>1, <2>6
      <4>2. Undo(past[k + 1].dag, log[k]) = past[k].dag
        BY <4>1 DEF DagInv, UndoExact
      <4>3. CASE k = Len(log')
        <5>1. live' = past[k + 1].dag
          BY <2>1, <2>4, <2>6, <4>3
        <5> QED
          BY <2>6, <4>2, <4>3, <5>1
      <4>4. CASE k # Len(log')
        <5>1. k + 1 \in 1 .. n - 1
          BY <2>1, <2>6, <4>4
        <5> QED
          BY <2>6, <4>2, <4>4, <5>1
      <4> QED
        BY <4>3, <4>4
    <3>2. recording'
      BY <2>1, <2>3 DEF DagInv
    <3> QED
      BY <2>6, <3>1, <3>2 DEF UndoExact
  <2> QED
    BY <2>1, <2>3, <2>5, <2>7, <2>8, <2>9 DEF DagInv
<1>6. CASE HRollbackDone
  <2>1. /\ live' = live /\ now' = now /\ UNCHANGED <<graph, log, past, inFlight>>
        /\ target' = Idle /\ recording' = (target # 0) /\ Len(log) <= target /\ target # Idle
    BY <1>6 DEF HRollbackDone, RollbackDone, live, now
  <2>2. TypeOK'
    BY <2>1 DEF DagInv, TypeOK
  <2>3. UndoExact'
    <3>1. ASSUME ~recording' PROVE log = <<>>
      <4>1. target = 0
        BY <2>1, <3>1, Zenon
      <4>2. Len(log) \in Nat /\ Len(log) <= target
        BY <1>0, <2>1
      <4>3. Len(log) = 0
        BY <4>1, <4>2
      <4> QED
        BY <1>0, <4>3, EmptySeq
    <3> QED
      BY <2>1, <3>1 DEF DagInv, UndoExact
  <2> QED
    BY <2>1, <2>2, <2>3 DEF DagInv
<1>7. CASE HReset
  <2>1. /\ ~recording /\ UNCHANGED <<graph, recording, log, target, past>> /\ inFlight' = {}
        /\ live' = Fresh(graph)
    BY <1>7 DEF HReset, Reset, Become, live, Fresh
  <2>2. log = <<>> /\ Len(log) = 0
    BY <2>1 DEF DagInv, UndoExact
  <2>3. live' \in State /\ PointOK(graph, [dag |-> live', inFlight |-> {}])
    BY <1>0, <2>1, FreshPoint
  <2>4. TypeOK'
    BY <2>1, <2>3 DEF DagInv, TypeOK
  <2>5. now' = [dag |-> live', inFlight |-> {}]
    BY <2>1 DEF now
  <2>6. UndoExact'
    BY <1>0, <2>1, <2>2 DEF UndoExact
  <2> QED
    BY <2>1, <2>3, <2>4, <2>5, <2>6 DEF DagInv
<1>8. CASE UNCHANGED vars
  <2>1. live' = live /\ now' = now /\ UNCHANGED <<graph, log, past, target, inFlight, recording>>
    BY <1>8 DEF vars, live, now
  <2> QED
    BY <2>1 DEF DagInv, TypeOK, UndoExact
<1> QED
  BY <1>1, <1>2, <1>3, <1>4, <1>5, <1>6, <1>7, <1>8 DEF HNext

-----------------------------------------------------------------------------
\* The inductive invariant holds in every reachable state.
THEOREM DagInvariant == HSpec => []DagInv
<1>1. HInit => DagInv
  BY InitDagInv
<1>2. DagInv /\ [HNext]_vars => DagInv'
  BY NextDagInv
<1> QED
  BY <1>1, <1>2, PTL DEF HSpec

\* Every variable keeps its type; in particular no counter goes negative,
\* whatever is committed, advanced, tried and rolled back.
THEOREM DagTypeCorrect == HSpec => []TypeOK
<1>1. DagInv => TypeOK
  BY DEF DagInv
<1> QED
  BY <1>1, DagInvariant, PTL

\* The incremental blocker counters of commit(), advance() and rollback()
\* always equal a recount over the edges.
THEOREM DagCountersExact == HSpec => []CountersExact
<1>1. DagInv => CountersExact
  BY DEF DagInv, PointOK, now, CountersExact
<1> QED
  BY <1>1, DagInvariant, PTL

\* ready() is exactly the set of nodes that may be placed now.
THEOREM DagFrontierExact == HSpec => []FrontierExact
<1>1. DagInv => FrontierExact
  BY DEF DagInv, PointOK, now, FrontierExact
<1> QED
  BY <1>1, DagInvariant, PTL

\* rollback() to any token goes back through exactly the states the trial
\* came from, for a trial of any length.
THEOREM DagUndoExact == HSpec => []UndoExact
<1>1. DagInv => UndoExact
  BY DEF DagInv
<1> QED
  BY <1>1, DagInvariant, PTL

\* A nonempty set of nodes has a first one in program order.
LEMMA FirstNode ==
  ASSUME NEW S \in SUBSET Node, S # {}
  PROVE  \E m \in S : \A k \in S : m <= k
<1>1. S \subseteq Nat
  BY NodeAssumption
<1>2. PICK m \in S : \A k \in S : ~ (<<k, m>> \in OpToRel(<, Nat))
  BY <1>1, NatLessThanWellFounded, WFMin
<1>3. \A k \in S : ~ (k < m)
  BY <1>1, <1>2 DEF OpToRel
<1> QED
  BY <1>1, <1>3

\* When nothing is in flight, the first node not yet placed is ready.
LEMMA FirstIsReady ==
  ASSUME DagInv
  PROVE  NeverStarved
<1> SUFFICES ASSUME target = Idle, committed # Node, \A d \in Node : pending[d] = 0
             PROVE  frontier # {}
  BY DEF NeverStarved
<1>1. /\ graph \in Graphs /\ live \in State /\ inFlight \in SUBSET Node
      /\ CountersOf(graph, live, inFlight) /\ FrontierOf(graph, live, inFlight)
      /\ ClosedBelow(graph, live, inFlight)
      /\ live.pending = pending /\ live.committed = committed /\ live.frontier = frontier
      /\ committed \in SUBSET Node
  BY DEF DagInv, TypeOK, PointOK, now, live, State
<1>2. inFlight = {}
  <2> SUFFICES ASSUME NEW i \in inFlight PROVE FALSE
    OBVIOUS
  <2>1. PICK d \in Node : d \in RawOut(graph, i)
    BY <1>1 DEF ClosedBelow, HasReader, RawOut
  <2>2. i \in RawIn(graph, d)
    BY <1>1, <2>1, EdgesForward
  <2>3. RawIn(graph, d) \cap inFlight = {}
    BY <1>1, ZeroCounters
  <2> QED
    BY <2>2, <2>3
<1>3. PICK m \in Node \ committed : \A k \in Node \ committed : m <= k
  BY <1>1, FirstNode
<1>4. \A k \in Node : k < m => k \in committed
  BY <1>3, NodeAssumption
<1>5. RawIn(graph, m) \subseteq committed /\ WarIn(graph, m) \subseteq committed
  <2>1. \A k \in RawIn(graph, m) \cup WarIn(graph, m) : k \in Node /\ k < m
    BY <1>1, <1>3, EdgesForward DEF RawIn, WarIn
  <2> QED
    BY <1>4, <2>1
<1> QED
  BY <1>1, <1>2, <1>3, <1>5 DEF FrontierOf

\* "frontier empty with ... uncommitted nodes" is unreachable.
THEOREM DagNeverStarved == HSpec => []NeverStarved
<1>1. DagInv => NeverStarved
  BY FirstIsReady
<1> QED
  BY <1>1, DagInvariant, PTL

-----------------------------------------------------------------------------
\* What the history of the log looks like to IssueOrder.
Trail == [k \in 1 .. Len(past) |->
            [done |-> past[k].dag.committed, inFlight |-> past[k].inFlight]]

\* Noting a step lengthens the trail by the point it left.
LEMMA TrailAfterNote ==
  ASSUME past \in Seq(Point), recording \in BOOLEAN, Note
  PROVE  Trail' = IF recording
                  THEN Append(Trail, [done |-> committed, inFlight |-> inFlight])
                  ELSE Trail
<1>1. CASE recording
  <2>1. past' = Append(past, now)
    BY <1>1 DEF Note
  <2>2. /\ Len(past') = Len(past) + 1 /\ Len(past) \in Nat
        /\ \A k \in 1 .. Len(past) : past'[k] = past[k]
        /\ past'[Len(past) + 1] = now
    BY <2>1
  <2>3. now.dag.committed = committed /\ now.inFlight = inFlight
    BY DEF now, live
  <2>4. Trail' = [k \in 1 .. Len(past) + 1 |->
                    [done |-> past'[k].dag.committed, inFlight |-> past'[k].inFlight]]
    BY <2>2 DEF Trail
  <2>5. Append(Trail, [done |-> committed, inFlight |-> inFlight])
        = [k \in 1 .. Len(past) + 1 |->
             IF k = Len(past) + 1 THEN [done |-> committed, inFlight |-> inFlight] ELSE Trail[k]]
    BY <2>2 DEF Trail
  <2>6. \A k \in 1 .. Len(past) + 1 :
          [done |-> past'[k].dag.committed, inFlight |-> past'[k].inFlight]
          = IF k = Len(past) + 1 THEN [done |-> committed, inFlight |-> inFlight] ELSE Trail[k]
    BY <2>2, <2>3 DEF Trail
  <2> QED
    BY <1>1, <2>4, <2>5, <2>6
<1>2. CASE ~recording
  BY <1>2 DEF Note, Trail
<1> QED
  BY <1>1, <1>2

\* Every step of the graph is a step of IssueOrder, or none.
LEMMA NextIssueOrder ==
  DagInv /\ [HNext]_vars => [Order!Next]_(Order!orderVars)
<1> SUFFICES ASSUME DagInv, [HNext]_vars PROVE [Order!Next]_(Order!orderVars)
  OBVIOUS
<1>0. /\ graph \in Graphs /\ live \in State /\ inFlight \in SUBSET Node
      /\ CountersOf(graph, live, inFlight) /\ FrontierOf(graph, live, inFlight)
      /\ ClosedBelow(graph, live, inFlight)
      /\ past \in Seq(Point) /\ Len(past) = Len(log)
      /\ target \in {Idle} \cup 0 .. Len(log) /\ recording \in BOOLEAN
      /\ live.pending = pending /\ live.committed = committed /\ live.frontier = frontier
  BY DEF DagInv, TypeOK, UndoExact, PointOK, now, Point, live
<1>1. ASSUME NEW i \in Node, HCommit(i)
      PROVE  Order!Issue(i)
  <2>1. /\ i \in frontier /\ committed' = committed \cup {i}
        /\ inFlight' = (IF HasReader(graph, i) THEN inFlight \cup {i} ELSE inFlight)
        /\ Note /\ UNCHANGED <<graph, recording>>
    BY <1>1 DEF HCommit, Commit, Become, Do, CommitEntry, live
  <2>2. /\ i \notin committed /\ RawIn(graph, i) \subseteq committed \ inFlight
        /\ WarIn(graph, i) \subseteq committed
    BY <1>0, <2>1 DEF FrontierOf
  <2>3. Order!Ready(i)
    BY <1>1, <2>2 DEF Order!Ready, RawIn, WarIn
  <2>4. Order!HasReader(i) <=> HasReader(graph, i)
    BY DEF Order!HasReader, HasReader, RawOut
  <2>5. Order!Leave
    BY <1>0, <2>1, TrailAfterNote DEF Order!Leave, Order!point, Trail
  <2> QED
    BY <2>1, <2>3, <2>4, <2>5 DEF Order!Issue
<1>2. CASE HAdvance
  <2>1. /\ committed' = committed /\ inFlight' = {} /\ Note /\ UNCHANGED <<graph, recording>>
        /\ \E d \in Node : pending[d] > 0
    BY <1>2 DEF HAdvance, Advance, Become, Do, AdvanceEntry, live
  <2>2. inFlight # {}
    <3>1. PICK d \in Node : pending[d] > 0
      BY <2>1
    <3> QED
      BY <1>0, <3>1, ZeroCounters
  <2>3. Order!Leave
    BY <1>0, <2>1, TrailAfterNote DEF Order!Leave, Order!point, Trail
  <2> QED
    BY <2>1, <2>2, <2>3 DEF Order!NextCycle, Order!Next
<1>3. CASE HCheckpoint
  BY <1>3 DEF HCheckpoint, Checkpoint, Order!Open, Order!Next
<1>4. ASSUME NEW token \in 0 .. Len(log), HRollback(token)
      PROVE  UNCHANGED Order!orderVars
  BY <1>4 DEF HRollback, Rollback, Order!orderVars
<1>5. CASE HPopEntry
  <2> DEFINE n == Len(log)
  <2>1. n \in Nat /\ n > 0 /\ n = Len(past) /\ n \in 1 .. n
    BY <1>0, <1>5 DEF HPopEntry, PopEntry, Idle
  <2>2. live' = Undo(live, log[n])
    BY <1>5 DEF HPopEntry, PopEntry, Become, live, Undo
  <2>3. live' = past[n].dag
    BY <2>1, <2>2 DEF DagInv, UndoExact
  <2>4. committed' = past[n].dag.committed
    <3>1. live'.committed = committed'
      BY DEF live
    <3> QED
      BY <2>3, <3>1
  <2>5. /\ inFlight' = past[n].inFlight /\ past' = SubSeq(past, 1, n - 1)
        /\ UNCHANGED <<graph, recording>>
    BY <1>0, <1>5 DEF HPopEntry, PopEntry
  <2>6. Len(Trail) = n /\ Trail # <<>>
    BY <2>1 DEF Trail
  <2>7. Trail[n].done = committed' /\ Trail[n].inFlight = inFlight'
    BY <2>1, <2>4, <2>5 DEF Trail
  <2>8. Trail' = SubSeq(Trail, 1, n - 1)
    <3>1. Len(past') = n - 1 /\ \A k \in 1 .. n - 1 : past'[k] = past[k]
      BY <1>0, <2>1, <2>5
    <3>2. Trail' = [k \in 1 .. n - 1 |->
                      [done |-> past[k].dag.committed, inFlight |-> past[k].inFlight]]
      BY <3>1 DEF Trail
    <3>3. SubSeq(Trail, 1, n - 1) = [k \in 1 .. n - 1 |-> Trail[k]]
      BY <2>1
    <3>4. \A k \in 1 .. n - 1 :
            Trail[k] = [done |-> past[k].dag.committed, inFlight |-> past[k].inFlight]
      BY <2>1 DEF Trail
    <3> QED
      BY <3>2, <3>3, <3>4
  <2>9. Order!StepBack
    BY <2>5, <2>6, <2>7, <2>8 DEF Order!StepBack, Trail
  <2> QED
    BY <2>9 DEF Order!Next
<1>6. CASE HRollbackDone
  <2>1. /\ recording' = (target # 0) /\ Len(log) <= target /\ target # Idle /\ recording
        /\ UNCHANGED <<graph, committed, inFlight, past>>
    BY <1>6 DEF HRollbackDone, RollbackDone, DagInv
  <2>2. CASE target = 0
    <3>1. Len(past) = 0
      BY <1>0, <2>1, <2>2
    <3>2. Trail = <<>>
      BY <3>1 DEF Trail
    <3> QED
      BY <2>1, <2>2, <3>2 DEF Order!Close, Order!Next, Trail
  <2>3. CASE target # 0
    BY <2>1, <2>3 DEF Order!orderVars
  <2> QED
    BY <2>2, <2>3
<1>7. CASE HReset
  BY <1>7 DEF HReset, Reset, Become, Fresh, Order!Restart, Order!Next
<1>8. CASE UNCHANGED vars
  BY <1>8 DEF vars, Order!orderVars
<1> QED
  BY <1>1, <1>2, <1>3, <1>4, <1>5, <1>6, <1>7, <1>8 DEF HNext, Order!Next

\* The graph with its counters, frontier and undo log implements IssueOrder:
\* nothing is issued before its operands are visible, and a rolled-back trial
\* leaves no trace.
THEOREM DagImplementsIssueOrder == HSpec => ImplementsIssueOrder
<1>1. HInit => Order!Init
  BY DEF HInit, Init, Fresh, Order!Init
<1>2. DagInv /\ [HNext]_vars => [Order!Next]_(Order!orderVars)
  BY NextIssueOrder
<1> QED
  BY <1>1, <1>2, DagInvariant, PTL DEF HSpec, ImplementsIssueOrder, Order!Spec
=============================================================================
