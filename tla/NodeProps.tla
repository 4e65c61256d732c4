----------------------------- MODULE NodeProps ------------------------------
(***************************************************************************)
(* The static properties _compute_props gives each node of a graph, by     *)
(* which the pickers order the ready nodes: the distance to a sink, the    *)
(* distance to the next load and the sink group.  from_nodes() computes    *)
(* them before anything is placed.  The count of dependents, and the       *)
(* division of each property by its maximum, are left out.  The passes     *)
(* over the nodes are recursive functions on their indices.                *)
(***************************************************************************)
EXTENDS DepDag, FiniteSetsExt, SequencesExt

CONSTANT Engine    \* engines of nodes; debug nodes write nothing

NO_LOAD == -1

\* The engines the nodes of the graph may have.
Engines == { e \in [Node -> Engine] : \A n \in Node : e[n] = "debug" => RawOut(graph, n) = {} }

-----------------------------------------------------------------------------
Weighted == { <<e[1], e[2], 1>> : e \in graph.raw } \cup { <<e[1], e[2], 0>> : e \in graph.war }
OutEdges(n) == { e \in Weighted : e[1] = n }
InEdges(n) == { e \in Weighted : e[2] = n }

\* Nodes are visited last to first: every edge leads to a later node.
DistToSink ==
  LET d[n \in Node] == Max({0} \cup { e[3] + d[e[2]] : e \in OutEdges(n) })
  IN  d

\* Mutant: a load downstream of a load is what counts, not the load itself.
DistToLoadThrough(engine) ==
  LET d[n \in Node] ==
        LET below == { e[3] + d[e[2]] : e \in { f \in OutEdges(n) : d[f[2]] # NO_LOAD } }
        IN  IF below # {} THEN Min(below)
            ELSE IF engine[n] = "load" THEN 0 ELSE NO_LOAD
  IN  d

DistToLoad(engine) ==
  LET d[n \in Node] ==
        LET below == { e[3] + d[e[2]] : e \in { f \in OutEdges(n) : d[f[2]] # NO_LOAD } }
        IN  IF engine[n] = "load" THEN 0
            ELSE IF below = {} THEN NO_LOAD ELSE Min(below)
  IN  d

Depth ==
  LET d[n \in Node] == Max({0} \cup { d[e[1]] + e[3] : e \in InEdges(n) })
  IN  d

\* The anchors: sinks that are no debug nodes, shallow ones first.
Anchors(engine) ==
  LET depth == Depth
  IN  SetToSortSeq({ n \in Node : OutEdges(n) = {} /\ engine[n] # "debug" },
                   LAMBDA m, n : depth[m] < depth[n] \/ (depth[m] = depth[n] /\ m < n))

\* Mutant: of equally deep sinks the higher group wins.
DeeperHigh(best, c) ==
  IF c.group # 0 /\ (best.group = 0 \/ c.depth > best.depth
                     \/ (c.depth = best.depth /\ c.group > best.group))
  THEN c ELSE best

\* The sink a node inherits from a dependent: a deeper one, of equally deep
\* ones the lower group; ungrouped never wins.
Deeper(best, c) ==
  IF c.group # 0 /\ (best.group = 0 \/ c.depth > best.depth
                     \/ (c.depth = best.depth /\ c.group < best.group))
  THEN c ELSE best

BestSink(engine) ==
  LET anchors == Anchors(engine)
      depth   == Depth
      own(n)  == IF n \in Range(anchors)
                 THEN [depth |-> depth[n], group |-> CHOOSE g \in DOMAIN anchors : anchors[g] = n]
                 ELSE [depth |-> -1, group |-> 0]
      b[n \in Node] == FoldSet(LAMBDA e, best : Deeper(best, b[e[2]]), own(n), OutEdges(n))
  IN  b

-----------------------------------------------------------------------------
\* The weights of all paths from a node to each node it reaches.
Weights ==
  LET w[m \in Node] ==
        [n \in Node |-> (IF m = n THEN {0} ELSE {})
                        \cup UNION { { e[3] + x : x \in w[e[2]][n] } : e \in OutEdges(m) }]
  IN  w

\* When from_nodes() returns.
AtStart == committed = {} /\ ~recording

\* The two distances are what their names say, over all paths: the longest to
\* any sink, the shortest to any load, none when no load is reached.
DistancesOverPaths ==
  AtStart => \A engine \in Engines :
    LET w == Weights
        toSink == DistToSink
        toLoad == DistToLoad(engine)
    IN  \A m \in Node :
          /\ toSink[m] = Max(UNION { w[m][n] : n \in Node })
          /\ LET loads == UNION { w[m][n] : n \in { k \in Node : engine[k] = "load" } }
             IN  toLoad[m] = IF loads = {} THEN NO_LOAD ELSE Min(loads)

\* A group is a sink: each node belongs to the deepest sink it feeds, of
\* equally deep ones the first in program order, and to none if it feeds only
\* debug checks.  The reverse pass hands down pairs, not sinks; it must not
\* lose the deepest on the way.
GroupIsDeepestSink ==
  AtStart => \A engine \in Engines :
    LET w == Weights
        best == BestSink(engine)
        anchors == Anchors(engine)
        depth == [n \in Node |-> Max(UNION { w[m][n] : m \in Node })]
    IN  \A m \in Node :
          LET fed == { n \in Range(anchors) : w[m][n] # {} }
          IN  IF fed = {} THEN best[m].group = 0
              ELSE LET sink == anchors[best[m].group]
                   IN  /\ sink \in fed
                       /\ \A n \in fed : \/ depth[n] < depth[sink]
                                         \/ depth[n] = depth[sink] /\ sink <= n
=============================================================================
