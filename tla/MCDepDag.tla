------------------------------ MODULE MCDepDag ------------------------------
(* Every graph over N nodes with at most MaxEdges edges, RAW and WAR; two   *)
(* nodes may be joined by both.                                             *)
EXTENDS DepDagHistory, NodeProps

CONSTANTS N, MaxEdges

MCNode == 0 .. N - 1

Pairs == { e \in MCNode \X MCNode : e[1] < e[2] }

MCGraphs == { g \in [raw : SUBSET Pairs, war : SUBSET Pairs] :
                Cardinality(g.raw) + Cardinality(g.war) <= MaxEdges }
=============================================================================
