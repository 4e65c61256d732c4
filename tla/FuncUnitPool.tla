---------------------------- MODULE FuncUnitPool ----------------------------
(***************************************************************************)
(* The functional units of one cycle (FuncUnitPool of scheduler.py), the   *)
(* progress of each node across cycles (_Placement), and the undo log of   *)
(* that progress.  A cycle either emits slots into its bundle or is dry:   *)
(* it takes the same decisions and emits nothing.                          *)
(*                                                                         *)
(* The caller offers each unfinished node at most once per cycle, and lands*)
(* the lanes of a gather itself.  A slot is a node and the lane it         *)
(* computes, or All for an instruction emitted whole.                      *)
(***************************************************************************)
EXTENDS Integers, Sequences, FiniteSets, SequencesExt

CONSTANTS Node,      \* nodes to place
          Kind,      \* node -> its kind
          VLEN,      \* lanes of a vector
          Capacity,  \* engine -> slots in a cycle
          MaxTokens  \* bound: checkpoints the caller may hold at once

Engine == {"alu", "valu", "load", "store", "flow"}
Kinds == {"alu_scalar", "load", "gather", "store", "flow",
          "vec_fma", "vec_elem", "debug"}

ASSUME PoolAssumption ==
  /\ VLEN \in Nat \ {0}
  /\ Capacity \in [Engine -> Nat \ {0}]
  /\ Kind \in [Node -> Kinds]

VARIABLES
  free,       \* engine -> slots left this cycle
  bundle,     \* engine -> slots emitted this cycle
  valuElems,  \* elementwise nodes put on valu this cycle, and where
  offered,    \* nodes already offered this cycle
  dry,        \* this cycle decides without emitting
  lanesDone,  \* node -> lanes landed so far
  choice,     \* node -> engine it landed on, or NoEngine
  recording,  \* a placement checkpoint is open
  log,        \* undo log: field assignments with the old values
  tokens      \* tokens of the checkpoints the caller may still go back to

poolVars == <<free, bundle, valuElems, offered, dry, lanesDone, choice,
              recording, log, tokens>>

NoEngine == "none"
All == -1

\* _classify
LanesTotal(n) == CASE Kind[n] \in {"gather", "vec_elem"} -> VLEN
                   [] Kind[n] = "debug"                -> 0
                   [] OTHER                            -> 1
Native(n) == CASE Kind[n] = "alu_scalar"            -> "alu"
               [] Kind[n] \in {"load", "gather"}    -> "load"
               [] Kind[n] = "store"                 -> "store"
               [] Kind[n] = "flow"                  -> "flow"
               [] Kind[n] \in {"vec_fma", "vec_elem"} -> "valu"
               [] Kind[n] = "debug"                 -> "debug"

Slot(n, lane) == [node |-> n, lane |-> lane]

\* Mutants: one lane more than the slots paid for; a spill that starts over.
LanesOneMore(n, from, count) == [k \in 1 .. count + 1 |-> Slot(n, from + k - 1)]
LanesAgain(n, from, count) == [k \in 1 .. count |-> Slot(n, k - 1)]

\* The slots of some lanes of a node, in order.
Lanes(n, from, count) == [k \in 1 .. count |-> Slot(n, from + k - 1)]
Lesser(a, b) == IF a <= b THEN a ELSE b
Complete(n) == lanesDone[n] = LanesTotal(n)

NoSlots == [e \in Engine \cup {"debug"} |-> <<>>]

Init == /\ free = Capacity
        /\ bundle = NoSlots
        /\ valuElems = <<>>
        /\ offered = {}
        /\ dry = FALSE
        /\ lanesDone = [n \in Node |-> 0]
        /\ choice = [n \in Node |-> NoEngine]
        /\ recording = FALSE
        /\ log = <<>>
        /\ tokens = {}

Emit(e, slots) == bundle' = IF dry THEN bundle ELSE [bundle EXCEPT ![e] = @ \o slots]

\* _Placement.__setattr__: each assignment logs the value it replaces.
OldLanes(n) == [node |-> n, field |-> "lanes_done", lanes |-> lanesDone[n]]
OldChoice(n) == [node |-> n, field |-> "engine_choice", engine |-> choice[n]]
Record(entries) == log' = IF recording THEN log \o entries ELSE log

\* Assign lanes_done, then engine_choice.
Land(n, lanes, engine) ==
  /\ lanesDone' = [lanesDone EXCEPT ![n] = lanes]
  /\ choice' = [choice EXCEPT ![n] = engine]

Offer(n) == /\ n \notin offered
            /\ Kind[n] = "debug" \/ ~Complete(n)
            /\ offered' = offered \cup {n}
            /\ UNCHANGED <<dry, recording, tokens>>

Refused == UNCHANGED <<free, bundle, valuElems, lanesDone, choice, log>>

-----------------------------------------------------------------------------
\* An elementwise vector node not begun takes a valu slot when one is free.
PlaceOnValu(n) ==
  /\ Kind[n] = "vec_elem" /\ lanesDone[n] = 0
  /\ free["valu"] > 0
  /\ free' = [free EXCEPT !["valu"] = @ - 1]
  /\ Emit("valu", <<Slot(n, All)>>)
  /\ valuElems' = Append(valuElems, [node |-> n,
                     idx |-> IF dry THEN -1 ELSE Len(bundle["valu"]) + 1])
  /\ Land(n, VLEN, "valu")
  /\ Record(<<OldLanes(n), OldChoice(n)>>)

\* _spill_alu: as many lanes as fit on the alu; once begun there, a node
\* stays there.
Spill(n) ==
  /\ Kind[n] = "vec_elem"
  /\ lanesDone[n] > 0 \/ free["valu"] = 0
  /\ LET take == Lesser(VLEN - lanesDone[n], free["alu"])
     IN  \/ take = 0 /\ Refused
         \/ /\ take > 0
            /\ free' = [free EXCEPT !["alu"] = @ - take]
            /\ Emit("alu", Lanes(n, lanesDone[n], take))
            /\ Land(n, lanesDone[n] + take, "alu")
            /\ Record(<<OldLanes(n), OldChoice(n)>>)
            /\ UNCHANGED valuElems

\* A debug node rides along: it takes no slot and lands no lane.
PlaceDebug(n) ==
  /\ Kind[n] = "debug"
  /\ Emit("debug", <<Slot(n, All)>>)
  /\ UNCHANGED <<free, valuElems, lanesDone, choice, log>>

\* A node that is emitted in one slot or not at all.
Whole(n) == Kind[n] \notin {"vec_elem", "gather", "debug"}

\* It takes one slot of its engine.
PlaceWhole(n) ==
  /\ Whole(n)
  /\ LET e == Native(n)
     IN  /\ free[e] > 0
         /\ free' = [free EXCEPT ![e] = @ - 1]
         /\ Emit(e, <<Slot(n, All)>>)
         /\ Land(n, 1, e)
         /\ Record(<<OldLanes(n), OldChoice(n)>>)
         /\ UNCHANGED valuElems

\* Mutants: no eviction in a dry cycle; the victim is the node placed first.
CanEvictEmitting == ~dry /\ valuElems # <<>> /\ free["alu"] >= VLEN
FirstPlaced == 1

CanEvict == valuElems # <<>> /\ free["alu"] >= VLEN
LastPlaced == Len(valuElems)
Victim == valuElems[LastPlaced]

\* _swap_elem_to_alu: a fused multiply-add that finds the valu full moves the
\* elementwise node placed there last down to the alu, and takes its slot.
PlaceByEviction(n) ==
  /\ Kind[n] = "vec_fma"
  /\ free["valu"] = 0
  /\ CanEvict
  /\ LET valu == RemoveAt(bundle["valu"], Victim.idx)
     IN  /\ bundle' = IF dry THEN bundle
                      ELSE [bundle EXCEPT !["valu"] = Append(valu, Slot(n, All)),
                                          !["alu"] = @ \o Lanes(Victim.node, 0, VLEN)]
         /\ choice' = [choice EXCEPT ![Victim.node] = "alu", ![n] = "valu"]
         /\ Record(<<OldChoice(Victim.node), OldLanes(n), OldChoice(n)>>)
  /\ valuElems' = RemoveAt(valuElems, LastPlaced)
  /\ free' = [free EXCEPT !["alu"] = @ - VLEN]
  /\ lanesDone' = [lanesDone EXCEPT ![n] = 1]

RefuseWhole(n) ==
  /\ Whole(n)
  /\ free[Native(n)] = 0
  /\ ~ (Kind[n] = "vec_fma" /\ CanEvict)
  /\ Refused

\* The caller lands the loads of a gather in the slots that are free.
PlaceGather(n) ==
  /\ Kind[n] = "gather"
  /\ LET take == Lesser(VLEN - lanesDone[n], free["load"])
     IN  \/ take = 0 /\ Refused
         \/ /\ take > 0
            /\ free' = [free EXCEPT !["load"] = @ - take]
            /\ Emit("load", Lanes(n, lanesDone[n], take))
            /\ lanesDone' = [lanesDone EXCEPT ![n] = @ + take]
            /\ Record(<<OldLanes(n)>>)
            /\ UNCHANGED <<valuElems, choice>>

Place(n) == /\ Offer(n)
            /\ \/ PlaceOnValu(n)
               \/ Spill(n)
               \/ PlaceWhole(n)
               \/ PlaceByEviction(n)
               \/ RefuseWhole(n)
               \/ PlaceGather(n)
               \/ PlaceDebug(n)

\* reset(), at the start of a cycle that emits (d = FALSE) or not.  A cycle
\* is dry exactly when it is tried out, under an open checkpoint.
NewCycle(d) ==
  /\ d = recording
  /\ free' = Capacity
  /\ bundle' = NoSlots
  /\ valuElems' = <<>>
  /\ offered' = {}
  /\ dry' = d
  /\ UNCHANGED <<lanesDone, choice, recording, log, tokens>>

\* checkpoint(), just before the reset() that starts a tried-out cycle.
Checkpoint ==
  /\ Cardinality(tokens) < MaxTokens
  /\ recording' = TRUE
  /\ tokens' = tokens \cup {Len(log)}
  /\ offered' = Node
  /\ UNCHANGED <<free, bundle, valuElems, dry, lanesDone, choice, log>>

\* The entries since a token that hold old values of a field of a node.
Since(token, n, field) ==
  { k \in token + 1 .. Len(log) : log[k].node = n /\ log[k].field = field }

\* Mutant: the fields are restored oldest entry first.
NewestLeft(entries) == Max(entries)

\* Restored newest first, a field is left with the value of its oldest entry.
LastRestored(entries) == Min(entries)

LanesBefore(token, n) ==
  LET entries == Since(token, n, "lanes_done")
  IN  IF entries = {} THEN lanesDone[n] ELSE log[LastRestored(entries)].lanes

ChoiceBefore(token, n) ==
  LET entries == Since(token, n, "engine_choice")
  IN  IF entries = {} THEN choice[n] ELSE log[LastRestored(entries)].engine

progress == [lanesDone |-> lanesDone, choice |-> choice]

\* rollback(token): restore the logged fields, newest first; token 0 closes
\* the log.  The pool is not rolled back: it is reset next.
Rollback(token) ==
  /\ token \in tokens
  /\ lanesDone' = [n \in Node |-> LanesBefore(token, n)]
  /\ choice' = [n \in Node |-> ChoiceBefore(token, n)]
  /\ log' = SubSeq(log, 1, token)
  /\ recording' = (token # 0)
  /\ tokens' = IF token = 0 THEN {} ELSE { k \in tokens : k <= token }
  /\ offered' = Node
  /\ UNCHANGED <<free, bundle, valuElems, dry>>

Next == \/ \E n \in Node : Place(n)
        \/ \E d \in BOOLEAN : NewCycle(d)
        \/ Checkpoint
        \/ \E token \in tokens : Rollback(token)

Spec == Init /\ [][Next]_poolVars
=============================================================================
