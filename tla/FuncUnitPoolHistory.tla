------------------------- MODULE FuncUnitPoolHistory -------------------------
(***************************************************************************)
(* FuncUnitPool with a history of what the emitted cycles execute and of   *)
(* what each checkpoint saw, and its properties.                           *)
(***************************************************************************)
EXTENDS FuncUnitPool

VARIABLES
  executed,  \* <<node, lane>> -> times it is in a bundle of an earlier cycle
  saved      \* token -> progress when its checkpoint was taken

vars == <<free, bundle, valuElems, offered, dry, lanesDone, choice, recording,
          log, tokens, executed, saved>>

Lane == 0 .. VLEN - 1
NodeLanes == { nl \in Node \X Lane : nl[2] < LanesTotal(nl[1]) }

\* Slots of the current bundle that execute a lane of a node.
Times(slots, n, lane) ==
  Cardinality({ k \in DOMAIN slots : slots[k] \in {Slot(n, All), Slot(n, lane)} })
InBundle(n, lane) ==
  Times(bundle["alu"], n, lane)
    + (IF Native(n) = "alu" THEN 0 ELSE Times(bundle[Native(n)], n, lane))

HInit == /\ Init
         /\ executed = [nl \in NodeLanes |-> 0]
         /\ saved = <<>>

HPlace(n) == Place(n) /\ UNCHANGED <<executed, saved>>

HNewCycle(d) == /\ NewCycle(d)
                /\ executed' = [nl \in NodeLanes |-> executed[nl] + InBundle(nl[1], nl[2])]
                /\ UNCHANGED saved

HCheckpoint == /\ Checkpoint
               /\ saved' = [k \in DOMAIN saved \cup {Len(log)} |->
                              IF k = Len(log) THEN progress ELSE saved[k]]
               /\ UNCHANGED executed

HRollback(token) == /\ Rollback(token)
                    /\ saved' = [k \in tokens' |-> saved[k]]
                    /\ UNCHANGED executed

HNext == \/ \E n \in Node : HPlace(n)
         \/ \E d \in BOOLEAN : HNewCycle(d)
         \/ HCheckpoint
         \/ \E token \in tokens : HRollback(token)

HSpec == HInit /\ [][HNext]_vars

-----------------------------------------------------------------------------
\* A bundle never asks an engine for more slots than it has (Machine.step
\* asserts it), and the budget left is exactly what the bundle left over,
\* evictions between engines included.
BudgetExact ==
  \A e \in Engine : /\ free[e] >= 0
                    /\ ~dry => free[e] + Len(bundle[e]) = Capacity[e]

\* Whatever is spilled over several cycles, evicted or refused, every lane
\* that counts as landed is executed exactly once, and no other lane is.
LanesOnce ==
  ~recording => \A nl \in NodeLanes :
    executed[nl] + InBundle(nl[1], nl[2]) = IF nl[2] < lanesDone[nl[1]] THEN 1 ELSE 0

\* "deleting the last appended bundle entry keeps the recorded indices of
\* earlier entries valid": each recorded index is the node's own slot.
EvictionIndexValid ==
  ~dry => \A k \in DOMAIN valuElems :
    /\ valuElems[k].idx \in DOMAIN bundle["valu"]
    /\ bundle["valu"][valuElems[k].idx] = Slot(valuElems[k].node, All)

\* rollback() to a token gives back the progress its checkpoint saw, victims
\* of evictions included.
RollbackRestores ==
  [][\A token \in tokens : HRollback(token) => progress' = saved[token]]_vars

-----------------------------------------------------------------------------
SlotType == [node : Node, lane : Lane \cup {All}]
VecElem == { n \in Node : Kind[n] = "vec_elem" }
EntryType == { e \in [node : Node, field : {"lanes_done"}, lanes : Nat] :
                 e.lanes <= LanesTotal(e.node) }
             \cup [node : Node, field : {"engine_choice"}, engine : Engine \cup {NoEngine}]
ProgressType == { p \in [lanesDone : [Node -> Nat], choice : [Node -> Engine \cup {NoEngine}]] :
                    \A n \in Node : p.lanesDone[n] <= LanesTotal(n) }

\* Type of every variable: no node lands more lanes than it has.
TypeOK ==
  /\ free \in [Engine -> Nat]
  /\ bundle \in [Engine \cup {"debug"} -> Seq(SlotType)]
  /\ valuElems \in Seq([node : VecElem, idx : Int])
  /\ offered \subseteq Node
  /\ dry \in BOOLEAN
  /\ progress \in ProgressType
  /\ recording \in BOOLEAN
  /\ log \in Seq(EntryType)
  /\ tokens \subseteq 0 .. Len(log)
  /\ executed \in [NodeLanes -> Nat]
  /\ saved \in [tokens -> ProgressType]

\* A dry cycle is a tried-out one and emits nothing; a trial starts with a
\* checkpoint that opens the log.
Modes ==
  /\ dry => bundle = NoSlots
  /\ offered # Node => dry = recording
  /\ recording <=> 0 \in tokens
  /\ ~recording => log = <<>>

\* Slots are remembered in the order they were taken.
IndicesGrow ==
  ~dry => \A j, k \in DOMAIN valuElems : j < k => valuElems[j].idx < valuElems[k].idx

\* The log leads from the present back to what each checkpoint saw.
LogExact ==
  \A token \in tokens, n \in Node : /\ LanesBefore(token, n) = saved[token].lanesDone[n]
                                    /\ ChoiceBefore(token, n) = saved[token].choice[n]

\* The progress that counts: a trial's does not yet.
Landed == IF recording THEN saved[0].lanesDone ELSE lanesDone

LandedOnce == \A nl \in NodeLanes :
  executed[nl] + InBundle(nl[1], nl[2]) = IF nl[2] < Landed[nl[1]] THEN 1 ELSE 0

\* The inductive invariant.
PoolInv == /\ TypeOK
           /\ Modes
           /\ BudgetExact
           /\ IndicesGrow
           /\ EvictionIndexValid
           /\ LogExact
           /\ LandedOnce
=============================================================================
