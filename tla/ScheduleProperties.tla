------------------------- MODULE ScheduleProperties -------------------------
(***************************************************************************)
(* What a schedule must be, whichever scheduler makes it.                  *)
(***************************************************************************)
EXTENDS CycleRunner, Folds

\* The places inside a cycle, before its bundle is executed and before the
\* graph advances.
Filling == at \in {"pick", "write", "place", "unwrite", "read"}
InCycle == Filling \/ at = "advance"

\* Every operand of every emitted slot finds, at the start of its cycle, the
\* value it names: its producer has landed that lane in an earlier cycle, and
\* nothing has reused the register since, however a node is spread over
\* cycles, spilled, or evicted.
SlotsReadRight ==
  \A r \in EmittedRuns : \A v \in LanesRead(r[1], r[2]) : scratch[WordOf(r[1], v)] = v

FreeWords == UNION { Range(freeWords[g]) : g \in DOMAIN freeWords }

\* The "stuck" error is final: no ready node can get a register, so no order
\* of the nodes, in this cycle or later, would place one.
StuckIsFinal ==
  at = "stuck" => /\ freeVec = <<>>
                  /\ \A n \in frontier : /\ Dest(n) # {}
                                         /\ Dest(n) \cap DOMAIN assigned = {}
                                         /\ Dest(n) \cap ScalarTag # {} => FreeWords = {}

\* A complete schedule has given every register back.
NothingLeaks ==
  at = "done" => /\ DOMAIN assigned = {}
                 /\ Len(freeVec) = (SCRATCH \div VLEN) - 1

\* One slot at a time, every node in cycles of its own.
SequentialCycles ==
  FoldFunction(+, 0, [n \in Node |-> CASE Kind[n] = "gather" -> VLEN
                                       [] Kind[n] = "debug"  -> 0
                                       [] OTHER              -> 1])

\* The loop never starves, and with the cap at SequentialCycles it never
\* exceeds it: "the placer has regressed below the baseline".
WithinBaseline == at \notin {"starved", "capped"}

\* Every run ends, with a schedule or with a genuine shortage of registers.
Completes == <>(at \in {"done", "stuck"})
=============================================================================
