--------------------- MODULE RolloutScheduleProperties ---------------------
(* The properties of ScheduleProperties, at the points of schedule_rollout,  *)
(* and what its trials and its replay owe each other.                        *)
EXTENDS RolloutSchedule, ScheduleProperties

\* SlotsReadRight in every bundle a replay emits, though its registers were
\* first handed out in a trial and taken back.
OperandsIntact == (at = "pick" /\ queue = <<>> /\ ~dry) => SlotsReadRight

\* A trial leaves no trace in the graph, the allocator (the order of its free
\* lists included) or the progress of any node.
TrialLeavesNoTrace == at = "try" => snapshot = origin

\* "identical decisions": the replay of the best order, which also resolves
\* operands and emits, ends in the very state its trial was scored on.
ReplayMatchesTrial == at = "collect" => snapshot = outcome

\* reg_delta is "register allocations minus frees this cycle".
RegDeltaExact ==
  at = "judge" => regDelta = Cardinality(DOMAIN assigned)
                             - Cardinality(DOMAIN origin.regs.assigned)
=============================================================================
