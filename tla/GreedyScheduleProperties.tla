---------------------- MODULE GreedyScheduleProperties ----------------------
(* The properties of ScheduleProperties, at the points of regalloc.schedule. *)
EXTENDS GreedySchedule, ScheduleProperties

\* The bundle of the cycle is complete and about to be executed.
Closing == at = "pick" /\ working = {}

\* SlotsReadRight in every bundle schedule() emits.
OperandsIntact == Closing => SlotsReadRight

\* "Exceeding this cap means the placer has regressed below the baseline",
\* the sequential cycle count: the cap is exceeded by no other schedule.
CapMeansRegression == at = "capped" => C > SequentialCycles

\* "Physical registers are assigned when a RAW chain starts (its writer is
\* placed)": between cycles, no node holds one with no lane landed.
HeldOnlyWhenPlaced ==
  at = "top" => \A n \in Node : Dest(n) \cap DOMAIN assigned # {} => lanesDone[n] > 0
=============================================================================
