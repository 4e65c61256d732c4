--------------------------- MODULE PauseBarriers ----------------------------
(***************************************************************************)
(* The two pauses the kernel builder adds to a finished schedule, and the  *)
(* two ways the result is run.  do_kernel_test runs it against             *)
(* reference_kernel2: the reference yields the initial memory, then fills  *)
(* the trace the debug checks read and yields the final memory, and run()  *)
(* is called after each yield.  Grading disables pauses and checks and     *)
(* calls run() once.                                                       *)
(*                                                                         *)
(* The schedule is any the schedulers can emit for a pruned program: each  *)
(* cycle places some ready nodes within the slot limits, and every ready   *)
(* debug node, which needs neither a slot nor a register.  A node that     *)
(* spreads over cycles counts where its last lane lands.                   *)
(***************************************************************************)
EXTENDS Machine

CONSTANT Programs   \* the programs checked: what each instruction reads

ASSUME InstrAssumption == IsFiniteSet(Instr) /\ Instr # {}

\* "SLOT_LIMITS["flow"] == 1": a bundle can hold a pause.
ASSUME LimitAssumption == /\ SLOT_LIMITS \in [DOMAIN SLOT_LIMITS -> Nat]
                          /\ "flow" \in DOMAIN SLOT_LIMITS /\ SLOT_LIMITS["flow"] >= 1

\* What writes scratch.
Values == { i \in Instr : engine[i] \notin {"store", "debug"} }

\* A program as pruning leaves it: what is read is a value; stores, checks and
\* selects, the kernel's flow instructions, read something; and every value
\* has a reader on its way to a store.
Pruned(p) ==
  /\ p \in [Instr -> SUBSET Values]
  /\ \A i \in Instr : engine[i] \in {"store", "debug", "flow"} => p[i] # {}
  /\ \A v \in Values : \E i \in Instr : engine[i] # "debug" /\ v \in p[i]

ASSUME ProgramsAssumption == \A p \in Programs : Pruned(p)

VARIABLES phase,    \* what runs: the scheduler, the pause insertion, a run()
          emitted   \* bundles of the schedule that cost a cycle

pauseVars == <<settings, machineVars, phase, emitted>>

Stores == { i \in Instr : engine[i] = "store" }

PauseInit == /\ reads \in Programs
             /\ program = <<>>
             /\ \E dev \in BOOLEAN : enablePause = dev /\ enableDebug = dev
             /\ valueTrace = FALSE
             /\ MachineInit
             /\ phase = "schedule"
             /\ emitted = 0

-----------------------------------------------------------------------------
Placed == UNION { program[c].slots : c \in DOMAIN program }

\* Mutant: a reader may share the bundle of its writer.
ReadySameCycle == { i \in Instr \ Placed : \A j \in reads[i] : reads[j] \subseteq Placed }

\* The frontier: what every operand of has been placed in an earlier cycle.
ReadyNodes == { i \in Instr \ Placed : reads[i] \subseteq Placed }

\* Mutant: debug nodes wait like the others.
MustPlaceNothing == {}

\* Nodes no unit and no register can hold back.
MustPlace == { i \in ReadyNodes : engine[i] = "debug" }

EmitBundle(S) ==
  /\ phase = "schedule"
  /\ S # {} /\ MustPlace \subseteq S /\ S \subseteq ReadyNodes
  /\ LET b == [slots |-> S, pauses |-> 0]
     IN  /\ \A e \in DOMAIN SLOT_LIMITS \ {"debug"} : SlotsOf(b, e) <= SLOT_LIMITS[e]
         /\ program' = Append(program, b)
         /\ emitted' = IF Engines(b) \subseteq {"debug"} THEN emitted ELSE emitted + 1
  /\ UNCHANGED <<reads, enablePause, enableDebug, valueTrace, machineVars, phase>>

-----------------------------------------------------------------------------
FlowFree(b) == SlotsOf(b, "flow") < 1
WithPause(b) == [b EXCEPT !.pauses = @ + 1]

\* Pause 1 goes into the first bundle with a free flow slot; a store in that
\* bundle or before it fails the assertion.
FirstFree(p) == LET open == { c \in DOMAIN p : FlowFree(p[c]) }
                IN  { c \in open : \A d \in open : c <= d }
StoreBefore(p) == \E c \in DOMAIN p : /\ Of(p[c], "store") # {}
                                      /\ \A d \in FirstFree(p) : c <= d
InsertFirst(p) == [c \in DOMAIN p |-> IF c \in FirstFree(p) THEN WithPause(p[c]) ELSE p[c]]

\* Mutant: a bundle of its own for pause 2, whatever the last one holds.
InsertLastOwn(p) == Append(p, [slots |-> {}, pauses |-> 1])

\* Mutant: pause 2 shares the bundle of the last but one cycle.
InsertLastEarly(p) == IF Len(p) > 2 THEN [p EXCEPT ![Len(p) - 1] = WithPause(@)]
                      ELSE InsertLastOwn(p)

\* Pause 2 goes into the last bundle, or after it when its flow slot is taken.
InsertLast(p) == IF FlowFree(p[Len(p)]) THEN [p EXCEPT ![Len(p)] = WithPause(@)]
                 ELSE Append(p, [slots |-> {}, pauses |-> 1])

InsertPauses ==
  /\ phase = "schedule"
  /\ Placed = Instr
  /\ phase' = IF StoreBefore(program) THEN "assertion" ELSE "run1"
  /\ program' = InsertLast(InsertFirst(program))
  /\ UNCHANGED <<reads, enablePause, enableDebug, valueTrace, machineVars, emitted>>

-----------------------------------------------------------------------------
\* A bundle, or the end of the program, within a run().
Running == /\ phase \in {"run1", "run2"}
           /\ Step \/ RunOffTheEnd
           /\ UNCHANGED <<phase, emitted>>

\* The first run() returned to the development test, which asks the reference
\* for its second memory; its trace is filled on the way.
SecondYield ==
  /\ phase = "run1"
  /\ enablePause
  /\ RunReturns /\ machineError = "none"
  /\ valueTrace' = TRUE
  /\ Resume
  /\ phase' = "run2"
  /\ UNCHANGED <<reads, program, enablePause, enableDebug, pc, cycle, scratch, mem,
                 machineError, emitted>>

\* The last run() returned: the result is compared.
Compare ==
  /\ phase = IF enablePause THEN "run2" ELSE "run1"
  /\ RunReturns /\ machineError = "none"
  /\ phase' = "compared"
  /\ UNCHANGED <<settings, machineVars, emitted>>

PauseNext == \/ \E S \in SUBSET Instr : EmitBundle(S)
             \/ InsertPauses
             \/ Running
             \/ SecondYield
             \/ Compare

PauseSpec == PauseInit /\ [][PauseNext]_pauseVars

-----------------------------------------------------------------------------
\* Both pauses are where the development test needs them: when its first run()
\* returns, memory is untouched; when the last one returns, in the test and in
\* grading alike, every store has landed with the value it should have.
MemoryAtEachReturn ==
  /\ phase = "run1" /\ enablePause /\ RunReturns => mem = {} /\ pc <= Len(program)
  /\ phase = "compared" => mem = Stores

\* Nothing is raised on the way: no store comes before the first pause, no
\* debug check runs before the reference has filled the trace or before its
\* value has landed, and the pauses exceed no slot limit.
NothingRaised == phase # "assertion" /\ machineError = "none"

\* "0 extra cycles at grading": the pauses add no bundle and turn no free
\* bundle of debug checks into one that costs a cycle.
PausesAreFree == phase = "compared" => cycle = emitted
=============================================================================
