------------------------------ MODULE Machine -------------------------------
(***************************************************************************)
(* The simulated machine of problem.py, with the one core the kernel runs  *)
(* on (N_CORES): run() steps through the bundles until the core pauses or  *)
(* stops, and a later run() resumes it.  A bundle's slots read what        *)
(* scratch and memory held before it; their writes land together.          *)
(*                                                                         *)
(* A bundle is the instructions it holds, and whether its flow slots hold  *)
(* a pause.  What an instruction computes is not modelled: a word of       *)
(* scratch, and a word of memory that a store writes, either holds the     *)
(* value it is to have in the end or still what it held at the start.      *)
(***************************************************************************)
EXTENDS Integers, Sequences, FiniteSets

CONSTANTS Instr,       \* instructions
          engine,      \* the engine of each
          SLOT_LIMITS  \* slots of each engine in a bundle

ASSUME EngineAssumption == engine \in [Instr -> DOMAIN SLOT_LIMITS]

VARIABLES
  reads,        \* instruction -> the instructions whose results it reads
  program,      \* the bundles
  enablePause, enableDebug,
  valueTrace,   \* the reference's trace of values has been filled
  pc, coreState, cycle,
  scratch,      \* instructions whose result is in scratch
  mem,          \* stores whose value is in memory
  machineError  \* what the machine raised, or "none"

settings == <<reads, program, enablePause, enableDebug, valueTrace>>
machineVars == <<pc, coreState, cycle, scratch, mem, machineError>>

Bundle == [slots : SUBSET Instr, pauses : 0 .. 2]

SlotsOf(b, e) == Cardinality({ i \in b.slots : engine[i] = e }) + (IF e = "flow" THEN b.pauses ELSE 0)
Engines(b) == { e \in DOMAIN SLOT_LIMITS : SlotsOf(b, e) > 0 }
Of(b, e) == { i \in b.slots : engine[i] = e }

MachineInit == /\ pc = 1
               /\ coreState = "RUNNING"
               /\ cycle = 0
               /\ scratch = {} /\ mem = {}
               /\ machineError = "none"

\* A debug check compares what scratch held before the bundle with the trace;
\* every other engine must keep its slot limit.
Raised(b) ==
  IF enableDebug /\ Of(b, "debug") # {} /\ ~valueTrace THEN "no trace for key"
  ELSE IF enableDebug /\ \E i \in Of(b, "debug") : ~(reads[i] \subseteq scratch) THEN "wrong value"
  ELSE IF \E e \in Engines(b) \ {"debug"} : SlotsOf(b, e) > SLOT_LIMITS[e] THEN "too many slots"
  ELSE "none"

\* step(): a result is right when all its operands were.
WritesScratch(b) == { i \in b.slots \ (Of(b, "store") \cup Of(b, "debug")) : reads[i] \subseteq scratch }
WritesMem(b) == { i \in Of(b, "store") : reads[i] \subseteq scratch }

\* One turn of run()'s loop; a bundle of debug checks only costs no cycle.
Step ==
  /\ coreState = "RUNNING"
  /\ machineError = "none"
  /\ pc <= Len(program)
  /\ LET b == program[pc]
     IN  /\ machineError' = Raised(b)
         /\ pc' = pc + 1
         /\ scratch' = scratch \cup WritesScratch(b)
         /\ mem' = mem \cup WritesMem(b)
         /\ coreState' = IF b.pauses > 0 /\ enablePause THEN "PAUSED" ELSE "RUNNING"
         /\ cycle' = IF Engines(b) \subseteq {"debug"} THEN cycle ELSE cycle + 1
  /\ UNCHANGED settings

RunOffTheEnd ==
  /\ coreState = "RUNNING"
  /\ machineError = "none"
  /\ pc > Len(program)
  /\ coreState' = "STOPPED"
  /\ UNCHANGED <<settings, pc, cycle, scratch, mem, machineError>>

\* run() is called again.
Resume == coreState' = IF coreState = "PAUSED" THEN "RUNNING" ELSE coreState

RunReturns == coreState # "RUNNING"
=============================================================================
