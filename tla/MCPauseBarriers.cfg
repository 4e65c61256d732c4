CONSTANTS
  Instr <- MCInstr
  engine <- MCEngine
  SLOT_LIMITS <- MCSlotLimits
  Programs <- MCPrograms
SPECIFICATION PauseSpec
INVARIANTS MemoryAtEachReturn NothingRaised PausesAreFree
CHECK_DEADLOCK FALSE
