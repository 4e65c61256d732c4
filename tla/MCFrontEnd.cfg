CONSTANTS
  x = x  y = y  zero = zero
  Sym <- MCSym
  Pinned <- MCPinned
  Instruction <- MCInstruction
  MaxLen = 5
SPECIFICATION FrontSpec
INVARIANTS EdgesAreDataFlow ProgramWellTagged CountsMatchReaders KeptIsNeeded
CHECK_DEADLOCK FALSE
