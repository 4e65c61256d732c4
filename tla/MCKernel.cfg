CONSTANTS
  M = 128
  Xor <- MCXor
  HASH_STAGES <- MCStages
  VLEN = 8
  BATCH = 16
  ROUNDS = 11
  FOREST_HEIGHT = 5
  LevelStart <- MCLevelStart
  Together <- MCTogether
  Trees <- MCTrees
  Inputs <- MCInputs
  Knobs <- MCKnobs
SPECIFICATION Spec
INVARIANTS FollowsTheWalk OracleAgrees MemoryNeedsNoOrder LevelKnown
CHECK_DEADLOCK FALSE
