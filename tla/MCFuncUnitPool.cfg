CONSTANTS
  e1 = e1  e2 = e2  e3 = e3  f1 = f1  f2 = f2  g1 = g1  d1 = d1
  Node <- MCNode
  Kind <- MCKind
  VLEN = 2
  Capacity <- MCCapacity
  MaxTokens = 2
SYMMETRY Symmetry
SPECIFICATION HSpec
INVARIANTS BudgetExact LanesOnce EvictionIndexValid
PROPERTY RollbackRestores
