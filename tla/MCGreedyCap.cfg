CONSTANTS
  c = c  vx = vx  gx = gx
  VLEN = 8
  SCRATCH = 40
  Program <- MCProgram
  VecTag <- MCVecTag
  ScalarTag <- MCScalarTag
  Capacity <- MCCapacity
  Cap <- MCCap
SPECIFICATION Spec
INVARIANT CapMeansRegression
