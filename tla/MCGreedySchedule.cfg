CONSTANTS
  c = c  vx = vx  gx = gx  fx = fx  vy = vy  gy = gy  ey = ey  b = b  vz = vz  ez = ez  d = d
  Granules = 6
  VLEN = 2
  Program <- MCProgram
  VecTag <- MCVecTag
  ScalarTag <- MCScalarTag
  SCRATCH <- MCScratch
  Capacity <- MCCapacity
  Cap <- SequentialCycles
SPECIFICATION Spec
INVARIANTS OperandsIntact StuckIsFinal NothingLeaks
PROPERTY Completes
