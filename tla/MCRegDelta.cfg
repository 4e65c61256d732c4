CONSTANTS
  c = c  vx = vx  gx = gx  fx = fx  vy = vy  ey = ey  b = b  vz = vz  d = d  k = k
  Granules = 5
  VLEN = 2
  Trials = 2
  Program <- MCProgram
  VecTag <- MCVecTag
  ScalarTag <- MCScalarTag
  SCRATCH <- MCScratch
  Capacity <- MCCapacity
  Cap <- SequentialCycles
SPECIFICATION HSpec
INVARIANT RegDeltaExact
