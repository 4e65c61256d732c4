CONSTANTS
  v1 = v1  v2 = v2  s1 = s1  s2 = s2  s3 = s3
  VecTag <- MCVecTag
  ScalarTag <- MCScalarTag
  ReadCounts <- MCReadCounts
  VLEN = 2
  SCRATCH = 6
  MaxLog = 4
SYMMETRY Symmetry
SPECIFICATION HSpec
INVARIANTS TypeOK Partition CountsAgree ClaimReversalSafe UndoExact
PROPERTIES NoGranuleStranded ImplementsRegFile
