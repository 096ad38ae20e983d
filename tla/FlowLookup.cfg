SPECIFICATION Spec
CONSTANTS
  keyLen = 2
  Buckets = 2
  Priorities = {0, 1}
  Objects = {o1, o2, o3}
  NULL = NULL
  Types = {"MM", "LPM"}
SYMMETRY MCSymmetry
INVARIANTS
  TypeOK
  PointersLive
  LpmLongest
  MmBest
