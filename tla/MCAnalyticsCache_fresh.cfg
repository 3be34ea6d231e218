SPECIFICATION Spec
CONSTANTS
  Readers = {r1, r2}
  Writers = {w1, w2}
  NoVersion = NoVersion
  MaxUploads = 4
  MaxFaults = 2
SYMMETRY MCSymmetry
INVARIANTS
  FreshUnlessOutrun
  WholeUnlessOutrun
  CacheInv
