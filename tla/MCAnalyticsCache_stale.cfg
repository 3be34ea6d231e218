SPECIFICATION Spec
CONSTANTS
  Readers = {r1}
  Writers = {w1}
  NoVersion = NoVersion
  MaxUploads = 2
  MaxFaults = 0
INVARIANTS
  FreshBetweenUploads
