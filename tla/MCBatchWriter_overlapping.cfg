SPECIFICATION WriterSpec
CONSTANTS
  Uploads = {u1, u2}
  Names = {a, b}
  NoName = NoName
  NoId = NoId
  BusinessIds = {i1}
  Types = {"Entity"}
  Percentages = {10000}
  MaxRows = 1
SYMMETRY MCSymmetry
INVARIANTS
  GraphInv
  IndexRejectsOnlyOverlaps
  IdsInv
  WriterInv
  WaitsOnlyInPass1
PROPERTIES
  ImplementsRegistry
