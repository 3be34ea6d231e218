SPECIFICATION Spec
CONSTANTS
  Uploads = {u1}
  Names = {a, b, c}
  NoName = NoName
  NoId = NoId
  BusinessIds = {}
  Types = {"Entity", "FQ"}
  Percentages = {10000}
  MaxRows = 2
SYMMETRY MCSymmetry
INVARIANTS
  SubtreeWalkTerminates
