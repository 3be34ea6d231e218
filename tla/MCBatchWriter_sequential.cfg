SPECIFICATION WriterSpec
CONSTANTS
  Uploads = {u1}
  Names = {a, b, c}
  NoName = NoName
  NoId = NoId
  BusinessIds = {}
  Types = {"Entity", "FQ"}
  Percentages = {6000}
  MaxRows = 2
SYMMETRY MCSymmetry
INVARIANTS
  SoundUnlessOverlapped
  ReferencesResolve
PROPERTIES
  ReuploadPasses
