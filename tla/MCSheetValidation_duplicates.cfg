SPECIFICATION Spec
CONSTANTS
  Names = {"a", "b"}
  NoName = NoName
  NoId = NoId
  BusinessIds = {"i"}
  Types = {"Entity", "FQ"}
  Percentages = {5000}
  MaxRows = 2
  Spellings = {"a", "A", "b"}
  Normal <- MCNormal
  DateTexts = {"2026-01-02", "1/2/2026", "2026-06-01"}
  DateOf <- MCDateOf
  Today = 150
  Blank = Blank
  Malformed = Malformed
  Jurisdictions = {"de", "ny"}
  FilingTypes = {"annual"}
  Statuses = {"Active", "Dissolved"}
  FilingStatuses = {"Not Started", "Filed", "Canceled"}
  TerminalStatuses = {"Dissolved"}
  ChunkSize = 2
  EntityRows <- MCEntityRows
  OwnershipRows <- MCOwnershipRows
  FilingRows <- MCFilingRows
  LastLine <- MCLastLine
  UtcOffset = 0
  Instants <- MCInstants
INVARIANT AcceptedIsWritten
CHECK_DEADLOCK FALSE
