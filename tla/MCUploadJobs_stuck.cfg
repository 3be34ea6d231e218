SPECIFICATION FairSpec
CONSTANTS
  Jobs = {j1}
  NoJob = NoJob
  Callbacks = {c1}
  Fallbacks = {f1}
  QStashConfigured = TRUE
  MaxFaults = 1
PROPERTIES
  ClaimedJobFinishes
