SPECIFICATION FairSpec
CONSTANTS
  Jobs = {j1}
  NoJob = NoJob
  Callbacks = {c1, c2}
  Fallbacks = {f1, f2}
  QStashConfigured = TRUE
  MaxFaults = 3
INVARIANTS
  TypeOK
  WrittenAtMostOnce
  CompletedWasInvalidated
  OrphanedOnlyByFault
  ClaimInv
PROPERTIES
  ImplementsContract
  LeavesQueued
  EveryJobFinishes
