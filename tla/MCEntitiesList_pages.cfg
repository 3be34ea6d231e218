\* Any registry of three entities and an FQ, one request, two uploads meanwhile.
CONSTANTS
  Entities = {1, 2, 3}
  Fqs = {4}
  NoName = NoName
  NoTerm = NoTerm
  Filters <- MCFilters
  Terms <- MCTerms
  PageSizes = {1, 2}
  MaxPage = 3
  MaxUploads = 2
SPECIFICATION Spec
INVARIANTS
  SearchedRootsShowMatch
  PagesPartition
PROPERTIES
  
  TopLevelCountsExact
  ReportCountsTheTree
CHECK_DEADLOCK FALSE
