\* Two owners of one entity on a page; no upload commits meanwhile.
CONSTANTS
  Entities = {1, 2, 3}
  Fqs = {4}
  NoName = NoName
  NoTerm = NoTerm
  Filters <- MCFilters
  Terms <- MCNoTerms
  PageSizes = {2}
  MaxPage = 1
  MaxUploads = 0
SPECIFICATION Spec
INVARIANT ChildrenOncePerParent
CHECK_DEADLOCK FALSE
