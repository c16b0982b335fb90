\* The filesystem changes while Apply runs.
SPECIFICATION Spec
CONSTANTS
  p1 = p1
  p2 = p2
  d1 = d1
  f1 = f1
  Missing = Missing
  Unreachable = Unreachable
  EmptyPath = EmptyPath
  Path <- MCPath
  Object <- MCObject
  Directory <- MCDirectory
  Requests <- RaceRequests
  KernelABIs <- RaceKernelABIs
  Namings <- RaceNamings
  MaxRelinks = 2
INVARIANTS
  RightsMatchKind
  RefusalsAreExplained
PROPERTIES
  Implements
  Returns
CHECK_DEADLOCK FALSE
