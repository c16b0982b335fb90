\* The whole compatibility matrix on a quiet filesystem.
SPECIFICATION Spec
CONSTANTS
  p1 = p1
  p2 = p2
  d1 = d1
  f1 = f1
  Missing = Missing
  Unreachable = Unreachable
  EmptyPath = EmptyPath
  Path <- MCPath
  Object <- MCObject
  Directory <- MCDirectory
  Requests <- MatrixRequests
  KernelABIs <- AllKernelABIs
  Namings <- MatrixNamings
  MaxRelinks = 0
INVARIANTS
  TypeOK
  NoRuleDropped
  DenyByDefault
  LeastAuthority
  ReportIsTruthful
  PolicyABIIsLowest
CHECK_DEADLOCK FALSE
