\* A binary started by a relative path.
SPECIFICATION Spec
CONSTANTS
  NoFile = NoFile
  Trees <- RelativeTrees
INVARIANT
  FailsOnlyIfMissing
CHECK_DEADLOCK FALSE
