\* A binary, an interpreter and two libraries in every arrangement.
SPECIFICATION Spec
CONSTANTS
  NoFile = NoFile
  Trees <- MCTrees
INVARIANTS
  TypeOK
  FailsOnlyIfMissing
PROPERTIES
  Implements
  Returns
CHECK_DEADLOCK FALSE
