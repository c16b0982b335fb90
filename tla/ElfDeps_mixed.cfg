\* A library of another ABI in front of the right one.
SPECIFICATION Spec
CONSTANTS
  NoFile = NoFile
  Trees <- MixedTrees
INVARIANT
  LibrariesMatchABI
CHECK_DEADLOCK FALSE
