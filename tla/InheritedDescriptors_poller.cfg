\* With a policy file, the runtime's own descriptors exist before the check.
SPECIFICATION Spec
CONSTANTS
  MaxFD = 8
  MaxLibraries = 2
  PreserveLists <- MCPreserveLists
  PolicyFile = {TRUE}
  NonblockingStdio = {FALSE}
INVARIANT
  PreservedAreCallers
CHECK_DEADLOCK FALSE
