\* With and without a policy file or non-blocking standard streams, up to the
\* descriptor limit.
SPECIFICATION Spec
CONSTANTS
  MaxFD = 8
  MaxLibraries = 2
  PreserveLists <- MCPreserveLists
  PolicyFile = {TRUE, FALSE}
  NonblockingStdio = {TRUE, FALSE}
INVARIANTS
  TypeOK
  InheritsExactlyListed
  CallersWithoutPolicyFile
  NoOpenedFileLeaks
  RevalidationSucceeds
CHECK_DEADLOCK FALSE
