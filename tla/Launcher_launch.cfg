\* Every policy of the pool, with a rename at any moment.
SPECIFICATION Spec
CONSTANTS
  bin = bin
  ld = ld
  dir = dir
  app = app
  tool = tool
  other = other
  broken = broken
  foreign = foreign
  script = script
  data = data
  loader = loader
  dirnode = dirnode
  k1 = k1
  k2 = k2
  v1 = v1
  v2 = v2
  EmptyPath = EmptyPath
  Missing = Missing
  None = None
  Unset = Unset
  Path <- MCPath
  Binary = bin
  Inode <- MCInode
  Files <- MCFiles
  Beneath <- MCBeneath
  Namings <- MCNamings
  Key <- MCKey
  Value <- MCValue
  Environ <- MCEnviron
  Policies <- MCPolicies
  KernelABIs <- MCKernelABIs
  MaxRelinks = 1
INVARIANTS
  TypeOK
  TargetUnderPolicy
  RunsTheOpenedFile
  DeniedForReason
  EnvironmentIsListed
PROPERTY
  Ends
CHECK_DEADLOCK FALSE
