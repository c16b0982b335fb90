\* A policy path that names a FIFO.
SPECIFICATION Spec
CONSTANTS
  p1 = p1
  p2 = p2
  e1 = e1
  e2 = e2
  EmptyPath = EmptyPath
  Path <- MCPath
  Contents <- MCContents
  Edits <- MCEdits
  Commands <- MCCommands
  MaxSize = 10
  MaxRewrites = 1
PROPERTY
  NonRegularIsRefused
CHECK_DEADLOCK FALSE
