\* Every text of the pool, with a change of the file at any moment.
SPECIFICATION Spec
CONSTANTS
  p1 = p1
  p2 = p2
  e1 = e1
  e2 = e2
  EmptyPath = EmptyPath
  Path <- MCPath
  Contents <- MCContents
  Edits <- MCEdits
  Commands <- MCCommands
  MaxSize = 10
  MaxRewrites = 1
INVARIANTS
  TypeOK
  OneMeaning
  WholeFileJudged
  RejectedWithReason
  SourceMakesNoDifference
  NoRuleMadeMoot
PROPERTY
  Settles
CHECK_DEADLOCK FALSE
