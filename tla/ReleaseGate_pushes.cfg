\* Two pushes of the tag, a repeated run, and two changes of the settings.
SPECIFICATION Spec
CONSTANTS
  c1 = c1
  c2 = c2
  old = old
  None = None
  Commit <- MCCommit
  OnMain = {c1, c2, old}
  VersionMatches = {c1, c2}
  Arch = {amd64, arm64}
  Workflow = {build, security}
  TagObjects <- MCTagObjects
  FirstChecks <- MCFirstChecks
  MaxPushes = 2
  MaxReruns = 1
  MaxChanges = 2
INVARIANTS
  TypeOK
  PublishedIsGated
  TagNamesTheRelease
  SuccessIsPublished
  AbsenceStillHolds
CHECK_DEADLOCK FALSE
