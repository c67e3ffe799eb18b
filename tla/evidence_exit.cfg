\* verify-ir after one check.
CONSTANTS
  Checks = {p}
  Modes = {"check"}
  this = this
  that = that
  Contracts <- TwoBodies
  Dirs = {here}
  Verifies = TRUE
  WatchedDir = here
  MaxRuns = 1
  MaxEdits = 0
  MaxKills = 0
  None = None
  Asked = Asked
SPECIFICATION Spec
INVARIANT VerifierExits
CHECK_DEADLOCK FALSE
