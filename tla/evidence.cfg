\* One check that runs twice and a verification of what it left, or two checks
\* that share artifacts, while the author edits both sources and one run may
\* be killed.
CONSTANTS
  Checks = {p, q}
  Modes = {"check", "compare"}
  this = this
  that = that
  Contracts <- TwoBodies
  Dirs = {here, there}
  Verifies = TRUE
  WatchedDir = here
  MaxRuns = 2
  MaxEdits = 2
  MaxKills = 1
  None = None
  Asked = Asked
SYMMETRY AnyCheck
SPECIFICATION Spec
CONSTRAINT OneChainOrTwoChecks
INVARIANTS
  TypeOK
  CertifiedTogether
  AdmittedIsTrue
  GreenIsTrue
  EditsAreNoticed
  LoneRunTellsOneStory
CHECK_DEADLOCK FALSE
