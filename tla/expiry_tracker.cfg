CONSTANTS
  a1 = a1
  Advisories = {a1}
  None = None
  Day = 2
  Window = 1
  Windows <- MCWindows
  MaxTime = 2
  MaxIssues = 3
  MaxEdits = 1
  MaxPeople = 2
  MaxFailures = 1
SPECIFICATION FairSpec
INVARIANTS OneTracker ExpiryIsAnnounced
PROPERTIES ResolvedOnlyWhenSeen AlertIsTracked ClearIsClosed
