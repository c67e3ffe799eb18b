\* A killed writer, nobody else: what it leaves behind.
CONSTANTS
  Writers = {w1, w2}
  Inodes = {1, 2, 3, 4}
  None = None
  Foreign = Foreign
  Kinds = {"link"}
  MaxUser = 0
  MaxKills = 1
  MaxFaults = 0
SYMMETRY Symmetry
SPECIFICATION Spec
INVARIANT KilledWriterLeavesOnlyTemp
CHECK_DEADLOCK FALSE
