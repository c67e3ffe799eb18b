\* Two writers of one path in all three publication variants, with users
\* who interfere twice and one kill or failed file operation.
CONSTANTS
  Writers = {w1, w2}
  Inodes = {1, 2, 3, 4}
  None = None
  Foreign = Foreign
  Kinds = {"link", "landed", "rename"}
  MaxUser = 2
  MaxKills = 1
  MaxFaults = 1
CONSTRAINT OneMishap
SYMMETRY Symmetry
SPECIFICATION Spec
INVARIANTS
  TypeOK
  NoTornTarget
  ReplacesOnlyOwned
  RejectedLeavesTarget
  QuietTargetIsUpdatable
  ContentionHasAWinner
  OneCreator
PROPERTIES
  UnownedSurvives
  IsRegister
CHECK_DEADLOCK FALSE
