\* The WIT publication, which renames where the others link.
CONSTANTS
  Writers = {w1}
  Inodes = {1, 2, 3, 4}
  None = None
  Foreign = Foreign
  Kinds = {"rename"}
  MaxUser = 1
  MaxKills = 0
  MaxFaults = 0
SYMMETRY Symmetry
SPECIFICATION Spec
PROPERTY WitSparesUnowned
CHECK_DEADLOCK FALSE
