\* Releases of an OpenAPI projection, each compared with the one before it.
CONSTANTS
  Gates = {"openapi"}
  Projections <- MCProjections
  FieldNumbers = {1, 2}
  EnumNumbers = {1, 2}
  Arity <- MCArity
  MaxItems = 2
  MaxBudget = 5
  Folded <- MCFolded
  Limits = {2}
  Malformed = Malformed
  Nothing = Nothing
SPECIFICATION HistorySpec
INVARIANT QueryParametersStay
CHECK_DEADLOCK FALSE
