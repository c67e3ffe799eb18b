\* Schemas of one lane with every name and applicator; or two declaration pairs
\* under a budget that structural and differential findings both exceed.
CONSTANTS
  Nothing = Nothing
  Bundles <- MCBundles
  MaxNesting = 3
  Matching <- MCMatching
  Values <- MCValues
  MaxDepth = 6
  MaxErrors = 2
  MaxFindings = 3
  Pairs = 2
  Instances = {"x"}
  Fixtures <- MCFixtures
  MaxProbes = 2
  MaxGate = 2
  None = None
SPECIFICATION DifferentialSpec
INVARIANTS
  NamesLeadHome
  VerdictIsByDefinition
  RefusalIsUnfinished
  BudgetHidesNothing
  CompleteBelowBudget
  IndistinguishableIsEarned
PROPERTY IsVerdict
CHECK_DEADLOCK FALSE
