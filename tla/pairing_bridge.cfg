\* A mapping that qualifies two declarations of one simple name.
CONSTANTS
  Catalogue <- MCCatalogue
  Names <- MCNames
  Kinds <- MCKinds
  Entries <- MCBridge
  TypeSpecIgnores <- MCNoIgnores
  LaneIgnores <- MCNoLaneIgnores
  None = None
SPECIFICATION Spec
INVARIANT QualifiedMappingBridges
