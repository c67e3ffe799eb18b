\* Three lanes that drift apart under every small mapping.
CONSTANTS
  Catalogue <- MCCatalogue
  Names <- MCNames
  Kinds <- MCKinds
  Entries <- MCEntries
  TypeSpecIgnores <- MCTypeSpecIgnores
  LaneIgnores <- MCLaneIgnores
  None = None
SPECIFICATION Spec
INVARIANTS
  PassedMeansPaired
  IgnoresHideExactlyOne
  EntriesAreUsed
  StopsForCause
PROPERTY DriftStops
