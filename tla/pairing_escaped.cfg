\* An ignore list that names one of two declarations by its qualified name.
CONSTANTS
  Catalogue <- MCEscaped
  Names <- MCEscapedNames
  Kinds <- MCKinds
  Entries <- MCNoEntries
  TypeSpecIgnores <- MCIgnoreQualified
  LaneIgnores <- MCIgnoreBoth
  None = None
SPECIFICATION Spec
INVARIANT IgnoresHideExactlyOne
