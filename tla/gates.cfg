\* Every gate, one per behaviour: genuine evidence over files, sources and
\* revisions that change twice, and any evidence over files that stay.
CONSTANTS
  None = None
  Nothing = Nothing
  Malformed = Malformed
  in = a
  spec = a
  eula = a
  outA = b
  lib = b
  terms = b
  outB = c
  check = c
  nda = c
  Paths = {a, b, c}
  Folders = {"here", "other", "linked"}
  Linked = "linked"
  Inodes = {1, 2, 3, 4, 5}
  Contents <- MCContents
  MaxEdits = 2
  Readers = {e, s, i}
  Evidence = e
  MaxBytes = 2
  InputRoles = {"inventory"}
  MaxEntries = 3
  Sources = {1, 2}
  Ir <- MCIr
  Parity <- MCParity
  Manifests <- MCManifests
  Policies <- MCPolicies
  MaxFiles = 3
  MaxTotal = 6
  SchemaRead = s
  InstanceRead = i
  SchemaPath = a
  InstancePath = b
  Modes = {"build", "runtime"}
  Judge <- MCJudge
  Revisions <- MCRevisions
  Symbols <- MCSymbols
  Markers <- MCMarkers
  Provable <- MCProvable
  TypeSpecs <- MCTypeSpecs
  Behaviors <- MCBehaviors
  FormalManifests <- MCFormalManifests
  ProofManifests <- MCProofManifests
  Gates = {"protobuf", "wit", "openapi"}
  Projections <- MCProjections
  FieldNumbers = {1, 2}
  EnumNumbers = {1, 2}
  Arity <- MCArity
  MaxItems = 2
  MaxBudget = 5
  Folded <- MCFolded
  Limits = {2}
  Lanes = {1, 2}
  Declared <- MCDeclared
  Corpora <- MCCorpora
  RunsOf <- MCRunsOf
  Requirements <- MCRequirements
  MaxAdapters = 2
  MaxResults = 2
  MaxErrors = 2
  MaxMoves = 2
  ClassOf <- MCClassOf
  Order <- MCOrder
  MarksOf <- MCMarksOf
  Rollouts <- MCRollouts
  Admissions <- MCAdmissions
  MaxDocuments = 3
  MinTypes = 1
  MaxDocument = 2
SPECIFICATION GatesSpec
CONSTRAINT StillGreen
INVARIANTS
  ReadIsAtomic
  AdmittedIsCurrent
  AdmissibleIsClosed
  L4IsEarned
  OldClientsAreServed
  ReceiptsTellAll
  RuntimePassIsEarned
  RolloutIsComplete
CHECK_DEADLOCK FALSE
