-------------------------- MODULE ProjectionManifest --------------------------
(***************************************************************************)
(* The evidence gates of a projection manifest: the normalization of the    *)
(* manifest, the admission of the Contract IR and the parity receipt that   *)
(* it is bound to, and the comparison of both with what the caller observed *)
(* and approved.  A gate answers with the rules it found broken; nothing is *)
(* admitted with one.                                                       *)
(*                                                                          *)
(* A digest is the value it is a digest of: two values are equal exactly    *)
(* when their digests are.  The three digests of a toolchain, a validator   *)
(* or a review are one pin each.  Malformed stands for any entry whose      *)
(* shape is refused.                                                        *)
(***************************************************************************)
EXTENDS Rules, Integers, FiniteSets

CONSTANTS
  InputRoles,  \* roles of the input files
  MaxEntries   \* admission limit of every list

ASSUME EntriesAssumption == MaxEntries \in Nat

Ids(items) == {item.id : item \in items}
ById(items, id) == CHOOSE item \in items : item.id = id
Fields(item, fields) == [f \in fields |-> item[f]]

-----------------------------------------------------------------------------
(* normalizeProjectionManifest.                                              *)

Normal(list, by) == Firsts(list, MaxEntries, by)
EntryFindings(list, by, name) == ListFindings(list, MaxEntries, by, name)

NormalProjection(p) ==
  [id |-> p.id, declarations |-> Normal(p.declarations, "itself"),
   outputs |-> Normal(p.outputs, "itself"), deltas |-> Normal(p.deltas, "itself"),
   validators |-> Normal(p.validators, "itself")]

(* A delta that needs a runtime validator names one and its negative         *)
(* fixture; one that needs none names neither.                               *)
DeltaFindings(d) ==
  Breaks("projection-delta-runtime-evidence-missing",
         d.required /\ (d.validator = Nothing \/ d.fixture = Nothing))
  \cup Breaks("projection-delta-runtime-evidence-unexpected",
         ~d.required /\ (d.validator # Nothing \/ d.fixture # Nothing))

(* normalizeDeltas and normalizeRuntimeValidators.                           *)
LossFindings(m) ==
  EntryFindings(m.deltas, "id", "projection-delta")
  \cup EntryFindings(m.validators, "id", "projection-runtime-validator")
  \cup UNION {DeltaFindings(m.deltas[k]) : k \in Looked(m.deltas, MaxEntries)}

(* normalizeToolchains, normalizeProjections and normalizeOutputs.           *)
NormalizeFindings(m) ==
  Breaks("projection-toolchains-empty", Len(m.toolchains) = 0)
  \cup Breaks("projection-targets-empty", Len(m.projections) = 0)
  \cup Breaks("projection-outputs-empty", Len(m.outputs) = 0)
  \cup EntryFindings(m.toolchains, "id", "projection-toolchain")
  \cup EntryFindings(m.declarations, "itself", "projection-declaration")
  \cup EntryFindings(m.projections, "id", "projection-target")
  \cup EntryFindings(m.outputs, "path", "projection-output")
  \cup (UNION {EntryFindings(m.projections[k].declarations, "itself", "projection-declaration-id")
               \cup EntryFindings(m.projections[k].outputs, "itself", "projection-output-path")
               \cup EntryFindings(m.projections[k].deltas, "itself", "projection-delta-reference")
               \cup EntryFindings(m.projections[k].validators, "itself",
                                  "projection-runtime-validator-reference")
               : k \in Looked(m.projections, MaxEntries)})
  \cup LossFindings(m)

(* Without an id, a contract binding or the inputs nothing is left to check. *)
Unusable(m) == Malformed \in {m.manifestId, m.contract, m.inputs}
Normalized(m) ==
  [manifestId |-> m.manifestId, contract |-> m.contract, inputs |-> m.inputs,
   toolchains |-> Normal(m.toolchains, "id"),
   declarations |-> Normal(m.declarations, "itself"),
   projections |-> {NormalProjection(p) : p \in Normal(m.projections, "id")},
   outputs |-> Normal(m.outputs, "path"),
   deltas |-> Normal(m.deltas, "id"),
   validators |-> Normal(m.validators, "id")]

(* What the manifest id is a digest of.                                      *)
Body(n) == Fields(n, DOMAIN n \ {"manifestId"})

-----------------------------------------------------------------------------
(* verifyProjectionContract.  intact: every self digest of the IR is right;  *)
(* role: its status, authorities, requirements, roles and scope counts are   *)
(* those of an admitted IR.                                                  *)

ReceiptFindings(receipt) ==
  Breaks("projection-receipt-status-invalid", receipt.status # "passed")
  \cup Breaks("projection-receipt-findings-not-zero", receipt.findings # {})
  \cup Breaks("projection-receipt-coverage-incomplete", ~receipt.covered)

ContractFindings(ir, receipt, currentSources) ==
  ReceiptFindings(receipt)
  \cup Breaks("projection-contract-ir-not-admissible", ~ir.role)
  \cup Breaks("projection-contract-ir-id-mismatch", ~ir.intact)
  \cup Breaks("projection-contract-receipt-binding-mismatch", ir.receipt # receipt)
  \cup Breaks("projection-contract-source-receipt-mismatch", receipt.inputs # ir.sources)
  \cup Breaks("projection-contract-current-source-mismatch", currentSources # ir.sources)

Binding(ir, receipt) ==
  [ir |-> ir, receipt |-> receipt, sources |-> ir.sources]

-----------------------------------------------------------------------------
(* verifyProjectionManifest, on a normalized manifest n.                     *)

IdFindings(n) ==
  Breaks("projection-manifest-id-mismatch", n.manifestId # Body(n))

(* Skipped when the contract itself was refused.                             *)
BindingFindings(n, ir, receipt) ==
  Breaks("projection-manifest-contract-binding-mismatch", n.contract # Binding(ir, receipt))

InputFindings(n, observed) ==
  Breaks("projection-input-binding-mismatch", \E r \in InputRoles : n.inputs[r] # observed[r])

(* A map by id of a list the caller supplies keeps the last of an id.        *)
Latest(list) == {list[k] : k \in {j \in DOMAIN list :
                   \A i \in DOMAIN list : i > j => list[i].id # list[j].id}}

ToolchainFindings(n, required) ==
  Breaks("projection-trusted-toolchain-duplicate", Cardinality(Latest(required)) # Len(required))
  \cup Breaks("projection-toolchain-binding-mismatch", ~(Latest(required) \subseteq n.toolchains))
  \cup Breaks("projection-toolchain-unexpected", ~(Ids(n.toolchains) \subseteq Ids(Latest(required))))

DeclarationFindings(n, ir) ==
  Breaks("projection-declaration-closure-mismatch", n.declarations # DOMAIN ir.assertions)

OutputFindings(n, observed) ==
  Breaks("projection-output-binding-mismatch", ~(n.outputs \subseteq observed))
  \cup Breaks("projection-output-unmanifested",
         ~({o.path : o \in observed} \subseteq {o.path : o \in n.outputs}))

OutputsOf(n, p) == {o.path : o \in {q \in n.outputs : q.projection = p.id}}
TopologyFindings(n, required) ==
  Breaks("projection-required-targets-missing", required = {})
  \cup (IF required = {} THEN {} ELSE
    Breaks("projection-output-target-unknown",
           \E o \in n.outputs : o.projection \notin Ids(n.projections))
    \cup Breaks("projection-required-target-missing", ~(required \subseteq Ids(n.projections)))
    \cup Breaks("projection-target-unexpected", ~(Ids(n.projections) \subseteq required))
    \cup Breaks("projection-target-declaration-coverage-mismatch",
           \E p \in n.projections : p.declarations # n.declarations)
    \cup Breaks("projection-target-output-closure-mismatch",
           \E p \in n.projections : p.outputs # OutputsOf(n, p))
    \cup Breaks("projection-target-output-empty", \E p \in n.projections : p.outputs = {}))

(* Deltas and validators are referenced by their own projection and by no    *)
(* other; what a projection references of another is not a reference.        *)
Own(items, p, ids) == {id \in ids : id \in Ids(items) /\ ById(items, id).projection = p.id}
Referenced(n) == UNION {Own(n.deltas, p, p.deltas) : p \in n.projections}
ReferencedValidators(n) == UNION {Own(n.validators, p, p.validators) : p \in n.projections}
ReferenceFindings(n) ==
  Breaks("projection-delta-reference-mismatch",
         \E p \in n.projections : Own(n.deltas, p, p.deltas) # p.deltas)
  \cup Breaks("projection-runtime-validator-reference-mismatch",
         \E p \in n.projections : Own(n.validators, p, p.validators) # p.validators)
  \cup Breaks("projection-delta-unreferenced", Ids(n.deltas) # Referenced(n))
  \cup Breaks("projection-runtime-validator-unreferenced",
         Ids(n.validators) # ReferencedValidators(n))

ApprovedFields == {"id", "projection", "declaration", "source", "approval", "fixture"}
DeltaEvidenceFindings(n, ir, approved) ==
  Breaks("projection-delta-source-stale",
         \E d \in n.deltas : d.declaration \notin DOMAIN ir.assertions
                             \/ ir.assertions[d.declaration] # d.source)
  \cup Breaks("projection-delta-approval-mismatch",
         ~({Fields(d, ApprovedFields) : d \in n.deltas} \subseteq Latest(approved)))
  \cup Breaks("projection-approved-delta-unmanifested",
         ~(Ids(Latest(approved)) \subseteq Ids(n.deltas)))

\* Mutant: the validator of another projection will do.
ExecutesAnywhere(n, d) ==
  \E v \in n.validators :
    v.id = d.validator /\ v.fixture = d.fixture /\ v.id \in ReferencedValidators(n)

Executes(n, d) ==
  \E v \in n.validators :
    /\ v.id = d.validator /\ v.projection = d.projection /\ v.fixture = d.fixture
    /\ v.id \in ReferencedValidators(n)
ValidatorFindings(n, expected) ==
  Breaks("projection-delta-runtime-validator-mismatch",
         \E d \in n.deltas : d.required /\ ~Executes(n, d))
  \cup Breaks("projection-runtime-validator-binding-mismatch", ~(n.validators \subseteq Latest(expected)))
  \cup Breaks("projection-expected-runtime-validator-unmanifested",
         ~(Ids(Latest(expected)) \subseteq Ids(n.validators)))

(* ev: what the caller knows of its own: the current sources, the observed   *)
(* inputs and outputs, and its policy.                                       *)
ManifestFindings(m, ir, receipt, ev) ==
  LET contract == ContractFindings(ir, receipt, ev.sources)
      n == Normalized(m)
  IN contract \cup
     IF Unusable(m) THEN {"projection-manifest-invalid"} ELSE
       NormalizeFindings(m) \cup IdFindings(n)
       \cup (IF contract = {} THEN BindingFindings(n, ir, receipt) ELSE {})
       \cup InputFindings(n, ev.inputs)
       \cup ToolchainFindings(n, ev.toolchains)
       \cup DeclarationFindings(n, ir)
       \cup OutputFindings(n, ev.outputs)
       \cup TopologyFindings(n, ev.projections)
       \cup ReferenceFindings(n)
       \cup DeltaEvidenceFindings(n, ir, ev.approved)
       \cup ValidatorFindings(n, ev.validators)

(* createProjectionManifest refuses what does not normalize and signs what   *)
(* does; it leaves the references to the verification.                       *)
Draft(ir, receipt, given) ==
  [manifestId |-> Nothing, contract |-> Binding(ir, receipt), inputs |-> given.inputs,
   toolchains |-> given.toolchains, declarations |-> given.declarations,
   projections |-> given.projections, outputs |-> given.outputs,
   deltas |-> given.deltas, validators |-> given.validators]
Signed(m) == [m EXCEPT !.manifestId = Body(Normalized(m))]
=============================================================================
