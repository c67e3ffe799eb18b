------------------------- MODULE ProjectionAdmission -------------------------
(***************************************************************************)
(* verifyProjectionWorkspace: one verification of a projection manifest     *)
(* against the current files of a checkout, and its receipt.  The contract  *)
(* is verified for the receipt, then again before and after the projection  *)
(* files are read, one by one; the manifest is judged against what was      *)
(* read.  Others change sources and files at any step.                      *)
(*                                                                          *)
(* The three source lanes are one revision here, and verifying a contract   *)
(* is one step; EvidenceChain has its parts.                                *)
(***************************************************************************)
EXTENDS StableRead, ProjectionManifest, FiniteSetsExt

CONSTANTS
  Sources,    \* revisions of the sources
  Ir, Parity, \* the Contract IR and the parity receipt supplied
  Manifests, Policies,   \* manifests and policies that may be supplied
  Evidence,   \* the one read at a time, a member of Readers
  MaxFiles, MaxTotal     \* file count and aggregate limits

ASSUME EvidenceAssumption == Evidence \in Readers
ASSUME ReportAssumption == None # {} /\ None # "passed"

(* JSON arrays.                                                              *)
Listed(list) == list \in Seq(Members(list))
ASSUME PoliciesAssumption ==
  \A p \in Policies : Listed(p.inputs) /\ Listed(p.outputs) /\ Listed(p.approved)
ASSUME ManifestsAssumption ==
  \A m \in Manifests : Listed(m.projections) /\ Listed(m.validators)

VARIABLES
  manifest, policy,
  source,       \* current revision of the sources
  stage,        \* where the verification is
  verification, \* whether the contract was verified for the receipt
  queue,        \* paths still to read
  observed,     \* content read at each path, None if not read
  report,       \* None, or the rules broken
  receipt,      \* None, or the status of the receipt
  seen,         \* contents of each file while it was open for its read
  sourcesSince  \* revisions of the sources since the last file was read

request == <<manifest, policy>>
progress == <<stage, verification, queue, observed, report, receipt>>
witness == <<seen, sourcesSince>>
vars == <<tree, reading, request, source, progress, witness>>


AdmissionInit ==
  /\ manifest \in Manifests /\ policy \in Policies
  /\ source \in Sources
  /\ stage = "policy" /\ verification = FALSE
  /\ queue = <<>> /\ observed = [p \in Paths |-> None]
  /\ report = None /\ receipt = None
  /\ seen = [p \in Paths |-> {}] /\ sourcesSince = {}

InputPaths == [k \in 1..Len(policy.inputs) |-> policy.inputs[k].path]
OutputPaths == [k \in 1..Len(policy.outputs) |-> policy.outputs[k].path]
AllPaths == InputPaths \o OutputPaths

(* normalizeProjectionVerificationPolicy.                                    *)
PolicyAccepted ==
  /\ {policy.inputs[k].role : k \in DOMAIN policy.inputs} = InputRoles
  /\ Distinct(AllPaths)
  /\ policy.outputs # <<>> /\ Len(policy.outputs) <= MaxEntries
  /\ policy.toolchains # <<>> /\ Cardinality(Latest(policy.toolchains)) = Len(policy.toolchains)
  /\ policy.projections # {} /\ policy.declarations # {}

(* verifyConsumerContract returns, or throws.                                *)
ContractVerified ==
  /\ ContractFindings(Ir, Parity, source) = {}
  /\ policy.declarations = DOMAIN Ir.assertions

-----------------------------------------------------------------------------
Step(from, to) == stage = from /\ stage' = to
(* stopped(stage) of current-files.mjs: one rule, and no binding.            *)
Stop(rule) == stage' = "report" /\ report' = {rule}

(* The policy is normalized; a refused one is an error without a receipt.    *)
AcceptPolicy ==
  /\ Step("policy", IF PolicyAccepted THEN "verify" ELSE "rejected")
  /\ UNCHANGED <<tree, reading, request, source, verification, queue, observed, report,
                 receipt, witness>>

VerifyForReceipt ==
  /\ Step("verify", "contract")
  /\ verification' = ContractVerified
  /\ UNCHANGED <<tree, reading, request, source, queue, observed, report, receipt, witness>>

VerifyContract ==
  /\ stage = "contract"
  /\ IF ~ContractVerified
     THEN Stop("projection-current-files-contract-invalid") /\ UNCHANGED queue
     ELSE IF Len(AllPaths) > MaxFiles
     THEN Stop("projection-current-files-files-invalid") /\ UNCHANGED queue
     ELSE stage' = "files" /\ queue' = AllPaths /\ UNCHANGED report
  /\ UNCHANGED <<tree, reading, request, source, verification, observed, receipt, witness>>

(* hashProjectionFiles: one file after the other, each within what is left   *)
(* of the aggregate limit.                                                   *)
Size(content) == IF content = None THEN 0 ELSE Len(content)
Total == MapThenSumSet(LAMBDA p : Size(observed[p]), Paths)

BeginFile ==
  /\ stage = "files" /\ queue # <<>> /\ reader[Evidence].at = "idle"
  /\ Begin(Evidence, Head(queue), TRUE, Least(MaxBytes, MaxTotal - Total))
  /\ UNCHANGED <<request, source, progress, witness>>

ReadFile ==
  /\ ReadStep(Evidence)
  /\ UNCHANGED <<request, source, progress, witness>>

HashFile ==
  /\ stage = "files" /\ reader[Evidence].at = "done"
  /\ reader' = [reader EXCEPT ![Evidence] = Idle]
  /\ observed' = [observed EXCEPT ![Head(queue)] = reader[Evidence].got]
  /\ seen' = [seen EXCEPT ![Head(queue)] = held[Evidence]]
  /\ queue' = Tail(queue)
  /\ IF Tail(queue) = <<>> THEN stage' = "recheck" /\ sourcesSince' = {source}
     ELSE UNCHANGED <<stage, sourcesSince>>
  /\ held' = [held EXCEPT ![Evidence] = {}]
  /\ UNCHANGED <<tree, request, source, verification, report, receipt>>

FileRefused ==
  /\ stage = "files" /\ reader[Evidence].at = "refused"
  /\ Stop("projection-current-files-files-invalid")
  /\ reader' = [reader EXCEPT ![Evidence] = Idle]
  /\ UNCHANGED <<tree, held, request, source, verification, queue, observed, receipt, witness>>

\* Mutant: the sources are not verified after the files were read.
VerifyOnce ==
  /\ Step("recheck", "manifest")
  /\ UNCHANGED <<tree, reading, request, source, verification, queue, observed, report, receipt, witness>>

(* Sources are verified once more after the files were read.                 *)
VerifyAgain ==
  /\ stage = "recheck"
  /\ IF ContractVerified THEN stage' = "manifest" /\ UNCHANGED report
     ELSE Stop("projection-current-files-contract-invalid")
  /\ UNCHANGED <<tree, reading, request, source, verification, queue, observed, receipt, witness>>

(* The current sources are taken to be those that the IR names: they have    *)
(* just been verified.                                                       *)
Observations ==
  [sources |-> Ir.sources,
   inputs |-> [r \in InputRoles |->
     LET k == CHOOSE j \in DOMAIN policy.inputs : policy.inputs[j].role = r
     IN [path |-> InputPaths[k], content |-> observed[InputPaths[k]]]],
   outputs |-> {[path |-> policy.outputs[k].path, content |-> observed[policy.outputs[k].path],
                 projection |-> policy.outputs[k].projection] : k \in DOMAIN policy.outputs},
   toolchains |-> policy.toolchains, projections |-> policy.projections,
   approved |-> policy.approved, validators |-> policy.validators]

JudgeManifest ==
  /\ Step("manifest", "report")
  /\ report' = ManifestFindings(manifest, Ir, Parity, Observations)
  /\ UNCHANGED <<tree, reading, request, source, verification, queue, observed, receipt, witness>>

(* createProjectionVerificationReceipt: a report that passed without the     *)
(* verification is a failure of the verifier.                                *)
WriteReceipt ==
  /\ Step("report", "done")
  /\ receipt' = IF report # {} THEN "stopped_for_evaluation"
                ELSE IF verification THEN "passed" ELSE "failed"
  /\ UNCHANGED <<tree, reading, request, source, verification, queue, observed, report, witness>>

-----------------------------------------------------------------------------
EditFiles ==
  /\ stage \notin {"policy", "done", "rejected"}
  /\ EditSeen
  /\ UNCHANGED <<request, source, progress, witness>>

EditSources ==
  /\ stage \notin {"policy", "done", "rejected"}
  /\ Edited
  /\ \E s \in Sources \ {source} :
       /\ source' = s
       /\ sourcesSince' = IF sourcesSince = {} THEN {} ELSE sourcesSince \cup {s}
  /\ UNCHANGED <<folder, entry, data, mtime, ctime, reading, request, progress, seen>>

AdmissionStep ==
  \/ AcceptPolicy \/ VerifyForReceipt \/ VerifyContract \/ BeginFile \/ ReadFile \/ HashFile
  \/ FileRefused \/ VerifyAgain \/ JudgeManifest \/ WriteReceipt
AdmissionNext == AdmissionStep \/ EditFiles \/ EditSources
AdmissionSpec == TreeInit /\ ReadInit /\ AdmissionInit /\ [][AdmissionNext]_vars

-----------------------------------------------------------------------------
(* A passed receipt is about files and sources that were there: each file    *)
(* had, while it was open for this verification, the whole content that the  *)
(* manifest names, and the sources had the revision of the IR after the last *)
(* of the files was read.                                                    *)
AdmittedIsCurrent ==
  receipt = "passed" =>
    /\ Ir.sources \in sourcesSince
    /\ \A r \in InputRoles :
         manifest.inputs[r].content \in seen[manifest.inputs[r].path]
    /\ \A k \in DOMAIN policy.outputs :
         \E o \in Normal(manifest.outputs, "path") :
           /\ o.path = policy.outputs[k].path
           /\ o.content \in seen[o.path]

(* An admissible manifest leaves nothing open: every output that the caller  *)
(* knows belongs to exactly one required projection, every projection covers *)
(* the whole contract, and every loss that was approved with a negative      *)
(* fixture is executed: by a trusted validator of the same projection, on    *)
(* that fixture, in the list of that projection.                             *)
AdmissibleIsClosed ==
  report = {} =>
    LET projections == Normal(manifest.projections, "id") IN
    /\ \A k \in DOMAIN policy.outputs :
         \E p \in projections :
           /\ p.id \in policy.projections /\ p.id = policy.outputs[k].projection
           /\ policy.outputs[k].path \in Normal(p.outputs, "itself")
           /\ \A q \in projections \ {p} :
                policy.outputs[k].path \notin Normal(q.outputs, "itself")
    /\ \A p \in projections : Normal(p.declarations, "itself") = DOMAIN Ir.assertions
    /\ \A a \in Latest(policy.approved) :
         a.fixture # Nothing =>
           \E v \in Latest(policy.validators) :
             /\ v.projection = a.projection /\ v.fixture = a.fixture
             /\ \E p \in projections :
                  p.id = a.projection /\ v.id \in Normal(p.validators, "itself")
=============================================================================
