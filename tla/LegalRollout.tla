----------------------------- MODULE LegalRollout -----------------------------
(***************************************************************************)
(* runLegalRollout: the legal documents of a checkout are compared with a   *)
(* manifest.  The manifest is accepted by both schema lanes of an           *)
(* admissible Contract IR and normalized; the two directories are listed,   *)
(* one after the other; every document is read by path and compared with    *)
(* its digest, its status and the marks its text must carry.  Others change *)
(* the files at any step.                                                   *)
(*                                                                          *)
(* The verification of the Contract IR and the verdict of a lane are        *)
(* inputs; EvidenceChain has the first.                                     *)
(***************************************************************************)
EXTENDS FileTree, Rules

CONSTANTS
  ClassOf,      \* ClassOf[p]: the directory of path p, "external" or "internal"
  Order,        \* the paths, sorted
  MarksOf,      \* MarksOf[c]: what the text of content c carries
  Rollouts,     \* manifests: [root, approved, documents]
  Admissions,   \* [ir, generated, authored]: verdicts TRUE, FALSE, or Nothing
  MaxDocuments, MinTypes, MaxDocument   \* limits; MinTypes of each class

Classes == <<"external", "internal">>

ASSUME OrderAssumption ==
  /\ Order \in Seq(Members(Order)) /\ Paths \subseteq Members(Order)
  /\ \A p \in Paths : ClassOf[p] \in Members(Classes)
ASSUME RolloutsAssumption == \A m \in Rollouts : m.documents \in Seq(Members(m.documents))
ASSUME VerdictsAssumption ==
  \A a \in Admissions : /\ a.ir \in BOOLEAN
                        /\ {a.generated, a.authored} \subseteq BOOLEAN \cup {Nothing}
ASSUME OutcomeAssumption == None # "passed" /\ MaxDocuments \in Nat

RequiredMarks == {"placeholder", "signature", "destination"}
ForbiddenMarks == {"executed", "secret"}

VARIABLES
  rollout, admission, releasing,   \* the inputs
  rolloutAt,     \* what is done next
  pending,       \* names a directory listing gave, or documents, still to look at
  listed,        \* paths of documents that were found
  broken,        \* rules broken so far
  pinned,        \* documents that were read, with the content read
  rolloutReceipt,   \* None, or the status of the receipt
  steady,        \* paths that have had a file all along
  had            \* had[p]: contents that path p has led to

rolloutInputs == <<rollout, admission, releasing>>
rolloutWork == <<rolloutAt, pending, listed, broken, pinned, rolloutReceipt>>
rolloutWitness == <<steady, had>>
rolloutVars == <<tree, rolloutInputs, rolloutWork, rolloutWitness>>

Here(p) == IF At(p) = None THEN {} ELSE {data[At(p)]}
Filled == {p \in Paths : At(p) # None}

RolloutInit ==
  /\ rollout \in Rollouts /\ admission \in Admissions /\ releasing \in BOOLEAN
  /\ rolloutAt = "manifest" /\ pending = {} /\ listed = {} /\ broken = {} /\ pinned = {}
  /\ rolloutReceipt = None
  /\ steady = Filled /\ had = [p \in Paths |-> Here(p)]

Break(rules) == broken' = broken \cup rules
(* The names of a directory and the documents are looked at in order.        *)
Earliest(ps) ==
  Order[CHOOSE k \in DOMAIN Order :
          Order[k] \in ps /\ \A j \in DOMAIN Order : Order[j] \in ps => k <= j]

-----------------------------------------------------------------------------
(* validateLegalManifestLanes.  Nothing is a lane that refused or failed.    *)

LaneFindings ==
  Breaks("legal-rollout-contract-ir-not-admissible", ~admission.ir)
  \cup Breaks("legal-manifest-schema-invalid", FALSE \in {admission.generated, admission.authored})
  \cup Breaks("legal-manifest-validation-refused", Nothing \in {admission.generated, admission.authored})
  \cup Breaks("legal-manifest-lane-divergence", admission.generated # admission.authored)

(* auditLegalRollout, on the entries within the limit.  A document without a *)
(* class, or with a path that another has, is dropped; its type is counted   *)
(* when it has a class.                                                      *)
Entries == {k \in DOMAIN rollout.documents : k <= MaxDocuments}
Classed == {k \in Entries : rollout.documents[k] # Malformed}
PathsNamed == {rollout.documents[k].path : k \in Classed}
Kept == {k \in Classed :
           /\ \A j \in Classed : j < k => rollout.documents[j].path # rollout.documents[k].path
           /\ ClassOf[rollout.documents[k].path] = rollout.documents[k].class}
Documents == {rollout.documents[k] : k \in Kept}
TypesOf(class) == {rollout.documents[k].type : k \in {j \in Classed : rollout.documents[j].class = class}}

ManifestRules ==
  Breaks("legal-manifest-document-limit", Len(rollout.documents) > MaxDocuments)
  \cup Breaks("legal-manifest-root-mismatch", ~rollout.root)
  \cup Breaks("legal-manifest-classification", Classed # Entries)
  \cup Breaks("legal-manifest-document-id-duplicate",
         \E j, k \in Classed : j < k /\ rollout.documents[j].id = rollout.documents[k].id)
  \cup Breaks("legal-manifest-approval-record",
         \E k \in Classed : rollout.documents[k].status = "approved" /\ ~rollout.documents[k].recorded)
  \cup Breaks("legal-manifest-document-path-duplicate",
         \E j, k \in Classed : j < k /\ rollout.documents[j].path = rollout.documents[k].path)
  \cup Breaks("legal-manifest-document-boundary",
         \E k \in Classed : ClassOf[rollout.documents[k].path] # rollout.documents[k].class)
  \cup Breaks("legal-rollout-coverage",
         \E k \in DOMAIN Classes : Cardinality(TypesOf(Classes[k])) < MinTypes)
  \cup Breaks("legal-rollout-release-not-approved", releasing /\ ~rollout.approved)
  \cup Breaks("legal-rollout-inconsistent-approval",
         rollout.approved /\ \E d \in Documents : d.required /\ d.status # "approved")

AuditManifest ==
  /\ rolloutAt = "manifest"
  /\ rolloutAt' = "external"
  /\ Break(LaneFindings \cup ManifestRules)
  /\ UNCHANGED <<tree, rolloutInputs, pending, listed, pinned, rolloutReceipt, rolloutWitness>>

-----------------------------------------------------------------------------
(* collectMarkdown: readdir, then lstat of every name it gave.  A directory  *)
(* that is not there is a finding; a name that is gone by then is an error   *)
(* of the whole run, as it has no receipt of its own.                        *)

ListDirectory ==
  /\ rolloutAt \in {"external", "internal"}
  /\ LET names == {p \in Filled : ClassOf[p] = rolloutAt} IN
     \/ /\ pending' = names /\ UNCHANGED broken
     \/ /\ names = {} /\ pending' = {} /\ Break({"legal-classification-directory-missing"})
  /\ rolloutAt' = IF rolloutAt = "external" THEN "externalNames" ELSE "internalNames"
  /\ UNCHANGED <<tree, rolloutInputs, listed, pinned, rolloutReceipt, rolloutWitness>>

LstatName ==
  /\ rolloutAt \in {"externalNames", "internalNames"} /\ pending # {}
  /\ IF At(Earliest(pending)) = None
     THEN /\ rolloutAt' = "done" /\ rolloutReceipt' = "failed" /\ broken' = {"legal-rollout-execution-failed"}
          /\ pinned' = {} /\ UNCHANGED <<pending, listed>>
     ELSE /\ listed' = listed \cup {Earliest(pending)} /\ pending' = pending \ {Earliest(pending)}
          /\ UNCHANGED <<rolloutAt, broken, pinned, rolloutReceipt>>
  /\ UNCHANGED <<tree, rolloutInputs, rolloutWitness>>

ListInternal ==
  /\ rolloutAt = "externalNames" /\ pending = {}
  /\ rolloutAt' = "internal"
  /\ UNCHANGED <<tree, rolloutInputs, pending, listed, broken, pinned, rolloutReceipt, rolloutWitness>>

\* Mutant: only the documents of the manifest are looked for.
CompareManifested ==
  /\ rolloutAt = "internalNames" /\ pending = {}
  /\ rolloutAt' = "documents"
  /\ Break(Breaks("legal-rollout-missing-document", ~(PathsNamed \subseteq listed)))
  /\ pending' = {d.path : d \in Documents} \cap listed
  /\ UNCHANGED <<tree, rolloutInputs, listed, pinned, rolloutReceipt, rolloutWitness>>

(* A duplicate counts as manifested; only listed documents are read.         *)
CompareInventory ==
  /\ rolloutAt = "internalNames" /\ pending = {}
  /\ rolloutAt' = "documents"
  /\ Break(Breaks("legal-rollout-unmanifested-document", ~(listed \subseteq PathsNamed))
           \cup Breaks("legal-rollout-missing-document", ~(PathsNamed \subseteq listed)))
  /\ pending' = {d.path : d \in Documents} \cap listed
  /\ UNCHANGED <<tree, rolloutInputs, listed, pinned, rolloutReceipt, rolloutWitness>>

-----------------------------------------------------------------------------
(* A document: lstat of its ancestors and of itself, lstat of itself again,  *)
(* then readFile, each by path.  An error at any of them is one finding.     *)

DocumentAt(p) == CHOOSE d \in Documents : d.path = p
Unread == Break({"legal-document-read-failed"}) /\ pending' = pending \ {Earliest(pending)}

(* rejectSymlinkComponents. *)
WalkDocument ==
  /\ rolloutAt = "documents" /\ pending # {}
  /\ IF folder # Linked /\ At(Earliest(pending)) # None
     THEN rolloutAt' = "lstat" /\ UNCHANGED <<pending, broken>>
     ELSE Unread /\ UNCHANGED rolloutAt
  /\ UNCHANGED <<tree, rolloutInputs, listed, pinned, rolloutReceipt, rolloutWitness>>

(* readOwnedFile, before it reads. *)
LstatDocument ==
  /\ rolloutAt = "lstat"
  /\ LET i == At(Earliest(pending)) IN
     IF i # None /\ Links(i) = 1 /\ Len(data[i]) <= MaxDocument
     THEN rolloutAt' = "read" /\ UNCHANGED <<pending, broken>>
     ELSE Unread /\ rolloutAt' = "documents"
  /\ UNCHANGED <<tree, rolloutInputs, listed, pinned, rolloutReceipt, rolloutWitness>>

(* inspectDocumentText.                                                      *)
TextFindings(d, marks) ==
  Breaks("legal-document-classification-marker", d.class \notin marks)
  \cup Breaks("legal-document-marks", ~(RequiredMarks \subseteq marks))
  \cup Breaks("legal-document-appears-executed", ForbiddenMarks \cap marks # {})
  \cup Breaks("legal-document-draft-banner", d.status = "draft" /\ "draft" \notin marks)
  \cup Breaks("legal-document-approved-still-draft", d.status = "approved" /\ "draft" \in marks)
  \cup Breaks("legal-document-approved-banner", d.status = "approved" /\ "approved" \notin marks)
  \cup Breaks("legal-document-release-status", releasing /\ d.required /\ d.status # "approved")

(* The file is gone or cannot be read; or what was read is compared with the *)
(* digest, and is text to inspect or, whatever its content, no UTF-8.        *)
ReadDocument ==
  /\ rolloutAt = "read"
  /\ rolloutAt' = "documents"
  /\ LET d == DocumentAt(Earliest(pending))
         content == data[At(d.path)]
         moved == Breaks("legal-document-digest-mismatch", content # d.sha)
     IN \/ Unread /\ UNCHANGED pinned
        \/ /\ At(d.path) # None
           /\ pending' = pending \ {Earliest(pending)}
           /\ \/ /\ Break(moved \cup TextFindings(d, MarksOf[content]))
                 /\ pinned' = pinned \cup {<<d.id, d.path, content>>}
              \/ Break(moved \cup {"legal-document-read-failed"}) /\ UNCHANGED pinned
  /\ UNCHANGED <<tree, rolloutInputs, listed, rolloutReceipt, rolloutWitness>>

SignRollout ==
  /\ rolloutAt = "documents" /\ pending = {}
  /\ rolloutAt' = "done"
  /\ rolloutReceipt' = IF broken = {} THEN "passed" ELSE "stopped_for_evaluation"
  /\ UNCHANGED <<tree, rolloutInputs, pending, listed, broken, pinned, rolloutWitness>>

EditDocuments ==
  /\ rolloutAt # "done"
  /\ Edit({})
  /\ steady' = {p \in steady : entry'[folder'][p] # None}
  /\ had' = [p \in Paths |-> LET i == entry'[folder'][p] IN
                             IF i = None THEN had[p] ELSE had[p] \cup {data'[i]}]
  /\ UNCHANGED <<rolloutInputs, rolloutWork>>

RolloutNext ==
  \/ AuditManifest \/ ListDirectory \/ LstatName \/ ListInternal \/ CompareInventory
  \/ WalkDocument \/ LstatDocument \/ ReadDocument \/ SignRollout \/ EditDocuments
LegalSpec == TreeInit /\ RolloutInit /\ [][RolloutNext]_rolloutVars

-----------------------------------------------------------------------------
(* "every manifested document passed the requested integrity and hygiene     *)
(* controls; and the legal tree contains no unmanifested or missing          *)
(* agreement Markdown" (docs/legal-rollout-admission.md), as far as a run    *)
(* over a moving tree can say it: every document that kept its path was      *)
(* manifested, each manifested one was there with exactly the content that   *)
(* the manifest pins, that content is a blank template of its class, and in  *)
(* release mode what is required was approved, in the manifest and in the    *)
(* text.                                                                     *)
RolloutIsComplete ==
  rolloutReceipt = "passed" =>
    /\ admission.ir /\ admission.generated = TRUE /\ admission.authored = TRUE
    /\ steady \subseteq {d.path : d \in Members(rollout.documents)}
    /\ \A d \in Members(rollout.documents) :
         /\ d.sha \in had[d.path]
         /\ d.class \in MarksOf[d.sha] /\ RequiredMarks \subseteq MarksOf[d.sha]
         /\ ForbiddenMarks \cap MarksOf[d.sha] = {}
         /\ (releasing \/ rollout.approved) /\ d.required =>
              d.status = "approved" /\ d.recorded
              /\ "approved" \in MarksOf[d.sha] /\ "draft" \notin MarksOf[d.sha]
=============================================================================
