------------------------------ MODULE ProofLanes ------------------------------
(***************************************************************************)
(* Two lanes that run provers over the files of a checkout.                 *)
(* verifyFormalContract (L3): the TypeSpec operations bound to a behaviour, *)
(* the pinned Dafny sources, one Dafny run per source, a receipt.  Then     *)
(* verifyImplementationProofs (L4): the receipt of the first lane, the git  *)
(* revision and status, the pinned Rust sources with their markers, one     *)
(* Kani or Verus run per proof, a receipt.  A source is read by path, and   *)
(* the prover reads it again by path; others edit the files and move HEAD   *)
(* at any step.                                                             *)
(*                                                                          *)
(* A digest is the value it is a digest of.  What a text contains is given  *)
(* per content: symbols, markers, and whether the prover accepts it.        *)
(***************************************************************************)
EXTENDS FileTree, Rules

CONSTANTS
  Revisions,       \* revisions of the checkout: functions Paths -> Contents
  Symbols,         \* Symbols[c]: names declared in content c
  Markers,         \* Markers[c]: <<operation, behaviours, pin>> that c embeds
  Provable,        \* contents that their prover accepts
  TypeSpecs,       \* [diagnostics, bound, drift]: what the compiler may find
  Behaviors,       \* the behavioral authority: operation -> its language
  FormalManifests, \* [behavior, operations]
  ProofManifests   \* [behavior, revision, operations]

\* No text contains its own SHA-256.
ASSUME DigestAssumption == \A c \in Contents : \A m \in Markers[c] : m[3] # c
ASSUME LaneManifestsAssumption ==
  \A m \in ProofManifests :
    /\ m.operations \in Seq(Members(m.operations))
    /\ \A o \in Members(m.operations) : o.proofs \in Seq(Members(o.proofs))

VARIABLES
  head,        \* the revision that is checked out
  typespec, formalManifest, proofManifest,   \* the inputs
  lane,        \* what is done next
  op, proof,   \* positions in the manifest
  text,        \* content of each source that was read, None if refused
  findings, proofRuns,
  l3,          \* the formal receipt, None before
  presented,   \* the formal receipt as it reaches the second lane
  l4,          \* None, or [status, proofRuns]
  probedAt     \* when the git probes began

laneInputs == <<typespec, formalManifest, proofManifest>>
work == <<op, proof, text, findings, proofRuns>>
receipts == <<l3, presented, l4, probedAt>>
laneVars == <<tree, head, laneInputs, lane, work, receipts>>

LaneInit ==
  /\ head \in Revisions
  /\ typespec \in TypeSpecs /\ formalManifest \in FormalManifests
  /\ proofManifest \in ProofManifests
  /\ lane = "formal" /\ op = 1 /\ proof = 1
  /\ text = None /\ findings = {} /\ proofRuns = {}
  /\ l3 = None /\ presented = None /\ l4 = None /\ probedAt = 0

Add(rules) == findings' = findings \cup rules
Dafny == {b \in DOMAIN Behaviors : Behaviors[b] = "dafny"}

-----------------------------------------------------------------------------
(* Reading a pinned source: lstat, then readFile, both by path.              *)

LstatAdmits(p) == At(p) # None /\ Links(At(p)) = 1
Content(p) == IF At(p) = None THEN None ELSE data[At(p)]

-----------------------------------------------------------------------------
(* The formal lane.                                                          *)

FormalOps == formalManifest.operations
FormalIds == [k \in DOMAIN FormalOps |-> FormalOps[k].id]
FormalManifestAccepted ==
  /\ FormalOps # <<>> /\ Distinct(FormalIds)
  /\ Distinct([k \in DOMAIN FormalOps |-> <<FormalOps[k].source, FormalOps[k].symbol>>])

(* Manifest and authority name the same operations; the TypeSpec program     *)
(* compiles, binds every Dafny behaviour exactly once and does not differ    *)
(* from it.                                                                  *)
BehaviorFindings ==
  Breaks("formal-behavior-digest-mismatch", formalManifest.behavior # Behaviors)
  \cup Breaks("formal-operation-missing", ~(Members(FormalIds) \subseteq DOMAIN Behaviors))
  \cup Breaks("formal-language-mismatch", ~(Members(FormalIds) \cap DOMAIN Behaviors \subseteq Dafny))
  \cup Breaks("formal-manifest-operation-missing", ~(Dafny \subseteq Members(FormalIds)))
  \cup IF typespec.diagnostics THEN {"formal-typespec-diagnostics"} ELSE
       Breaks("formal-typespec-embedded-behavior-drift", typespec.drift)
       \cup Breaks("formal-typespec-binding-missing", \E b \in Dafny : typespec.bound[b] = 0)
       \cup Breaks("formal-typespec-binding-ambiguous", \E b \in Dafny : typespec.bound[b] > 1)

Bindings == IF typespec.diagnostics THEN [b \in DOMAIN Behaviors |-> 0] ELSE typespec.bound

InspectBindings ==
  /\ lane = "formal"
  /\ lane' = IF FormalManifestAccepted THEN "formalLstat" ELSE "rejected"
  /\ Add(BehaviorFindings)
  /\ text' = [k \in DOMAIN FormalOps |-> None]
  /\ UNCHANGED <<tree, head, laneInputs, op, proof, proofRuns, receipts>>

NextFormal == IF op < Len(FormalOps)
              THEN op' = op + 1 /\ lane' = "formalLstat"
              ELSE op' = 1 /\ lane' = "dafny"

LstatFormal ==
  /\ lane = "formalLstat"
  /\ IF LstatAdmits(FormalOps[op].source)
     THEN lane' = "formalRead" /\ UNCHANGED <<op, findings>>
     ELSE NextFormal /\ Add({"formal-source-unreadable"})
  /\ UNCHANGED <<tree, head, laneInputs, proof, text, proofRuns, receipts>>

(* A digest or a symbol that is wrong is a finding; the source is proved     *)
(* nevertheless.                                                             *)
ReadFormal ==
  /\ lane = "formalRead"
  /\ LET o == FormalOps[op]  c == Content(o.source) IN
     /\ text' = [text EXCEPT ![op] = c]
     /\ IF c = None THEN Add({"formal-source-unreadable"})
        ELSE Add(Breaks("formal-source-digest-mismatch", c # o.pin)
                 \cup Breaks("formal-symbol-missing", o.symbol \notin Symbols[c]))
  /\ NextFormal
  /\ UNCHANGED <<tree, head, laneInputs, proof, proofRuns, receipts>>

(* One run per source, for all the operations that were read from it.        *)
Readable == {k \in DOMAIN FormalOps : text[k] # None}
DafnyTargets == {FormalOps[k].source : k \in Readable}

ProbeDafny ==
  /\ lane = "dafny"
  /\ \/ lane' = "prove" /\ UNCHANGED findings
     \/ lane' = "sign" /\ Add({"formal-dafny-unavailable"})
  /\ UNCHANGED <<tree, head, laneInputs, op, proof, text, proofRuns, receipts>>

(* The prover reads the file itself; it may also fail on a good one.         *)
Dafnied == {r.source : r \in proofRuns}
RunDafny ==
  /\ lane = "prove"
  /\ \E s \in DafnyTargets \ Dafnied : \E exit \in {0, 1} :
       /\ exit = 0 => Content(s) \in Provable
       /\ proofRuns' = proofRuns \cup
            {[source |-> s, ops |-> {FormalOps[k].id : k \in {j \in Readable : FormalOps[j].source = s}},
              exit |-> exit, saw |-> Content(s)]}
       /\ Add(Breaks("formal-dafny-verification-failed", exit # 0))
  /\ UNCHANGED <<tree, head, laneInputs, lane, op, proof, text, receipts>>

SignFormal ==
  /\ \/ lane = "sign"
     \/ lane = "prove" /\ DafnyTargets \subseteq Dafnied
  /\ lane' = "present"
  /\ l3' = [status |-> IF findings = {} THEN "passed" ELSE "stopped_for_evaluation",
            behavior |-> Behaviors, findings |-> findings, bindings |-> Bindings,
            proofRuns |-> {[r EXCEPT !.saw = None] : r \in proofRuns},
            dafny |-> "formal-dafny-unavailable" \notin findings]
  /\ findings' = {} /\ proofRuns' = {} /\ text' = None /\ op' = 1
  /\ UNCHANGED <<tree, head, laneInputs, proof, presented, l4, probedAt>>

-----------------------------------------------------------------------------
(* The implementation lane.  The manifest names the receipt that was issued. *)

ProofOps == proofManifest.operations
Targets(o) == [k \in DOMAIN o.proofs |-> <<o.proofs[k].tool, o.proofs[k].source, o.proofs[k].harness>>]
ProofManifestAccepted ==
  /\ ProofOps # <<>> /\ Distinct([k \in DOMAIN ProofOps |-> ProofOps[k].id])
  /\ \A o \in Members(ProofOps) :
       /\ o.proofs # <<>> /\ Distinct(Targets(o))
       /\ \A q \in Members(o.proofs) : q.tool = "verus" => q.source = o.source /\ q.pin = o.pin

(* The receipt arrives as it was issued, or made green by hand, with its old *)
(* id or with the id of its new body.                                        *)
Greened(r) == [r EXCEPT !.status = "passed", !.findings = {}]
Present ==
  /\ lane = "present"
  /\ lane' = IF ProofManifestAccepted THEN "formalReceipt" ELSE "rejected"
  /\ \E body \in {l3, Greened(l3)} : \E id \in {l3, body} :
       presented' = [body |-> body, verificationId |-> id]
  /\ UNCHANGED <<tree, head, laneInputs, work, l3, l4, probedAt>>

L3 == presented.body
FormalReceiptFindings ==
  Breaks("implementation-behavior-digest-mismatch", proofManifest.behavior # Behaviors)
  \cup Breaks("implementation-formal-receipt-digest-mismatch", presented.verificationId # L3)
  \cup Breaks("implementation-formal-receipt-mismatch",
         \/ L3.status # "passed" \/ L3.findings # {} \/ ~L3.dafny
         \/ L3.behavior # Behaviors \/ presented.verificationId # l3)

CheckReceipt ==
  /\ lane = "formalReceipt"
  /\ lane' = "head"
  /\ Add(FormalReceiptFindings)
  /\ UNCHANGED <<tree, head, laneInputs, op, proof, text, proofRuns, receipts>>

(* A git that cannot be run, or fails, counts as the wrong answer.           *)
ProbeHead ==
  /\ lane = "head"
  /\ lane' = "status"
  /\ probedAt' = edits
  /\ \E failed \in BOOLEAN :
       Add(Breaks("implementation-revision-mismatch", failed \/ head # proofManifest.revision))
  /\ UNCHANGED <<tree, head, laneInputs, op, proof, text, proofRuns, l3, presented, l4>>

Clean == \A p \in Paths : Content(p) = head[p]
\* Mutant: a dirty work tree is not a finding.
ProbeStatusLeniently ==
  /\ lane = "status"
  /\ lane' = "tools"
  /\ UNCHANGED <<tree, head, laneInputs, work, receipts>>

ProbeStatus ==
  /\ lane = "status"
  /\ lane' = "tools"
  /\ \E failed \in BOOLEAN :
       Add(Breaks("implementation-working-tree-dirty", failed \/ ~Clean))
  /\ UNCHANGED <<tree, head, laneInputs, op, proof, text, proofRuns, receipts>>

(* A missing tool is a finding; the runs are tried and fail.                 *)
Tools == {q.tool : q \in UNION {Members(o.proofs) : o \in Members(ProofOps)}}
ProbeTools ==
  /\ lane = "tools"
  /\ lane' = "coverage"
  /\ \E missing \in SUBSET Tools :
       Add({"implementation-" \o t \o "-unavailable" : t \in missing})
  /\ UNCHANGED <<tree, head, laneInputs, op, proof, text, proofRuns, receipts>>

NextOperation == /\ proof' = 1
                 /\ IF op < Len(ProofOps) THEN op' = op + 1 /\ lane' = "coverage"
                    ELSE lane' = "receipt" /\ UNCHANGED op

CoverageFindings(id) ==
  Breaks("implementation-l3-binding-missing",
         IF id \in DOMAIN L3.bindings THEN L3.bindings[id] # 1 ELSE TRUE)
  \cup Breaks("implementation-l3-proof-missing",
         ~\E r \in L3.proofRuns : id \in r.ops /\ r.exit = 0)

CheckCoverage ==
  /\ lane = "coverage"
  /\ LET id == ProofOps[op].id IN
     IF id \in DOMAIN Behaviors
     THEN Add(CoverageFindings(id)) /\ lane' = "sourceLstat" /\ UNCHANGED <<op, proof>>
     ELSE Add(CoverageFindings(id) \cup {"implementation-operation-missing"}) /\ NextOperation
  /\ UNCHANGED <<tree, head, laneInputs, text, proofRuns, receipts>>

LstatSource ==
  /\ lane = "sourceLstat"
  /\ IF LstatAdmits(ProofOps[op].source) THEN lane' = "sourceRead" /\ UNCHANGED findings
     ELSE lane' = "proofLstat" /\ Add({"implementation-source-invalid"})
  /\ UNCHANGED <<tree, head, laneInputs, op, proof, text, proofRuns, receipts>>

(* A finding about the implementation does not stop its proofs.              *)
ReadSource ==
  /\ lane = "sourceRead"
  /\ lane' = "proofLstat"
  /\ LET o == ProofOps[op]  c == Content(o.source) IN
     IF c = None \/ c # o.pin THEN Add({"implementation-source-invalid"})
     ELSE Add(Breaks("implementation-symbol-missing", o.symbol \notin Symbols[c]))
  /\ UNCHANGED <<tree, head, laneInputs, op, proof, text, proofRuns, receipts>>

Target == ProofOps[op].proofs[proof]
NextProof == IF proof < Len(ProofOps[op].proofs)
             THEN proof' = proof + 1 /\ lane' = "proofLstat" /\ UNCHANGED op
             ELSE NextOperation

LstatProof ==
  /\ lane = "proofLstat"
  /\ IF LstatAdmits(Target.source) THEN lane' = "proofRead" /\ UNCHANGED <<op, proof, findings>>
     ELSE NextProof /\ Add({"implementation-proof-source-invalid"})
  /\ UNCHANGED <<tree, head, laneInputs, text, proofRuns, receipts>>

(* A proof source that is not the pinned one, does not name what it proves   *)
(* or lacks the harness is not run.                                          *)
ReadProof ==
  /\ lane = "proofRead"
  /\ LET o == ProofOps[op]  c == Content(Target.source)
         rules == IF c = None \/ c # Target.pin THEN {"implementation-proof-source-invalid"}
                  ELSE IF <<o.id, Behaviors, o.pin>> \notin Markers[c]
                  THEN {"implementation-proof-binding-missing"}
                  ELSE Breaks("implementation-kani-harness-missing",
                         Target.tool = "kani" /\ Target.harness \notin Symbols[c])
     IN IF rules = {} THEN lane' = "run" /\ UNCHANGED <<op, proof, findings>>
        ELSE NextProof /\ Add(rules)
  /\ UNCHANGED <<tree, head, laneInputs, text, proofRuns, receipts>>

RunProof ==
  /\ lane = "run"
  /\ \E exit \in {0, 1} :
       /\ exit = 0 => Content(Target.source) \in Provable
                      /\ "implementation-" \o Target.tool \o "-unavailable" \notin findings
       /\ proofRuns' = proofRuns \cup
            {[op |-> ProofOps[op].id, tool |-> Target.tool, source |-> Target.source,
              exit |-> exit, saw |-> Content(Target.source)]}
       /\ Add(Breaks("implementation-proof-failed", exit # 0))
  /\ NextProof
  /\ UNCHANGED <<tree, head, laneInputs, text, receipts>>

SignImplementation ==
  /\ lane = "receipt"
  /\ lane' = "done"
  /\ l4' = [status |-> IF findings = {} THEN "passed" ELSE "stopped_for_evaluation",
            proofRuns |-> proofRuns]
  /\ UNCHANGED <<tree, head, laneInputs, work, l3, presented, probedAt>>

-----------------------------------------------------------------------------
Working == lane \notin {"rejected", "done"}
EditTree ==
  /\ Working
  /\ Edit({})
  /\ UNCHANGED <<head, laneInputs, lane, work, receipts>>

(* A reset that moves HEAD and leaves the files.                             *)
MoveHead ==
  /\ Working
  /\ Edited
  /\ \E r \in Revisions \ {head} : head' = r
  /\ UNCHANGED <<folder, entry, data, mtime, ctime, laneInputs, lane, work, receipts>>

LaneStep ==
  \/ InspectBindings \/ LstatFormal \/ ReadFormal \/ ProbeDafny \/ RunDafny \/ SignFormal
  \/ Present \/ CheckReceipt \/ ProbeHead \/ ProbeStatus \/ ProbeTools \/ CheckCoverage
  \/ LstatSource \/ ReadSource \/ LstatProof \/ ReadProof \/ RunProof \/ SignImplementation
LaneNext == LaneStep \/ EditTree \/ MoveHead
LanesSpec == TreeInit /\ LaneInit /\ [][LaneNext]_laneVars

-----------------------------------------------------------------------------
(* An L4 receipt is earned.  Every proof of the manifest was run and         *)
(* accepted what its prover saw; that was the pinned content, unless the     *)
(* checkout was touched after the git probes; and the receipt of the first   *)
(* lane, as it was issued, passed and covers the operation by one binding    *)
(* and a Dafny run.                                                          *)
L4IsEarned ==
  l4 # None /\ l4.status = "passed" =>
    /\ l3.status = "passed"
    /\ \A o \in Members(ProofOps) :
         /\ o.id \in Dafny => o.id \in Members(FormalIds)
         /\ typespec.bound[o.id] = 1
         /\ \E r \in l3.proofRuns : o.id \in r.ops /\ r.exit = 0
         /\ \A q \in Members(o.proofs) :
              \E r \in l4.proofRuns :
                /\ r.op = o.id /\ r.tool = q.tool /\ r.source = q.source /\ r.exit = 0
                /\ r.saw \in Provable
                /\ r.saw = q.pin \/ edits > probedAt
    /\ edits > probedAt \/ \A p \in Paths : Content(p) = proofManifest.revision[p]
=============================================================================
