------------------------------- MODULE GateProofs -------------------------------
(***************************************************************************)
(* The gates that end a release: what a passed receipt of the legal rollout *)
(* and an L4 receipt say of a tree that others change, for any manifests,   *)
(* tree and edits; and what a passed runtime conformance run says of the    *)
(* evidence it was given, for any evidence, catalog and limits.             *)
(***************************************************************************)
EXTENDS LegalRollout, ProofLanes, RuntimeConformance, WellFoundedInduction, FiniteSetTheorems, TLAPS

-----------------------------------------------------------------------------
(* LegalRollout.                                                              *)

(* What is left to look at has an earliest member.                            *)
LEMMA EarliestIsLeft ==
  ASSUME NEW ps, ps # {}, ps \subseteq Members(Order)
  PROVE  Earliest(ps) \in ps
<1> DEFINE Places == {k \in DOMAIN Order : Order[k] \in ps}
<1>1. DOMAIN Order \subseteq Nat
  BY OrderAssumption
<1>2. Places \subseteq Nat /\ Places # {}
  BY <1>1 DEF Members
<1>3. PICK k \in Places : \A j \in Places : <<j, k>> \notin OpToRel(<, Nat)
  <2> HIDE DEF Places
  <2> QED
    BY <1>2, NatLessThanWellFounded, WFMin
<1>4. \A j \in Places : k <= j
  <2> SUFFICES ASSUME NEW j \in Places PROVE k <= j
    OBVIOUS
  <2>1. j \in Nat /\ k \in Nat
    BY <1>2
  <2>2. ~(j < k)
    BY <1>3, <2>1, Zenon DEF OpToRel
  <2> QED
    BY <2>1, <2>2
<1>5. \E x \in DOMAIN Order :
        Order[x] \in ps /\ \A j \in DOMAIN Order : Order[j] \in ps => x <= j
  BY <1>4
<1> QED
  BY <1>5 DEF Earliest

Good(d) == d.sha \in had[d.path] /\ TextFindings(d, MarksOf[d.sha]) = {}
SteadyIn(class) == {p \in steady : ClassOf[p] = class}

GoodManifest ==
  /\ Documents = Members(rollout.documents)
  /\ PathsNamed = {d.path : d \in Documents}
  /\ \A d \in Documents : /\ d.status = "approved" => d.recorded
                          /\ rollout.approved /\ d.required => d.status = "approved"

(* As long as no rule is broken: the manifest is a good one; the paths that   *)
(* had a file all along are found where they are looked for; what is found    *)
(* and what is manifested is one set; and the documents that were looked at   *)
(* had the text that the manifest pins.                                       *)
GreenSoFar ==
  /\ rolloutAt # "manifest" => LaneFindings = {} /\ GoodManifest
  /\ rolloutAt = "externalNames" => SteadyIn("external") \subseteq listed \cup pending
  /\ rolloutAt \in {"internal", "internalNames", "documents", "lstat", "read", "done"} =>
       SteadyIn("external") \subseteq listed
  /\ rolloutAt = "internalNames" => SteadyIn("internal") \subseteq listed \cup pending
  /\ rolloutAt \in {"documents", "lstat", "read", "done"} =>
       /\ SteadyIn("internal") \subseteq listed /\ listed = PathsNamed
       /\ \A d \in Documents : d.path \in pending \/ Good(d)
       /\ pending \subseteq {d.path : d \in Documents}
RolloutTyped ==
  /\ rollout \in Rollouts /\ admission \in Admissions
  /\ pending \subseteq Paths /\ listed \subseteq Paths
  /\ rolloutAt \in {"lstat", "read"} => pending # {}
  /\ rolloutAt \in {"manifest", "external", "externalNames", "internal", "internalNames",
                    "documents", "lstat", "read", "done"}
  /\ rolloutReceipt = "passed" => rolloutAt = "done" /\ broken = {} /\ pending = {}
WitnessTrue ==
  steady \subseteq Filled /\ \A p \in Filled : data[At(p)] \in had[p]
RolloutInvariant == RolloutTyped /\ WitnessTrue /\ (broken = {} => GreenSoFar)

LEMMA RolloutStarts ==
  ASSUME RolloutInit
  PROVE  RolloutInvariant
<1>1. RolloutTyped
  BY OutcomeAssumption DEF RolloutInit, RolloutTyped
<1>2. WitnessTrue
  BY DEF RolloutInit, WitnessTrue, Filled, Here
<1>3. GreenSoFar
  BY DEF RolloutInit, GreenSoFar
<1> QED
  BY <1>1, <1>2, <1>3 DEF RolloutInvariant

(* A manifest without a broken rule keeps all of its entries.                 *)
LEMMA ManifestIsGood ==
  ASSUME rollout \in Rollouts, ManifestRules = {}
  PROVE  GoodManifest
<1> DEFINE documents == rollout.documents
<1>1. DOMAIN documents = 1..Len(documents) /\ Len(documents) \in Nat
  <2>1. documents \in Seq(Members(documents))
    BY RolloutsAssumption
  <2> QED
    BY <2>1
<1>2. ~(Len(documents) > MaxDocuments)
  <2>1. "legal-manifest-document-limit" \notin ManifestRules
    BY Zenon
  <2> QED
    BY <2>1, Zenon DEF ManifestRules, Breaks
<1>3. Classed = Entries
  <2>1. "legal-manifest-classification" \notin ManifestRules
    BY Zenon
  <2> QED
    BY <2>1, Zenon DEF ManifestRules, Breaks
<1>4. \A k \in Classed : documents[k].status = "approved" => documents[k].recorded
  <2>1. "legal-manifest-approval-record" \notin ManifestRules
    BY Zenon
  <2> QED
    BY <2>1, Zenon DEF ManifestRules, Breaks
<1>5. \A j, k \in Classed : j < k => documents[j].path # documents[k].path
  <2>1. "legal-manifest-document-path-duplicate" \notin ManifestRules
    BY Zenon
  <2> QED
    BY <2>1, Zenon DEF ManifestRules, Breaks
<1>6. \A k \in Classed : ClassOf[documents[k].path] = documents[k].class
  <2>1. "legal-manifest-document-boundary" \notin ManifestRules
    BY Zenon
  <2> QED
    BY <2>1, Zenon DEF ManifestRules, Breaks
<1>7. \A d \in Documents : rollout.approved /\ d.required => d.status = "approved"
  <2>1. "legal-rollout-inconsistent-approval" \notin ManifestRules
    BY Zenon
  <2> QED
    BY <2>1, Zenon DEF ManifestRules, Breaks
<1>8. Entries = DOMAIN documents
  BY <1>1, <1>2, OutcomeAssumption DEF Entries
<1>9. Kept = DOMAIN documents /\ Classed = DOMAIN documents
  BY <1>3, <1>5, <1>6, <1>8 DEF Kept
<1>10. Documents = Members(documents)
  BY <1>9 DEF Documents, Members
<1>11. PathsNamed = {d.path : d \in Documents}
  BY <1>9 DEF Documents, PathsNamed
<1>12. \A d \in Documents : d.status = "approved" => d.recorded
  <2> SUFFICES ASSUME NEW d \in Documents PROVE d.status = "approved" => d.recorded
    OBVIOUS
  <2>1. PICK k \in Classed : d = documents[k]
    BY <1>9 DEF Documents
  <2> QED
    BY <1>4, <2>1, Zenon
<1> QED
  BY <1>7, <1>10, <1>11, <1>12, Zenon DEF GoodManifest

(* What of the rollout a step of the gate cannot change.                      *)
LEMMA RolloutSteps ==
  ASSUME WitnessTrue, UNCHANGED <<tree, rolloutInputs, rolloutWitness>>
  PROVE  /\ WitnessTrue' /\ LaneFindings' = LaneFindings /\ (GoodManifest => GoodManifest')
         /\ Documents' = Documents /\ PathsNamed' = PathsNamed /\ Filled' = Filled
         /\ \A class : SteadyIn(class)' = SteadyIn(class)
         /\ \A d : Good(d)' = Good(d)
         /\ rollout' = rollout /\ admission' = admission
<1> USE DEF tree, rolloutInputs, rolloutWitness
<1>1. rollout' = rollout /\ admission' = admission /\ releasing' = releasing
  OBVIOUS
<1>2. Filled' = Filled /\ \A p : At(p)' = At(p)
  BY DEF Filled, At
<1>3. WitnessTrue'
  BY <1>2 DEF WitnessTrue
<1>4. LaneFindings' = LaneFindings
  BY <1>1 DEF LaneFindings
<1>5. Entries' = Entries /\ Classed' = Classed
  BY <1>1 DEF Entries, Classed
<1>6. PathsNamed' = PathsNamed /\ Kept' = Kept
  BY <1>1, <1>5 DEF PathsNamed, Kept
<1>7. Documents' = Documents
  BY <1>1, <1>6 DEF Documents
<1>8. GoodManifest => GoodManifest'
  BY <1>1, <1>6, <1>7 DEF GoodManifest
<1>9. \A class : SteadyIn(class)' = SteadyIn(class)
  BY DEF SteadyIn
<1>10. \A d : Good(d)' = Good(d)
  BY <1>1 DEF Good, TextFindings
<1> QED
  BY <1>1, <1>2, <1>3, <1>4, <1>6, <1>7, <1>8, <1>9, <1>10

(* The steps that add nothing to what was found broken.                       *)
LEMMA AuditKeeps ==
  ASSUME RolloutInvariant, AuditManifest
  PROVE  RolloutInvariant'
<1>1. UNCHANGED <<tree, rolloutInputs, rolloutWitness>>
  BY DEF AuditManifest
<1>2. RolloutTyped /\ WitnessTrue
  BY DEF RolloutInvariant
<1>3. RolloutTyped'
  BY <1>1, <1>2, RolloutSteps DEF AuditManifest, RolloutTyped
<1>4. ASSUME broken' = {} PROVE GreenSoFar'
  <2>1. LaneFindings = {} /\ ManifestRules = {}
    BY <1>4 DEF AuditManifest, Break
  <2>2. GoodManifest
    BY <1>2, <2>1, ManifestIsGood DEF RolloutTyped
  <2>3. LaneFindings' = {} /\ GoodManifest'
    BY <1>1, <1>2, <2>1, <2>2, RolloutSteps
  <2> QED
    BY <2>3 DEF GreenSoFar, AuditManifest
<1> QED
  BY <1>1, <1>2, <1>3, <1>4, RolloutSteps DEF RolloutInvariant

LEMMA ListingKeeps ==
  ASSUME RolloutInvariant, ListDirectory \/ LstatName \/ ListInternal
  PROVE  RolloutInvariant'
<1>1. UNCHANGED <<tree, rolloutInputs, rolloutWitness>>
  BY DEF ListDirectory, LstatName, ListInternal
<1>2. RolloutTyped /\ WitnessTrue /\ (broken = {} => GreenSoFar)
  BY DEF RolloutInvariant
<1>3. /\ WitnessTrue' /\ LaneFindings' = LaneFindings /\ (GoodManifest => GoodManifest')
      /\ \A class : SteadyIn(class)' = SteadyIn(class)
      /\ rollout' = rollout /\ admission' = admission
  BY <1>1, <1>2, RolloutSteps
<1>4. pending # {} => Earliest(pending) \in pending
  BY <1>2, EarliestIsLeft, OrderAssumption DEF RolloutTyped
<1>5. RolloutTyped'
  <2>1. CASE ListDirectory
    BY <1>2, <1>3, <2>1 DEF ListDirectory, RolloutTyped, Filled
  <2>2. CASE LstatName
    BY <1>2, <1>3, <1>4, <2>2 DEF LstatName, RolloutTyped
  <2>3. CASE ListInternal
    BY <1>2, <1>3, <2>3 DEF ListInternal, RolloutTyped
  <2> QED
    BY <2>1, <2>2, <2>3
<1>6. ASSUME broken' = {} PROVE GreenSoFar'
  <2>1. broken = {}
    BY <1>6 DEF ListDirectory, LstatName, ListInternal, Break
  <2>2. GreenSoFar
    BY <1>2, <2>1
  <2>3. CASE ListDirectory
    <3>1. SteadyIn(rolloutAt) \subseteq pending'
      BY <1>2, <2>3 DEF ListDirectory, WitnessTrue, SteadyIn
    <3>2. LaneFindings' = {} /\ GoodManifest'
      BY <1>3, <2>2, <2>3 DEF GreenSoFar, ListDirectory
    <3>3. CASE rolloutAt = "external"
      BY <1>3, <2>2, <2>3, <3>1, <3>2, <3>3 DEF GreenSoFar, ListDirectory
    <3>4. CASE rolloutAt = "internal"
      BY <1>3, <2>2, <2>3, <3>1, <3>2, <3>4 DEF GreenSoFar, ListDirectory
    <3> QED
      BY <2>3, <3>3, <3>4 DEF ListDirectory
  <2>4. CASE LstatName
    BY <1>3, <1>4, <1>6, <2>2, <2>4 DEF GreenSoFar, LstatName
  <2>5. CASE ListInternal
    BY <1>3, <2>2, <2>5 DEF GreenSoFar, ListInternal
  <2> QED
    BY <2>3, <2>4, <2>5
<1> QED
  BY <1>3, <1>5, <1>6 DEF RolloutInvariant

LEMMA InventoryKeeps ==
  ASSUME RolloutInvariant, CompareInventory
  PROVE  RolloutInvariant'
<1>1. UNCHANGED <<tree, rolloutInputs, rolloutWitness>>
  BY DEF CompareInventory
<1>2. RolloutTyped /\ WitnessTrue /\ (broken = {} => GreenSoFar)
  BY DEF RolloutInvariant
<1>3. /\ WitnessTrue' /\ LaneFindings' = LaneFindings /\ (GoodManifest => GoodManifest')
      /\ Documents' = Documents /\ PathsNamed' = PathsNamed
      /\ \A class : SteadyIn(class)' = SteadyIn(class)
      /\ rollout' = rollout /\ admission' = admission
  BY <1>1, <1>2, RolloutSteps
<1>4. RolloutTyped'
  BY <1>2, <1>3 DEF CompareInventory, RolloutTyped
<1>5. ASSUME broken' = {} PROVE GreenSoFar'
  <2>1. broken = {} /\ listed = PathsNamed
    BY <1>5 DEF CompareInventory, Break, Breaks
  <2>2. GreenSoFar
    BY <1>2, <2>1
  <2>3. LaneFindings = {} /\ GoodManifest /\ SteadyIn("external") \subseteq listed
        /\ SteadyIn("internal") \subseteq listed
    BY <2>2 DEF GreenSoFar, CompareInventory
  <2>4. \A d \in Documents : d.path \in pending'
    <3>1. \A d \in Documents : d.path \in listed
      BY <2>1, <2>3, Zenon DEF GoodManifest
    <3> QED
      BY <3>1 DEF CompareInventory
  <2>5. pending' \subseteq {d.path : d \in Documents}
    BY DEF CompareInventory
  <2> QED
    BY <1>3, <2>1, <2>3, <2>4, <2>5 DEF GreenSoFar, CompareInventory
<1> QED
  BY <1>3, <1>4, <1>5 DEF RolloutInvariant

LEMMA DocumentsKeep ==
  ASSUME RolloutInvariant, WalkDocument \/ LstatDocument \/ SignRollout
  PROVE  RolloutInvariant'
<1>1. UNCHANGED <<tree, rolloutInputs, rolloutWitness>>
  BY DEF WalkDocument, LstatDocument, SignRollout
<1>2. RolloutTyped /\ WitnessTrue /\ (broken = {} => GreenSoFar)
  BY DEF RolloutInvariant
<1>3. /\ WitnessTrue' /\ LaneFindings' = LaneFindings /\ (GoodManifest => GoodManifest')
      /\ Documents' = Documents /\ PathsNamed' = PathsNamed
      /\ \A class : SteadyIn(class)' = SteadyIn(class)
      /\ \A d : Good(d)' = Good(d)
      /\ rollout' = rollout /\ admission' = admission
  BY <1>1, <1>2, RolloutSteps
<1>4. RolloutTyped'
  BY <1>2, <1>3 DEF WalkDocument, LstatDocument, SignRollout, Unread, RolloutTyped
<1>5. ASSUME broken' = {} PROVE GreenSoFar'
  <2>1. broken = {} /\ pending' = pending /\ listed' = listed
    BY <1>5 DEF WalkDocument, LstatDocument, SignRollout, Unread, Break
  <2>2. GreenSoFar
    BY <1>2, <2>1
  <2> QED
    BY <1>3, <2>1, <2>2 DEF GreenSoFar, WalkDocument, LstatDocument, SignRollout
<1> QED
  BY <1>3, <1>4, <1>5 DEF RolloutInvariant

(* A path belongs to one of the documents that are kept.                      *)
LEMMA PathsTellDocuments ==
  ASSUME rollout \in Rollouts, NEW d \in Documents, NEW e \in Documents, d.path = e.path
  PROVE  d = e
<1>1. DOMAIN rollout.documents \subseteq Int
  <2>1. rollout.documents \in Seq(Members(rollout.documents))
    BY RolloutsAssumption
  <2> QED
    BY <2>1
<1>2. PICK j \in Kept : d = rollout.documents[j]
  BY DEF Documents
<1>3. PICK k \in Kept : e = rollout.documents[k]
  BY DEF Documents
<1>4. j \in Int /\ k \in Int /\ j \in Classed /\ k \in Classed
  BY <1>1 DEF Kept, Classed, Entries
<1>5. ~(j < k) /\ ~(k < j)
  BY <1>2, <1>3, <1>4 DEF Kept
<1> QED
  BY <1>2, <1>3, <1>4, <1>5

LEMMA ReadKeeps ==
  ASSUME RolloutInvariant, ReadDocument
  PROVE  RolloutInvariant'
<1>1. UNCHANGED <<tree, rolloutInputs, rolloutWitness>>
  BY DEF ReadDocument
<1>2. RolloutTyped /\ WitnessTrue /\ (broken = {} => GreenSoFar)
  BY DEF RolloutInvariant
<1>3. /\ WitnessTrue' /\ LaneFindings' = LaneFindings /\ (GoodManifest => GoodManifest')
      /\ Documents' = Documents /\ PathsNamed' = PathsNamed
      /\ \A class : SteadyIn(class)' = SteadyIn(class)
      /\ \A d : Good(d)' = Good(d)
      /\ rollout' = rollout /\ admission' = admission
  BY <1>1, <1>2, RolloutSteps
<1>4. /\ rolloutAt = "read" /\ rolloutAt' = "documents" /\ listed' = listed
      /\ rolloutReceipt' = rolloutReceipt /\ pending' = pending \ {Earliest(pending)}
  BY DEF ReadDocument, Unread
<1>5. RolloutTyped'
  BY <1>2, <1>3, <1>4 DEF RolloutTyped
<1>6. ASSUME broken' = {} PROVE GreenSoFar'
  <2> DEFINE now == DocumentAt(Earliest(pending))
  <2>1. /\ broken = {} /\ At(now.path) # None /\ data[At(now.path)] = now.sha
        /\ TextFindings(now, MarksOf[data[At(now.path)]]) = {}
    BY <1>6 DEF ReadDocument, Unread, Break, Breaks
  <2>2. GreenSoFar
    BY <1>2, <2>1
  <2>3. now \in Documents /\ now.path = Earliest(pending)
    <3>1. pending # {} /\ Earliest(pending) \in pending
      BY <1>2, <1>4, EarliestIsLeft, OrderAssumption DEF RolloutTyped
    <3>2. pending \subseteq {d.path : d \in Documents}
      BY <1>4, <2>2 DEF GreenSoFar
    <3>3. \E d \in Documents : d.path = Earliest(pending)
      BY <3>1, <3>2
    <3> QED
      BY <3>3 DEF DocumentAt
  <2>4. now.sha \in had[now.path]
    <3>1. now.path \in Filled
      BY <2>1 DEF Filled, At
    <3> QED
      BY <1>2, <2>1, <3>1 DEF WitnessTrue
  <2>5. Good(now)
    BY <2>1, <2>4 DEF Good
  <2>6. \A d \in Documents : d.path = Earliest(pending) => d = now
    BY <1>2, <2>3, PathsTellDocuments DEF RolloutTyped
  <2> HIDE DEF now
  <2>7. \A d \in Documents : d.path \in pending' \/ Good(d)
    BY <1>4, <2>2, <2>5, <2>6 DEF GreenSoFar
  <2> QED
    BY <1>3, <1>4, <2>2, <2>7 DEF GreenSoFar
<1> QED
  BY <1>3, <1>5, <1>6 DEF RolloutInvariant

(* Whoever edits the tree: what a path led to once it did lead to.            *)
LEMMA EditsKeep ==
  ASSUME RolloutInvariant, EditDocuments
  PROVE  RolloutInvariant'
<1>1. RolloutTyped /\ WitnessTrue /\ (broken = {} => GreenSoFar)
  BY DEF RolloutInvariant
<1>2. /\ rollout' = rollout /\ admission' = admission /\ releasing' = releasing
      /\ UNCHANGED <<rolloutAt, pending, listed, broken, pinned, rolloutReceipt>>
  BY DEF EditDocuments, rolloutInputs, rolloutWork
<1>3. \A p \in Paths :
        had'[p] = IF entry'[folder'][p] = None THEN had[p]
                  ELSE had[p] \cup {data'[entry'[folder'][p]]}
  BY DEF EditDocuments
<1>4. WitnessTrue'
  <2>1. steady' \subseteq Filled'
    BY <1>1 DEF EditDocuments, WitnessTrue, Filled, At
  <2>2. \A p \in Filled' : data'[At(p)'] \in had'[p]
    BY <1>3 DEF Filled, At
  <2> QED
    BY <2>1, <2>2 DEF WitnessTrue
<1>5. LaneFindings' = LaneFindings /\ Documents' = Documents /\ PathsNamed' = PathsNamed
  <2>1. Entries' = Entries /\ Classed' = Classed
    BY <1>2 DEF Entries, Classed
  <2>2. PathsNamed' = PathsNamed /\ Kept' = Kept
    BY <1>2, <2>1 DEF PathsNamed, Kept
  <2> QED
    BY <1>2, <2>2 DEF LaneFindings, Documents
<1>6. GoodManifest => GoodManifest'
  BY <1>2, <1>5 DEF GoodManifest
<1>7. \A class : SteadyIn(class)' \subseteq SteadyIn(class)
  BY DEF SteadyIn, EditDocuments
<1>8. \A d : d.path \in Paths /\ Good(d) => Good(d)'
  <2>1. ASSUME NEW d, d.path \in Paths, Good(d) PROVE Good(d)'
    <3>1. d.sha \in had'[d.path]
      BY <1>3, <2>1 DEF Good
    <3>2. TextFindings(d, MarksOf[d.sha])' = TextFindings(d, MarksOf[d.sha])
      BY <1>2 DEF TextFindings
    <3> QED
      BY <2>1, <3>1, <3>2 DEF Good
  <2> QED
    BY <2>1
<1>9. RolloutTyped'
  BY <1>1, <1>2 DEF RolloutTyped
<1>10. ASSUME broken' = {} PROVE GreenSoFar'
  <2>1. GreenSoFar
    BY <1>1, <1>2, <1>10
  <2>2. rolloutAt \in {"documents", "lstat", "read", "done"} => \A d \in Documents : d.path \in Paths
    BY <1>1, <2>1 DEF GreenSoFar, GoodManifest, RolloutTyped
  <2>3. rolloutAt \in {"documents", "lstat", "read", "done"} =>
          \A d \in Documents : d.path \in pending \/ Good(d)'
    BY <1>8, <2>1, <2>2 DEF GreenSoFar
  <2> QED
    BY <1>2, <1>5, <1>6, <1>7, <2>1, <2>3 DEF GreenSoFar
<1> QED
  BY <1>4, <1>9, <1>10 DEF RolloutInvariant

LEMMA RolloutHolds == LegalSpec => []RolloutInvariant
<1>1. TreeInit /\ RolloutInit => RolloutInvariant
  BY RolloutStarts
<1>2. RolloutInvariant /\ [RolloutNext]_rolloutVars => RolloutInvariant'
  <2> SUFFICES ASSUME RolloutInvariant, [RolloutNext]_rolloutVars PROVE RolloutInvariant'
    OBVIOUS
  <2>1. CASE UNCHANGED rolloutVars
    <3>1. /\ UNCHANGED <<tree, rolloutInputs, rolloutWitness>>
          /\ UNCHANGED <<rolloutAt, pending, listed, broken, pinned, rolloutReceipt>>
      BY <2>1 DEF rolloutVars, rolloutWork
    <3>2. RolloutTyped /\ WitnessTrue /\ (broken = {} => GreenSoFar)
      BY DEF RolloutInvariant
    <3>3. /\ WitnessTrue' /\ LaneFindings' = LaneFindings /\ (GoodManifest => GoodManifest')
          /\ Documents' = Documents /\ PathsNamed' = PathsNamed
          /\ \A class : SteadyIn(class)' = SteadyIn(class)
          /\ \A d : Good(d)' = Good(d)
          /\ rollout' = rollout /\ admission' = admission
      BY <3>1, <3>2, RolloutSteps
    <3>4. RolloutTyped'
      BY <3>1, <3>2, <3>3 DEF RolloutTyped
    <3>5. GreenSoFar => GreenSoFar'
      BY <3>1, <3>3 DEF GreenSoFar
    <3> QED
      BY <3>1, <3>2, <3>3, <3>4, <3>5 DEF RolloutInvariant
  <2> QED
    BY <2>1, AuditKeeps, ListingKeeps, InventoryKeeps, DocumentsKeep, ReadKeeps, EditsKeep, Zenon
       DEF RolloutNext
<1> QED
  BY <1>1, <1>2, PTL DEF LegalSpec

(* The text of a document without a broken rule.                              *)
LEMMA TextIsGood ==
  ASSUME NEW d, NEW marks, TextFindings(d, marks) = {}
  PROVE  /\ d.class \in marks /\ RequiredMarks \subseteq marks /\ ForbiddenMarks \cap marks = {}
         /\ d.status = "approved" => "approved" \in marks /\ "draft" \notin marks
         /\ releasing /\ d.required => d.status = "approved"
<1>1. /\ d.class \in marks /\ RequiredMarks \subseteq marks /\ ForbiddenMarks \cap marks = {}
      /\ d.status = "approved" => "approved" \in marks /\ "draft" \notin marks
  BY DEF TextFindings, Breaks
<1>2. "legal-document-release-status" \notin TextFindings(d, marks)
  BY Zenon
<1>3. releasing /\ d.required => d.status = "approved"
  BY <1>2, Zenon DEF TextFindings, Breaks
<1> QED
  BY <1>1, <1>3, Zenon

LEMMA LanesAccept ==
  ASSUME admission \in Admissions, LaneFindings = {}
  PROVE  admission.ir /\ admission.generated = TRUE /\ admission.authored = TRUE
<1>1. /\ admission.ir \in BOOLEAN
      /\ {admission.generated, admission.authored} \subseteq BOOLEAN \cup {Nothing}
  BY VerdictsAssumption
<1>2. /\ "legal-rollout-contract-ir-not-admissible" \notin LaneFindings
      /\ "legal-manifest-schema-invalid" \notin LaneFindings
      /\ "legal-manifest-validation-refused" \notin LaneFindings
  BY Zenon
<1>3. /\ admission.ir /\ FALSE \notin {admission.generated, admission.authored}
      /\ Nothing \notin {admission.generated, admission.authored}
  BY <1>2, Zenon DEF LaneFindings, Breaks
<1> QED
  BY <1>1, <1>3, Zenon

(* A passed receipt of the legal rollout is earned, for any manifest, verdicts *)
(* and tree, whoever edits the tree during the run and however often.          *)
THEOREM RolloutIsEarned == LegalSpec => []RolloutIsComplete
<1>1. RolloutInvariant => RolloutIsComplete
  <2> SUFFICES ASSUME RolloutInvariant, rolloutReceipt = "passed" PROVE RolloutIsComplete
    BY DEF RolloutIsComplete
  <2>1. /\ rolloutAt = "done" /\ pending = {} /\ RolloutTyped /\ WitnessTrue /\ GreenSoFar
    BY DEF RolloutInvariant, RolloutTyped
  <2>2. /\ LaneFindings = {} /\ GoodManifest /\ listed = PathsNamed
        /\ SteadyIn("external") \cup SteadyIn("internal") \subseteq listed
        /\ \A d \in Documents : Good(d)
    BY <2>1 DEF GreenSoFar
  <2>3. admission.ir /\ admission.generated = TRUE /\ admission.authored = TRUE
    BY <2>1, <2>2, LanesAccept, Zenon DEF RolloutTyped
  <2>4. steady \subseteq {d.path : d \in Members(rollout.documents)}
    <3>1. \A p \in steady : p \in Paths /\ ClassOf[p] \in {"external", "internal"}
      BY <2>1, OrderAssumption DEF WitnessTrue, Filled, Classes, Members
    <3>2. steady \subseteq listed
      BY <2>2, <3>1 DEF SteadyIn
    <3> QED
      BY <2>2, <3>2, Zenon DEF GoodManifest
  <2>5. ASSUME NEW d \in Members(rollout.documents)
        PROVE  /\ d.sha \in had[d.path]
               /\ d.class \in MarksOf[d.sha] /\ RequiredMarks \subseteq MarksOf[d.sha]
               /\ ForbiddenMarks \cap MarksOf[d.sha] = {}
               /\ (releasing \/ rollout.approved) /\ d.required =>
                    d.status = "approved" /\ d.recorded
                    /\ "approved" \in MarksOf[d.sha] /\ "draft" \notin MarksOf[d.sha]
    <3>1. d \in Documents
      BY <2>2, Zenon DEF GoodManifest
    <3>2. d.sha \in had[d.path] /\ TextFindings(d, MarksOf[d.sha]) = {}
      BY <2>2, <3>1 DEF Good
    <3>3. /\ d.status = "approved" => d.recorded
          /\ rollout.approved /\ d.required => d.status = "approved"
      BY <2>2, <3>1, Zenon DEF GoodManifest
    <3> QED
      BY <3>2, <3>3, TextIsGood, Zenon
  <2> QED
    BY <2>3, <2>4, <2>5, Zenon DEF RolloutIsComplete
<1> QED
  BY <1>1, RolloutHolds, PTL

-----------------------------------------------------------------------------
(* ProofLanes.                                                                *)

InFormal == {"formal", "formalLstat", "formalRead", "dafny", "prove", "sign"}
InSource == {"sourceLstat", "sourceRead"}
InProofs == {"proofLstat", "proofRead", "run"}
Walk == {"coverage"} \cup InSource \cup InProofs
Closing == {"receipt", "done"}

LaneTyped ==
  /\ proofManifest \in ProofManifests
  /\ edits \in Nat /\ probedAt \in Nat /\ probedAt <= edits
  /\ lane \in InFormal \cup {"rejected", "present", "formalReceipt", "head", "status", "tools"}
              \cup Walk \cup Closing
  /\ lane \notin InProofs \cup Closing => proof = 1
  /\ lane \notin InFormal \cup {"rejected", "present"} => ProofManifestAccepted
  /\ lane \in {"present", "formalReceipt", "head", "status", "tools"} => op = 1
  /\ lane \in Walk => op \in DOMAIN ProofOps
  /\ lane \in InProofs => proof \in DOMAIN ProofOps[op].proofs
  /\ l4 # None => lane = "done"

DafnyBound == Dafny \subseteq Members(FormalIds)
AsRevised(p) == edits > probedAt \/ Content(p) = proofManifest.revision[p]

(* An operation that the first lane covers, by the receipt it issued, and a   *)
(* proof that was run.                                                        *)
Covered(o) ==
  /\ o.id \in DOMAIN l3.bindings /\ l3.bindings[o.id] = 1
  /\ \E r \in l3.proofRuns : o.id \in r.ops /\ r.exit = 0
Proved(o, q) ==
  \E r \in proofRuns :
    /\ r.op = o.id /\ r.tool = q.tool /\ r.source = q.source /\ r.exit = 0
    /\ r.saw \in Provable
    /\ r.saw = q.pin \/ edits > probedAt
OperationDone(o) == Covered(o) /\ \A j \in DOMAIN o.proofs : Proved(o, o.proofs[j])

(* What the formal receipt says, signed or not yet.                           *)
FormalTrue ==
  /\ lane \in InFormal \ {"formal"} /\ findings = {} => DafnyBound
  /\ lane \notin InFormal \cup {"rejected"} =>
       l3.bindings = Bindings /\ (l3.findings = {} => DafnyBound)

(* As long as the implementation lane has found nothing: its receipt is the   *)
(* one that was issued; what was probed is so unless the checkout was touched *)
(* since; and what comes before the current position is covered and proved.   *)
LaneGreen ==
  /\ lane \in {"head", "status", "tools"} \cup Walk \cup Closing =>
       presented.body = l3 /\ l3.status = "passed" /\ l3.findings = {}
  /\ lane = "status" => edits > probedAt \/ head = proofManifest.revision
  /\ lane \in {"tools"} \cup Walk \cup Closing => \A p \in Paths : AsRevised(p)
  /\ lane \in Walk => \A k \in DOMAIN ProofOps : k < op => OperationDone(ProofOps[k])
  /\ lane \in InSource \cup InProofs => Covered(ProofOps[op])
  /\ lane \in InProofs =>
       \A j \in DOMAIN ProofOps[op].proofs :
         j < proof => Proved(ProofOps[op], ProofOps[op].proofs[j])
  /\ lane = "run" => edits > probedAt \/ Content(Target.source) = Target.pin
  /\ lane \in Closing => \A k \in DOMAIN ProofOps : OperationDone(ProofOps[k])
ReceiptTrue ==
  lane = "done" => l4.proofRuns = proofRuns /\ (l4.status = "passed" => findings = {})

LaneInvariant == LaneTyped /\ FormalTrue /\ (findings = {} => LaneGreen) /\ ReceiptTrue

LEMMA LanesStart ==
  ASSUME TreeInit, LaneInit
  PROVE  LaneInvariant
<1> USE DEF InFormal, InSource, InProofs, Walk, Closing
<1>1. LaneTyped
  BY DEF TreeInit, LaneInit, LaneTyped
<1>2. FormalTrue /\ ReceiptTrue /\ LaneGreen
  BY DEF LaneInit, FormalTrue, ReceiptTrue, LaneGreen
<1> QED
  BY <1>1, <1>2 DEF LaneInvariant

(* Positions are positions of the manifest.                                   *)
LEMMA PositionsAreLists ==
  ASSUME proofManifest \in ProofManifests
  PROVE  /\ Len(ProofOps) \in Nat /\ DOMAIN ProofOps = 1..Len(ProofOps)
         /\ \A k \in DOMAIN ProofOps :
              /\ Len(ProofOps[k].proofs) \in Nat
              /\ DOMAIN ProofOps[k].proofs = 1..Len(ProofOps[k].proofs)
         /\ ProofManifestAccepted =>
              /\ 1 \in DOMAIN ProofOps
              /\ \A k \in DOMAIN ProofOps : 1 \in DOMAIN ProofOps[k].proofs
<1> DEFINE ops == ProofOps
<1>1. ops \in Seq(Members(ops))
  BY LaneManifestsAssumption DEF ProofOps
<1>2. \A o \in Members(ops) : o.proofs \in Seq(Members(o.proofs))
  BY LaneManifestsAssumption DEF ProofOps
<1>3. ProofManifestAccepted => ops # <<>> /\ \A o \in Members(ops) : o.proofs # <<>>
  BY DEF ProofManifestAccepted
<1> HIDE DEF ops
<1>4. Len(ops) \in Nat /\ DOMAIN ops = 1..Len(ops)
  BY <1>1
<1>5. ops # <<>> => 1 \in DOMAIN ops
  BY <1>1
<1>6. ASSUME NEW k \in DOMAIN ops
      PROVE  /\ Len(ops[k].proofs) \in Nat
             /\ DOMAIN ops[k].proofs = 1..Len(ops[k].proofs)
             /\ ops[k].proofs # <<>> => 1 \in DOMAIN ops[k].proofs
             /\ ops[k] \in Members(ops)
  <2>1. ops[k] \in Members(ops)
    BY DEF Members
  <2>2. ops[k].proofs \in Seq(Members(ops[k].proofs))
    BY <1>2, <2>1
  <2> QED
    BY <2>1, <2>2
<1> QED
  BY <1>3, <1>4, <1>5, <1>6 DEF ops

LEMMA InputsStay ==
  ASSUME UNCHANGED laneInputs
  PROVE  /\ ProofOps' = ProofOps /\ Bindings' = Bindings
         /\ (DafnyBound => DafnyBound') /\ (ProofManifestAccepted => ProofManifestAccepted')
         /\ proofManifest' = proofManifest /\ formalManifest' = formalManifest
<1>1. proofManifest' = proofManifest /\ formalManifest' = formalManifest /\ typespec' = typespec
  BY DEF laneInputs
<1>2. ProofOps' = ProofOps /\ FormalIds' = FormalIds
  BY <1>1 DEF ProofOps, FormalIds, FormalOps
<1>3. Bindings' = Bindings
  BY <1>1 DEF Bindings
<1>4. DafnyBound => DafnyBound'
  BY <1>2 DEF DafnyBound, Dafny
<1>5. ProofManifestAccepted => ProofManifestAccepted'
  BY <1>2 DEF ProofManifestAccepted
<1> QED
  BY <1>1, <1>2, <1>3, <1>4, <1>5

LEMMA ContentsStay ==
  ASSUME UNCHANGED tree
  PROVE  edits' = edits /\ \A p : Content(p)' = Content(p)
BY DEF tree, Content, At

LEMMA FormalKeeps ==
  ASSUME LaneInvariant,
         InspectBindings \/ LstatFormal \/ ReadFormal \/ ProbeDafny \/ RunDafny
  PROVE  LaneInvariant'
<1> USE DEF InFormal, InSource, InProofs, Walk, Closing
<1>1. LaneTyped /\ FormalTrue /\ ReceiptTrue
  BY DEF LaneInvariant
<1>2. /\ UNCHANGED <<tree, laneInputs, proof, l3, presented, l4, probedAt>>
      /\ lane \in InFormal
  BY DEF InspectBindings, LstatFormal, ReadFormal, ProbeDafny, RunDafny, receipts
<1>3. lane' \in (InFormal \ {"formal"}) \cup {"rejected"}
  <2>1. CASE InspectBindings
    BY <2>1 DEF InspectBindings
  <2>2. CASE LstatFormal
    BY <2>2 DEF LstatFormal, NextFormal
  <2>3. CASE ReadFormal
    BY <2>3 DEF ReadFormal, NextFormal
  <2>4. CASE ProbeDafny
    BY <2>4 DEF ProbeDafny
  <2>5. CASE RunDafny
    BY <2>5 DEF RunDafny
  <2> QED
    BY <2>1, <2>2, <2>3, <2>4, <2>5
<1>4. LaneTyped'
  BY <1>1, <1>2, <1>3, InputsStay, ContentsStay DEF LaneTyped
<1>5. findings' = {} => DafnyBound
  <2> SUFFICES ASSUME findings' = {} PROVE DafnyBound
    OBVIOUS
  <2>1. CASE InspectBindings
    <3>1. "formal-manifest-operation-missing" \notin BehaviorFindings
      BY <2>1 DEF InspectBindings, Add
    <3> QED
      BY <3>1, Zenon DEF BehaviorFindings, Breaks, DafnyBound
  <2>2. CASE LstatFormal \/ ReadFormal \/ ProbeDafny \/ RunDafny
    <3>1. findings = {} /\ lane # "formal"
      BY <2>2 DEF LstatFormal, ReadFormal, ProbeDafny, RunDafny, Add
    <3> QED
      BY <1>1, <1>2, <3>1 DEF FormalTrue
  <2> QED
    BY <2>1, <2>2
<1>6. FormalTrue'
  BY <1>2, <1>3, <1>5, InputsStay DEF FormalTrue
<1>7. LaneGreen' /\ ReceiptTrue'
  BY <1>3 DEF LaneGreen, ReceiptTrue
<1> QED
  BY <1>4, <1>6, <1>7 DEF LaneInvariant

LEMMA SigningKeeps ==
  ASSUME LaneInvariant, SignFormal
  PROVE  LaneInvariant'
<1> USE DEF InFormal, InSource, InProofs, Walk, Closing
<1>1. LaneTyped /\ FormalTrue /\ ReceiptTrue
  BY DEF LaneInvariant
<1>2. /\ UNCHANGED <<tree, laneInputs, proof, presented, l4, probedAt>>
      /\ lane \in {"sign", "prove"} /\ lane' = "present" /\ op' = 1
  BY DEF SignFormal
<1>3. LaneTyped'
  BY <1>1, <1>2, InputsStay, ContentsStay DEF LaneTyped
<1>4. l3'.bindings = Bindings /\ l3'.findings = findings
  BY DEF SignFormal
<1>5. FormalTrue'
  BY <1>1, <1>2, <1>4, InputsStay DEF FormalTrue
<1>6. LaneGreen' /\ ReceiptTrue'
  BY <1>2 DEF LaneGreen, ReceiptTrue
<1> QED
  BY <1>3, <1>5, <1>6 DEF LaneInvariant

LEMMA PresentingKeeps ==
  ASSUME LaneInvariant, Present \/ CheckReceipt
  PROVE  LaneInvariant'
<1> USE DEF InFormal, InSource, InProofs, Walk, Closing
<1>1. LaneTyped /\ FormalTrue /\ ReceiptTrue
  BY DEF LaneInvariant
<1>2. /\ UNCHANGED <<tree, laneInputs, op, proof, l3, l4, probedAt>>
      /\ \/ lane = "present" /\ lane' \in {"formalReceipt", "rejected"}
            /\ (lane' = "formalReceipt" => ProofManifestAccepted)
         \/ lane = "formalReceipt" /\ lane' = "head" /\ CheckReceipt
  BY DEF Present, CheckReceipt, work, receipts
<1>3. LaneTyped'
  BY <1>1, <1>2, InputsStay, ContentsStay DEF LaneTyped
<1>4. FormalTrue'
  BY <1>1, <1>2, InputsStay DEF FormalTrue
<1>5. ASSUME findings' = {}, lane' = "head"
      PROVE  (presented.body = l3 /\ l3.status = "passed" /\ l3.findings = {})'
  <2>1. CheckReceipt
    BY <1>2, <1>5
  <2>2. FormalReceiptFindings = {}
    BY <1>5, <2>1 DEF CheckReceipt, Add
  <2>3. /\ "implementation-formal-receipt-digest-mismatch" \notin FormalReceiptFindings
        /\ "implementation-formal-receipt-mismatch" \notin FormalReceiptFindings
    BY <2>2, Zenon
  <2>4. presented.verificationId = L3
    BY <2>3, Zenon DEF FormalReceiptFindings, Breaks
  <2>5. L3.status = "passed" /\ L3.findings = {} /\ presented.verificationId = l3
    BY <2>3, Zenon DEF FormalReceiptFindings, Breaks
  <2>6. presented' = presented /\ l3' = l3
    BY <2>1 DEF CheckReceipt, receipts
  <2> QED
    BY <2>4, <2>5, <2>6 DEF L3
<1>6. findings' = {} => LaneGreen'
  BY <1>2, <1>5 DEF LaneGreen
<1>7. ReceiptTrue'
  BY <1>2 DEF ReceiptTrue
<1> QED
  BY <1>3, <1>4, <1>6, <1>7 DEF LaneInvariant

LEMMA ProbesKeep ==
  ASSUME LaneInvariant, ProbeHead \/ ProbeStatus \/ ProbeTools
  PROVE  LaneInvariant'
<1> USE DEF InFormal, InSource, InProofs, Walk, Closing
<1>1. LaneTyped /\ FormalTrue /\ ReceiptTrue /\ (findings = {} => LaneGreen)
  BY DEF LaneInvariant
<1>2. /\ UNCHANGED <<tree, head, laneInputs, op, proof, text, proofRuns, l3, presented, l4>>
      /\ \/ ProbeHead /\ lane = "head" /\ lane' = "status" /\ probedAt' = edits
         \/ ProbeStatus /\ lane = "status" /\ lane' = "tools" /\ probedAt' = probedAt
         \/ ProbeTools /\ lane = "tools" /\ lane' = "coverage" /\ probedAt' = probedAt
  BY DEF ProbeHead, ProbeStatus, ProbeTools, receipts
<1>3. /\ \A k \in DOMAIN ProofOps : ~(k < 1)
      /\ ProofManifestAccepted => 1 \in DOMAIN ProofOps
  BY <1>1, PositionsAreLists DEF LaneTyped
<1>4. LaneTyped'
  BY <1>1, <1>2, <1>3, InputsStay, ContentsStay DEF LaneTyped
<1>5. FormalTrue'
  BY <1>1, <1>2, InputsStay DEF FormalTrue
<1>6. ASSUME findings' = {} PROVE LaneGreen'
  <2>1. findings = {}
    BY <1>6 DEF ProbeHead, ProbeStatus, ProbeTools, Add
  <2>2. LaneGreen
    BY <1>1, <2>1
  <2>3. CASE ProbeHead /\ lane' = "status"
    <3>1. head = proofManifest.revision
      BY <1>6, <2>3 DEF ProbeHead, Add, Breaks
    <3> QED
      BY <1>2, <2>2, <2>3, <3>1, InputsStay DEF LaneGreen
  <2>4. CASE ProbeStatus /\ lane = "status" /\ lane' = "tools" /\ probedAt' = probedAt
    <3>1. Clean
      BY <1>6, <2>4 DEF ProbeStatus, Add, Breaks
    <3>2. \A p \in Paths : AsRevised(p)
      BY <2>2, <2>4, <3>1 DEF LaneGreen, Clean, AsRevised
    <3>3. \A p \in Paths : AsRevised(p)'
      BY <1>2, <2>4, <3>2, InputsStay, ContentsStay DEF AsRevised
    <3> QED
      BY <1>2, <2>2, <2>4, <3>3, InputsStay DEF LaneGreen
  <2>5. CASE ProbeTools /\ lane = "tools" /\ lane' = "coverage" /\ probedAt' = probedAt
    <3>1. \A p \in Paths : AsRevised(p)'
      <4>1. \A p \in Paths : AsRevised(p)
        BY <2>2, <2>5 DEF LaneGreen
      <4> QED
        BY <1>2, <2>5, <4>1, InputsStay, ContentsStay DEF AsRevised
    <3>2. op' = 1 /\ ProofOps' = ProofOps
      BY <1>1, <1>2, <2>5, InputsStay DEF LaneTyped
    <3> QED
      BY <1>2, <1>3, <2>2, <2>5, <3>1, <3>2 DEF LaneGreen
  <2> QED
    BY <1>2, <2>3, <2>4, <2>5
<1>7. ReceiptTrue'
  BY <1>2 DEF ReceiptTrue
<1> QED
  BY <1>4, <1>5, <1>6, <1>7 DEF LaneInvariant

(* What was covered and proved stays so, on the way and when others edit.     *)
LEMMA DoneStays ==
  ASSUME edits \in Nat, probedAt \in Nat, edits' \in Nat,
         UNCHANGED <<laneInputs, l3, presented, probedAt>>, proofRuns \subseteq proofRuns',
         UNCHANGED tree \/ (edits' = edits + 1 /\ probedAt <= edits)
  PROVE  /\ \A p : AsRevised(p) => AsRevised(p)'
         /\ \A o : Covered(o) => Covered(o)'
         /\ \A o, q : Proved(o, q) => Proved(o, q)'
         /\ \A o : OperationDone(o) => OperationDone(o)'
<1>1. edits > probedAt => edits' > probedAt'
  BY DEF tree
<1>2. ASSUME NEW p, AsRevised(p) PROVE AsRevised(p)'
  <2>1. CASE UNCHANGED tree
    BY <1>1, <1>2, <2>1, InputsStay, ContentsStay DEF AsRevised
  <2>2. CASE edits' = edits + 1 /\ probedAt <= edits
    BY <2>2 DEF AsRevised
  <2> QED
    BY <2>1, <2>2
<1>3. ASSUME NEW o, Covered(o) PROVE Covered(o)'
  BY <1>3 DEF Covered
<1>4. ASSUME NEW o, NEW q, Proved(o, q) PROVE Proved(o, q)'
  <2>1. PICK r \in proofRuns :
          /\ r.op = o.id /\ r.tool = q.tool /\ r.source = q.source /\ r.exit = 0
          /\ r.saw \in Provable
          /\ r.saw = q.pin \/ edits > probedAt
    BY <1>4 DEF Proved
  <2>2. r \in proofRuns' /\ (r.saw = q.pin \/ edits' > probedAt')
    BY <1>1, <2>1
  <2> QED
    BY <2>1, <2>2 DEF Proved
<1>5. ASSUME NEW o, OperationDone(o) PROVE OperationDone(o)'
  BY <1>3, <1>4, <1>5 DEF OperationDone
<1> QED
  BY <1>2, <1>3, <1>4, <1>5

LEMMA CoverageKeeps ==
  ASSUME LaneInvariant, CheckCoverage
  PROVE  LaneInvariant'
<1> USE DEF InFormal, InSource, InProofs, Walk, Closing
<1>1. LaneTyped /\ FormalTrue /\ ReceiptTrue /\ (findings = {} => LaneGreen)
  BY DEF LaneInvariant
<1>2. /\ UNCHANGED <<tree, head, laneInputs, text, proofRuns, l3, presented, l4, probedAt>>
      /\ lane = "coverage"
      /\ \/ /\ lane' = "sourceLstat" /\ op' = op /\ proof' = proof
            /\ findings' = findings \cup CoverageFindings(ProofOps[op].id)
         \/ /\ findings' # {} /\ proof' = 1
            /\ \/ op < Len(ProofOps) /\ op' = op + 1 /\ lane' = "coverage"
               \/ op' = op /\ lane' = "receipt"
  BY DEF CheckCoverage, receipts, NextOperation, Add
<1>3. op \in DOMAIN ProofOps /\ Len(ProofOps) \in Nat /\ DOMAIN ProofOps = 1..Len(ProofOps)
  BY <1>1, <1>2, PositionsAreLists DEF LaneTyped
<1>4. op < Len(ProofOps) => op + 1 \in DOMAIN ProofOps
  BY <1>3
<1>5. LaneTyped'
  BY <1>1, <1>2, <1>3, <1>4, InputsStay, ContentsStay DEF LaneTyped
<1>6. FormalTrue' /\ ReceiptTrue'
  BY <1>1, <1>2, InputsStay DEF FormalTrue, ReceiptTrue
<1>7. ASSUME findings' = {} PROVE LaneGreen'
  <2>1. /\ findings = {} /\ CoverageFindings(ProofOps[op].id) = {}
        /\ lane' = "sourceLstat" /\ op' = op /\ proof' = proof
    BY <1>2, <1>7
  <2>2. LaneGreen
    BY <1>1, <2>1
  <2>3. Covered(ProofOps[op])
    <3> DEFINE id == ProofOps[op].id
    <3>1. /\ "implementation-l3-binding-missing" \notin CoverageFindings(id)
          /\ "implementation-l3-proof-missing" \notin CoverageFindings(id)
      BY <2>1, Zenon
    <3> HIDE DEF id
    <3>2. id \in DOMAIN L3.bindings /\ L3.bindings[id] = 1
      BY <3>1, Zenon DEF CoverageFindings, Breaks
    <3>3. \E r \in L3.proofRuns : id \in r.ops /\ r.exit = 0
      BY <3>1, Zenon DEF CoverageFindings, Breaks
    <3>4. L3 = l3
      BY <1>2, <2>2 DEF LaneGreen, L3
    <3> QED
      BY <3>2, <3>3, <3>4 DEF Covered, id
  <2>4. /\ \A p : AsRevised(p) => AsRevised(p)'
        /\ \A o : Covered(o) => Covered(o)'
        /\ \A o : OperationDone(o) => OperationDone(o)'
        /\ ProofOps' = ProofOps
    BY <1>1, <1>2, DoneStays, InputsStay, ContentsStay DEF LaneTyped
  <2> QED
    BY <1>2, <2>1, <2>2, <2>3, <2>4 DEF LaneGreen
<1> QED
  BY <1>5, <1>6, <1>7 DEF LaneInvariant

LEMMA SourcesKeep ==
  ASSUME LaneInvariant, LstatSource \/ ReadSource
  PROVE  LaneInvariant'
<1> USE DEF InFormal, InSource, InProofs, Walk, Closing
<1>1. LaneTyped /\ FormalTrue /\ ReceiptTrue /\ (findings = {} => LaneGreen)
  BY DEF LaneInvariant
<1>2. /\ UNCHANGED <<tree, head, laneInputs, op, proof, proofRuns, l3, presented, l4, probedAt>>
      /\ lane \in InSource /\ lane' \in {"sourceRead", "proofLstat"}
      /\ findings' = {} => findings = {}
  BY DEF LstatSource, ReadSource, receipts, Add
<1>3. /\ op \in DOMAIN ProofOps /\ 1 \in DOMAIN ProofOps[op].proofs /\ proof = 1
      /\ \A j \in DOMAIN ProofOps[op].proofs : ~(j < 1)
  BY <1>1, <1>2, PositionsAreLists DEF LaneTyped
<1>4. LaneTyped'
  BY <1>1, <1>2, <1>3, InputsStay, ContentsStay DEF LaneTyped
<1>5. FormalTrue' /\ ReceiptTrue'
  BY <1>1, <1>2, InputsStay DEF FormalTrue, ReceiptTrue
<1>6. ASSUME findings' = {} PROVE LaneGreen'
  <2>1. LaneGreen
    BY <1>1, <1>2, <1>6
  <2>2. /\ \A p : AsRevised(p) => AsRevised(p)'
        /\ \A o : Covered(o) => Covered(o)'
        /\ \A o : OperationDone(o) => OperationDone(o)'
        /\ ProofOps' = ProofOps
    BY <1>1, <1>2, DoneStays, InputsStay, ContentsStay DEF LaneTyped
  <2> QED
    BY <1>2, <1>3, <2>1, <2>2 DEF LaneGreen
<1> QED
  BY <1>4, <1>5, <1>6 DEF LaneInvariant

(* The position after a proof is one of the manifest, or the end of it.       *)
LEMMA NextIsListed ==
  ASSUME LaneTyped, lane \in InProofs, NextProof
  PROVE  \/ /\ lane' = "proofLstat" /\ op' = op /\ proof' = proof + 1
            /\ proof + 1 \in DOMAIN ProofOps[op].proofs
         \/ /\ lane' = "coverage" /\ op' = op + 1 /\ proof' = 1
            /\ op + 1 \in DOMAIN ProofOps
            /\ \A j \in DOMAIN ProofOps[op].proofs : j < proof \/ j = proof
         \/ /\ lane' = "receipt" /\ op' = op /\ proof' = 1
            /\ \A k \in DOMAIN ProofOps : k < op \/ k = op
            /\ \A j \in DOMAIN ProofOps[op].proofs : j < proof \/ j = proof
<1> USE DEF InProofs, Walk
<1> DEFINE last == Len(ProofOps)
           final == Len(ProofOps[op].proofs)
<1>1. /\ op \in 1..last /\ last \in Nat /\ DOMAIN ProofOps = 1..last
      /\ proof \in 1..final /\ final \in Nat /\ DOMAIN ProofOps[op].proofs = 1..final
  BY PositionsAreLists DEF LaneTyped
<1>2. \/ proof < final /\ proof' = proof + 1 /\ lane' = "proofLstat" /\ op' = op
      \/ /\ ~(proof < final) /\ proof' = 1
         /\ \/ op < last /\ op' = op + 1 /\ lane' = "coverage"
            \/ ~(op < last) /\ lane' = "receipt" /\ op' = op
  BY DEF NextProof, NextOperation
<1> HIDE DEF last, final
<1> QED
  BY <1>1, <1>2

LEMMA ProofSourcesKeep ==
  ASSUME LaneInvariant, LstatProof \/ ReadProof
  PROVE  LaneInvariant'
<1> USE DEF InFormal, InSource, InProofs, Walk, Closing
<1>1. LaneTyped /\ FormalTrue /\ ReceiptTrue /\ (findings = {} => LaneGreen)
  BY DEF LaneInvariant
<1>2. /\ UNCHANGED <<tree, head, laneInputs, proofRuns, l3, presented, l4, probedAt>>
      /\ lane \in {"proofLstat", "proofRead"}
      /\ \/ /\ lane = "proofLstat" /\ lane' = "proofRead"
            /\ UNCHANGED <<op, proof, findings>>
         \/ /\ lane = "proofRead" /\ lane' = "run" /\ Content(Target.source) = Target.pin
            /\ UNCHANGED <<op, proof, findings>>
         \/ NextProof /\ findings' # {}
  <2>1. CASE LstatProof
    BY <2>1 DEF LstatProof, receipts, Add
  <2>2. CASE ReadProof
    BY <2>2 DEF ReadProof, receipts, Add
  <2> QED
    BY <2>1, <2>2
<1>3. LaneTyped'
  <2>1. CASE lane' \in InProofs /\ UNCHANGED <<op, proof>>
    BY <1>1, <1>2, <2>1, InputsStay, ContentsStay DEF LaneTyped
  <2>2. CASE NextProof
    BY <1>1, <1>2, <2>2, NextIsListed, InputsStay, ContentsStay DEF LaneTyped
  <2> QED
    BY <1>2, <2>1, <2>2
<1>4. FormalTrue' /\ ReceiptTrue'
  <2>1. lane' \in Walk \cup {"receipt"}
    BY <1>1, <1>2, NextIsListed
  <2> QED
    BY <1>1, <1>2, <2>1, InputsStay DEF FormalTrue, ReceiptTrue
<1>5. ASSUME findings' = {} PROVE LaneGreen'
  <2>1. /\ LaneGreen /\ UNCHANGED <<op, proof>>
        /\ \/ lane' = "proofRead"
           \/ lane' = "run" /\ Content(Target.source) = Target.pin
    BY <1>1, <1>2, <1>5
  <2>2. /\ \A p : AsRevised(p) => AsRevised(p)'
        /\ \A o : Covered(o) => Covered(o)'
        /\ \A o, q : Proved(o, q) => Proved(o, q)'
        /\ \A o : OperationDone(o) => OperationDone(o)'
        /\ ProofOps' = ProofOps
    BY <1>1, <1>2, DoneStays, InputsStay, ContentsStay DEF LaneTyped
  <2>3. Target' = Target
    BY <2>1, <2>2 DEF Target
  <2>4. lane' = "run" => (Content(Target.source) = Target.pin)'
    <3> SUFFICES ASSUME lane' = "run" PROVE (Content(Target.source) = Target.pin)'
      OBVIOUS
    <3>1. Content(Target.source) = Target.pin
      BY <2>1
    <3>2. PICK at : at = Target.source
      OBVIOUS
    <3>3. Content(at)' = Content(at) /\ Target'.source = at /\ Target'.pin = Target.pin
      BY <1>2, <2>3, <3>2, ContentsStay
    <3> QED
      BY <3>1, <3>2, <3>3
  <2> QED
    BY <1>2, <2>1, <2>2, <2>4 DEF LaneGreen
<1> QED
  BY <1>3, <1>4, <1>5 DEF LaneInvariant

LEMMA RunKeeps ==
  ASSUME LaneInvariant, RunProof
  PROVE  LaneInvariant'
<1> USE DEF InFormal, InSource, InProofs, Walk, Closing
<1>1. LaneTyped /\ FormalTrue /\ ReceiptTrue /\ (findings = {} => LaneGreen)
  BY DEF LaneInvariant
<1>2. /\ UNCHANGED <<tree, head, laneInputs, l3, presented, l4, probedAt>>
      /\ lane = "run" /\ NextProof
  BY DEF RunProof, receipts
<1>3. PICK ops, o, q, seen :
        ops = ProofOps /\ o = ops[op] /\ q = Target /\ seen = Content(q.source)
  OBVIOUS
<1>4. PICK exit \in {0, 1} :
        /\ exit = 0 => seen \in Provable
        /\ proofRuns' = proofRuns \cup
             {[op |-> o.id, tool |-> q.tool, source |-> q.source, exit |-> exit, saw |-> seen]}
        /\ findings' = findings \cup Breaks("implementation-proof-failed", exit # 0)
  BY <1>3 DEF RunProof, Add
<1>5. LaneTyped' /\ lane' \in {"proofLstat", "coverage", "receipt"}
  BY <1>1, <1>2, NextIsListed, InputsStay, ContentsStay DEF LaneTyped
<1>6. FormalTrue' /\ ReceiptTrue'
  BY <1>1, <1>2, <1>5, InputsStay DEF FormalTrue, ReceiptTrue
<1>7. ASSUME findings' = {} PROVE LaneGreen'
  <2>1. findings = {} /\ exit = 0
    BY <1>4, <1>7 DEF Breaks
  <2>2. LaneGreen
    BY <1>1, <2>1
  <2>3. /\ \A p : AsRevised(p) => AsRevised(p)'
        /\ \A x : Covered(x) => Covered(x)'
        /\ \A x, y : Proved(x, y) => Proved(x, y)'
        /\ \A x : OperationDone(x) => OperationDone(x)'
        /\ ProofOps' = ops
    <3>1. proofRuns \subseteq proofRuns'
      BY <1>4
    <3> QED
      BY <1>1, <1>2, <1>3, <3>1, DoneStays, InputsStay, ContentsStay DEF LaneTyped
  <2>4. Proved(o, q)'
    <3>1. seen \in Provable /\ (seen = q.pin \/ edits > probedAt)
      BY <1>2, <1>3, <1>4, <2>1, <2>2 DEF LaneGreen
    <3>2. PICK r : r = [op |-> o.id, tool |-> q.tool, source |-> q.source,
                        exit |-> exit, saw |-> seen]
      OBVIOUS
    <3>3. edits' = edits /\ probedAt' = probedAt
      BY <1>2, ContentsStay
    <3>4. r \in proofRuns'
      BY <1>4, <3>2
    <3>5. /\ r.op = o.id /\ r.tool = q.tool /\ r.source = q.source /\ r.exit = 0
          /\ r.saw = seen
      BY <2>1, <3>2
    <3> QED
      BY <3>1, <3>3, <3>4, <3>5 DEF Proved
  <2>5. q = o.proofs[proof]
    BY <1>3 DEF Target
  <2>6. Covered(o)' /\ \A j \in DOMAIN o.proofs : j < proof \/ j = proof => Proved(o, o.proofs[j])'
    BY <1>2, <1>3, <2>2, <2>3, <2>4, <2>5 DEF LaneGreen
  <2>7. \A k \in DOMAIN ops : k < op => OperationDone(ops[k])'
    BY <1>2, <1>3, <2>2, <2>3 DEF LaneGreen
  <2>8. /\ (presented.body = l3 /\ l3.status = "passed" /\ l3.findings = {})'
        /\ \A p \in Paths : AsRevised(p)'
    BY <1>2, <2>2, <2>3 DEF LaneGreen
  <2>9. (\A j \in DOMAIN o.proofs : j < proof \/ j = proof) => OperationDone(o)'
    BY <2>6 DEF OperationDone
  <2>10. op \in DOMAIN ops /\ \A k \in DOMAIN ops : k \in Int
    BY <1>1, <1>2, <1>3, PositionsAreLists DEF LaneTyped
  <2>11. \A j \in DOMAIN o.proofs : j \in Int
    BY <1>1, <1>3, <2>10, PositionsAreLists DEF LaneTyped
  <2>12. proof \in Int /\ op \in Int
    BY <1>1, <1>2, <2>10, PositionsAreLists DEF LaneTyped
  <2>13. CASE /\ lane' = "proofLstat" /\ op' = op /\ proof' = proof + 1
    <3>1. ops[op'] = o
      BY <1>3, <2>3, <2>13
    <3>2. \A j \in DOMAIN o.proofs : j < proof' => Proved(o, o.proofs[j])'
      BY <2>6, <2>11, <2>12, <2>13
    <3>3. \A k \in DOMAIN ops : k < op' => OperationDone(ops[k])'
      BY <2>7, <2>13
    <3> QED
      BY <2>3, <2>6, <2>8, <2>13, <3>1, <3>2, <3>3 DEF LaneGreen
  <2>14. CASE /\ lane' = "coverage" /\ op' = op + 1
              /\ \A j \in DOMAIN ProofOps[op].proofs : j < proof \/ j = proof
    <3>1. \A k \in DOMAIN ops : k < op' => k < op \/ k = op
      BY <2>10, <2>12, <2>14
    <3>2. OperationDone(o)'
      BY <1>3, <2>9, <2>14
    <3>3. \A k \in DOMAIN ops : k < op' => OperationDone(ops[k])'
      BY <1>3, <2>7, <3>1, <3>2
    <3> QED
      BY <2>3, <2>8, <2>14, <3>3 DEF LaneGreen
  <2>15. CASE /\ lane' = "receipt"
              /\ \A k \in DOMAIN ProofOps : k < op \/ k = op
              /\ \A j \in DOMAIN ProofOps[op].proofs : j < proof \/ j = proof
    <3>1. OperationDone(o)'
      BY <1>3, <2>9, <2>15
    <3>2. \A k \in DOMAIN ops : OperationDone(ops[k])'
      BY <1>3, <2>7, <2>15, <3>1
    <3> QED
      BY <2>3, <2>8, <2>15, <3>2 DEF LaneGreen
  <2> QED
    BY <1>1, <1>2, <2>13, <2>14, <2>15, NextIsListed
<1> QED
  BY <1>5, <1>6, <1>7 DEF LaneInvariant

LEMMA ImplementationSigned ==
  ASSUME LaneInvariant, SignImplementation
  PROVE  LaneInvariant'
<1> USE DEF InFormal, InSource, InProofs, Walk, Closing
<1>1. LaneTyped /\ FormalTrue /\ ReceiptTrue /\ (findings = {} => LaneGreen)
  BY DEF LaneInvariant
<1>2. /\ UNCHANGED <<tree, head, laneInputs, op, proof, text, findings, proofRuns>>
      /\ UNCHANGED <<l3, presented, probedAt>>
      /\ lane = "receipt" /\ lane' = "done"
      /\ l4'.proofRuns = proofRuns /\ (l4'.status = "passed" => findings = {})
  BY DEF SignImplementation, work
<1>3. LaneTyped'
  BY <1>1, <1>2, InputsStay, ContentsStay DEF LaneTyped
<1>4. FormalTrue' /\ ReceiptTrue'
  BY <1>1, <1>2, InputsStay DEF FormalTrue, ReceiptTrue
<1>5. ASSUME findings' = {} PROVE LaneGreen'
  <2>1. LaneGreen
    BY <1>1, <1>2, <1>5
  <2>2. /\ \A p : AsRevised(p) => AsRevised(p)'
        /\ \A o : OperationDone(o) => OperationDone(o)'
        /\ ProofOps' = ProofOps
    BY <1>1, <1>2, DoneStays, InputsStay, ContentsStay DEF LaneTyped
  <2> QED
    BY <1>2, <2>1, <2>2 DEF LaneGreen
<1> QED
  BY <1>3, <1>4, <1>5 DEF LaneInvariant

(* Whatever others do to the checkout, HEAD included, is after the probes; or *)
(* the probes are still to come.                                              *)
LEMMA TouchingKeeps ==
  ASSUME LaneInvariant, EditTree \/ MoveHead
  PROVE  LaneInvariant'
<1> USE DEF InFormal, InSource, InProofs, Walk, Closing
<1>1. LaneTyped /\ FormalTrue /\ ReceiptTrue /\ (findings = {} => LaneGreen)
  BY DEF LaneInvariant
<1>2. /\ UNCHANGED <<laneInputs, lane, op, proof, text, findings, proofRuns>>
      /\ UNCHANGED <<l3, presented, l4, probedAt>>
      /\ edits' = edits + 1
  BY DEF EditTree, MoveHead, Edit, WriteInPlace, Replace, Remove, Relink, SwapFolder,
         Edited, Now, work, receipts
<1>3. edits \in Nat /\ probedAt \in Nat /\ probedAt <= edits /\ edits' > probedAt'
  BY <1>1, <1>2 DEF LaneTyped
<1>4. LaneTyped'
  BY <1>1, <1>2, <1>3, InputsStay DEF LaneTyped
<1>5. FormalTrue' /\ ReceiptTrue'
  BY <1>1, <1>2, InputsStay DEF FormalTrue, ReceiptTrue
<1>6. ASSUME findings' = {} PROVE LaneGreen'
  <2>1. LaneGreen
    BY <1>1, <1>2, <1>6
  <2>2. /\ \A p : AsRevised(p)'
        /\ \A o : Covered(o) => Covered(o)'
        /\ \A o, q : Proved(o, q) => Proved(o, q)'
        /\ \A o : OperationDone(o) => OperationDone(o)'
        /\ ProofOps' = ProofOps
    BY <1>2, <1>3, DoneStays, InputsStay DEF AsRevised
  <2> QED
    BY <1>2, <1>3, <2>1, <2>2 DEF LaneGreen
<1> QED
  BY <1>4, <1>5, <1>6 DEF LaneInvariant

LEMMA WaitingKeeps ==
  ASSUME LaneInvariant, UNCHANGED laneVars
  PROVE  LaneInvariant'
<1>1. /\ UNCHANGED <<tree, head, laneInputs, lane, op, proof, text, findings, proofRuns>>
      /\ UNCHANGED <<l3, presented, l4, probedAt>>
  BY DEF laneVars, work, receipts
<1>2. LaneTyped /\ FormalTrue /\ ReceiptTrue /\ (findings = {} => LaneGreen)
  BY DEF LaneInvariant
<1>3. LaneTyped' /\ FormalTrue' /\ ReceiptTrue'
  BY <1>1, <1>2, InputsStay, ContentsStay DEF LaneTyped, FormalTrue, ReceiptTrue
<1>4. ASSUME findings' = {} PROVE LaneGreen'
  <2>1. LaneGreen
    BY <1>1, <1>2, <1>4
  <2>2. /\ \A p : AsRevised(p) => AsRevised(p)'
        /\ \A o : Covered(o) => Covered(o)'
        /\ \A o, q : Proved(o, q) => Proved(o, q)'
        /\ \A o : OperationDone(o) => OperationDone(o)'
        /\ ProofOps' = ProofOps
    BY <1>1, <1>2, DoneStays, InputsStay, ContentsStay DEF LaneTyped
  <2>3. PICK at : at = Target.source
    OBVIOUS
  <2>4. Target' = Target /\ Content(at)' = Content(at)
    BY <1>1, <2>2, ContentsStay DEF Target
  <2>5. Content(Target.source) = Target.pin => (Content(Target.source) = Target.pin)'
    BY <2>3, <2>4
  <2>6. edits' = edits
    BY <1>1, ContentsStay
  <2>7. lane' = "run" => edits' > probedAt' \/ (Content(Target.source) = Target.pin)'
    BY <1>1, <2>1, <2>5, <2>6 DEF LaneGreen
  <2>8. lane' = "status" => edits' > probedAt' \/ (head = proofManifest.revision)'
    BY <1>1, <2>1, <2>6, InputsStay DEF LaneGreen
  <2> QED
    BY <1>1, <2>1, <2>2, <2>7, <2>8 DEF LaneGreen
<1> QED
  BY <1>3, <1>4 DEF LaneInvariant

LEMMA LanesHold == LanesSpec => []LaneInvariant
<1>1. TreeInit /\ LaneInit => LaneInvariant
  BY LanesStart
<1>2. LaneInvariant /\ [LaneNext]_laneVars => LaneInvariant'
  BY FormalKeeps, SigningKeeps, PresentingKeeps, ProbesKeep, CoverageKeeps, SourcesKeep,
     ProofSourcesKeep, RunKeeps, ImplementationSigned, TouchingKeeps, WaitingKeeps
     DEF LaneNext, LaneStep
<1> QED
  BY <1>1, <1>2, PTL DEF LanesSpec

(* A passed L4 receipt is earned, for every manifest, authority and checkout, *)
(* however often others edit the files, replace them or move HEAD while the   *)
(* lanes run, and whichever receipt is presented between them.                *)
THEOREM ProofsAreEarned == LanesSpec => []L4IsEarned
<1>1. LaneInvariant => L4IsEarned
  <2> SUFFICES ASSUME LaneInvariant, l4 # None, l4.status = "passed" PROVE L4IsEarned
    BY DEF L4IsEarned
  <2> USE DEF InFormal, Closing
  <2>1. lane = "done" /\ findings = {} /\ l4.proofRuns = proofRuns
    BY DEF LaneInvariant, LaneTyped, ReceiptTrue
  <2>2. /\ l3.status = "passed" /\ l3.findings = {}
        /\ \A p \in Paths : AsRevised(p)
        /\ \A k \in DOMAIN ProofOps : OperationDone(ProofOps[k])
    BY <2>1 DEF LaneInvariant, LaneGreen
  <2>3. l3.bindings = Bindings /\ DafnyBound
    BY <2>1, <2>2 DEF LaneInvariant, FormalTrue
  <2>4. ASSUME NEW o \in Members(ProofOps)
        PROVE  /\ o.id \in Dafny => o.id \in Members(FormalIds)
               /\ typespec.bound[o.id] = 1
               /\ \E r \in l3.proofRuns : o.id \in r.ops /\ r.exit = 0
               /\ \A q \in Members(o.proofs) :
                    \E r \in l4.proofRuns :
                      /\ r.op = o.id /\ r.tool = q.tool /\ r.source = q.source /\ r.exit = 0
                      /\ r.saw \in Provable
                      /\ r.saw = q.pin \/ edits > probedAt
    <3>1. OperationDone(o)
      BY <2>2, <2>4 DEF Members
    <3>2. o.id \in DOMAIN Bindings /\ Bindings[o.id] = 1
      BY <2>3, <3>1 DEF OperationDone, Covered
    <3>3. typespec.bound[o.id] = 1
      BY <3>2 DEF Bindings
    <3>4. \A q \in Members(o.proofs) : Proved(o, q)
      BY <3>1 DEF OperationDone, Members
    <3> QED
      BY <2>1, <2>3, <3>1, <3>3, <3>4 DEF OperationDone, Covered, Proved, DafnyBound
  <2> QED
    BY <2>2, <2>4 DEF L4IsEarned, AsRevised
<1> QED
  BY <1>1, LanesHold, PTL

-----------------------------------------------------------------------------
(* RuntimeConformance.                                                        *)

(* Without findings nothing of a list was dropped: its entries are all well   *)
(* shaped, within the limit, and of different keys.                           *)
LEMMA NothingDropped ==
  ASSUME NEW list, IsList(list), NEW limit \in Nat, NEW by, NEW name,
         ListFindings(list, limit, by, name) = {}
  PROVE  /\ Malformed \notin Members(list) /\ Looked(list, limit) = DOMAIN list
         /\ \A i, j \in DOMAIN list : KeyIn(list[i], by) = KeyIn(list[j], by) => i = j
         /\ Firsts(list, limit, by) = Members(list)
<1>1. DOMAIN list = 1 .. Len(list) /\ Len(list) \in Nat
  BY DEF IsList
<1>2. /\ ~ \E k \in DOMAIN list : k <= limit /\ list[k] = Malformed
      /\ ~(Len(list) > limit)
      /\ ~ \E i, j \in Looked(list, limit) : i < j /\ KeyIn(list[i], by) = KeyIn(list[j], by)
  BY Zenon DEF ListFindings, Breaks
<1>3. \A k \in DOMAIN list : k <= limit /\ list[k] # Malformed
  BY <1>1, <1>2
<1>4. Looked(list, limit) = DOMAIN list
  BY <1>3 DEF Looked
<1>5. \A i, j \in DOMAIN list : KeyIn(list[i], by) = KeyIn(list[j], by) => i = j
  <2> SUFFICES ASSUME NEW i \in DOMAIN list, NEW j \in DOMAIN list,
                      KeyIn(list[i], by) = KeyIn(list[j], by)
               PROVE  i = j
    OBVIOUS
  <2>1. ~(i < j) /\ ~(j < i)
    BY <1>2, <1>4
  <2> QED
    BY <1>1, <2>1
<1>6. \A i, j \in DOMAIN list : i < j => KeyIn(list[i], by) # KeyIn(list[j], by)
  BY <1>2, <1>4
<1>7. Firsts(list, limit, by) = {list[k] : k \in DOMAIN list}
  BY <1>4, <1>6, Zenon DEF Firsts
<1> QED
  BY <1>3, <1>4, <1>5, <1>7, Zenon DEF Members

(* Then an entry is the only one of its key.                                  *)
LEMMA OnlyOnce ==
  ASSUME NEW list, Malformed \notin Members(list), NEW by, NEW x \in Members(list),
         \A i, j \in DOMAIN list : KeyIn(list[i], by) = KeyIn(list[j], by) => i = j
  PROVE  Once(list, by, KeyIn(x, by))
<1>1. PICK k \in DOMAIN list : x = list[k]
  BY DEF Members
<1>2. \A i \in DOMAIN list : list[i] # Malformed
  BY DEF Members
<1>3. {i \in DOMAIN list : list[i] # Malformed /\ KeyIn(list[i], by) = KeyIn(x, by)} = {k}
  <2> DEFINE S == {i \in DOMAIN list : list[i] # Malformed /\ KeyIn(list[i], by) = KeyIn(x, by)}
  <2>1. k \in S
    BY <1>1, <1>2
  <2>2. \A i \in S : i = k
    BY <1>1
  <2>3. S = {k}
    BY <2>1, <2>2
  <2> QED
    BY <2>3
<1>4. Cardinality({k}) = 1
  BY FS_Singleton
<1> QED
  BY <1>3, <1>4 DEF Once

(* Two lists with different keys each and the same keys in all are as long.   *)
LEMMA AsLong ==
  ASSUME NEW s, IsList(s), NEW t, IsList(t), NEW by, NEW of,
         \A i, j \in DOMAIN s : KeyIn(s[i], by) = KeyIn(s[j], by) => i = j,
         \A i, j \in DOMAIN t : KeyIn(t[i], of) = KeyIn(t[j], of) => i = j,
         \A x \in Members(s) : \E y \in Members(t) : KeyIn(x, by) = KeyIn(y, of),
         \A y \in Members(t) : \E x \in Members(s) : KeyIn(x, by) = KeyIn(y, of)
  PROVE  Len(s) = Len(t)
<1> DEFINE f == [i \in DOMAIN s |-> CHOOSE j \in DOMAIN t : KeyIn(s[i], by) = KeyIn(t[j], of)]
<1>1. \A i \in DOMAIN s : \E j \in DOMAIN t : KeyIn(s[i], by) = KeyIn(t[j], of)
  BY Zenon DEF Members
<1>2. \A i \in DOMAIN s : f[i] \in DOMAIN t /\ KeyIn(s[i], by) = KeyIn(t[f[i]], of)
  BY <1>1
<1>3. f \in [DOMAIN s -> DOMAIN t]
  BY <1>2
<1>4. \A i, j \in DOMAIN s : f[i] = f[j] => i = j
  <2> HIDE DEF f
  <2> SUFFICES ASSUME NEW i \in DOMAIN s, NEW j \in DOMAIN s, f[i] = f[j] PROVE i = j
    OBVIOUS
  <2>1. KeyIn(s[i], by) = KeyIn(s[j], by)
    BY <1>2
  <2> QED
    BY <2>1
<1>5. \A j \in DOMAIN t : \E i \in DOMAIN s : f[i] = j
  <2> HIDE DEF f
  <2> SUFFICES ASSUME NEW j \in DOMAIN t PROVE \E i \in DOMAIN s : f[i] = j
    OBVIOUS
  <2>1. PICK i \in DOMAIN s : KeyIn(s[i], by) = KeyIn(t[j], of)
    BY Zenon DEF Members
  <2>2. KeyIn(t[f[i]], of) = KeyIn(t[j], of) /\ f[i] \in DOMAIN t
    BY <1>2, <2>1
  <2> QED
    BY <2>2
<1>6. f \in Bijection(DOMAIN s, DOMAIN t)
  <2> HIDE DEF f
  <2>1. f \in Injection(DOMAIN s, DOMAIN t)
    BY <1>3, <1>4 DEF Injection, IsInjective
  <2>2. f \in Surjection(DOMAIN s, DOMAIN t)
    BY <1>3, <1>5 DEF Surjection
  <2> QED
    BY <2>1, <2>2 DEF Bijection
<1>7. ExistsBijection(DOMAIN s, DOMAIN t)
  BY <1>6 DEF ExistsBijection
<1>8. /\ DOMAIN s = 1 .. Len(s) /\ Len(s) \in Nat
      /\ DOMAIN t = 1 .. Len(t) /\ Len(t) \in Nat
  BY DEF IsList
<1>9. \A n \in Nat : IsFiniteSet(1 .. n) /\ Cardinality(1 .. n) = n
  <2> SUFFICES ASSUME NEW n \in Nat PROVE IsFiniteSet(1 .. n) /\ Cardinality(1 .. n) = n
    OBVIOUS
  <2>1. /\ IsFiniteSet(1 .. n)
        /\ Cardinality(1 .. n) = (IF 1 > n THEN 0 ELSE n - 1 + 1)
    BY FS_Interval
  <2> QED
    BY <2>1
<1>10. IsFiniteSet(DOMAIN s) /\ Cardinality(DOMAIN s) = Len(s) /\ Cardinality(DOMAIN t) = Len(t)
  BY <1>8, <1>9
<1> QED
  BY <1>7, <1>10, FS_Bijection

(* A semantic result without findings: its digests and errors are there, all  *)
(* of its errors are kept, and it has an output or errors by its verdict.     *)
LEMMA ResultIsWhole ==
  ASSUME NEW x, Get(x, "errors") \notin {Nothing, Malformed} => IsList(x.errors),
         NEW schema, Semantic(schema), ResultFindings(x, schema) = {}
  PROVE  /\ Get(x, "input") = x.input /\ Get(x, "output") = x.output
         /\ ErrorsOf(x) = Members(x.errors)
         /\ x.verdict # "accepted" => x.output = Nothing
         /\ x.verdict # "rejected" => ErrorsOf(x) = {}
<1>1. DOMAIN x = ResultFields(schema) /\ SemanticFindings(x) = {}
  BY Zenon DEF ResultFindings, Breaks
<1>2. "input" \in DOMAIN x /\ "output" \in DOMAIN x /\ "errors" \in DOMAIN x
  BY <1>1 DEF ResultFields
<1>3. Get(x, "input") = x.input /\ Get(x, "output") = x.output /\ Get(x, "errors") = x.errors
  BY <1>2 DEF Get
<1>4. Get(x, "errors") \notin {Nothing, Malformed}
  BY <1>1, Zenon DEF SemanticFindings
<1>5. /\ ListFindings(x.errors, MaxErrors, "itself", "runtime-result-error") = {}
      /\ ~(x.verdict # "accepted" /\ Get(x, "output") # Nothing)
      /\ ~((x.verdict = "rejected") # (ErrorsOf(x) # {}))
  BY <1>1, <1>4, Zenon DEF SemanticFindings, Breaks
<1>6. Firsts(x.errors, MaxErrors, "itself") = Members(x.errors)
  BY <1>4, <1>5, NothingDropped, BoundsOfEvidence
<1>7. ErrorsOf(x) = Members(x.errors)
  BY <1>4, <1>6 DEF ErrorsOf
<1>8. x.verdict # "rejected" => ErrorsOf(x) = {}
  BY <1>5
<1> QED
  BY <1>3, <1>5, <1>7, <1>8

IsReport(a) ==
  a.results # Malformed =>
    /\ IsList(a.results)
    /\ \A x \in Members(a.results) \ {Malformed} :
         Get(x, "errors") \notin {Nothing, Malformed} => IsList(x.errors)

(* An adapter without findings of its own: all of its results are looked at.  *)
LEMMA AdapterIsWhole ==
  ASSUME NEW a, IsReport(a), NEW schema, AdapterFindings(a, schema) = {}
  PROVE  /\ a.results # Malformed /\ IsList(a.results) /\ Malformed \notin Members(a.results)
         /\ \A i, j \in DOMAIN a.results : a.results[i].caseId = a.results[j].caseId => i = j
         /\ NormalAdapter(a, schema).results = {NormalResult(x) : x \in Members(a.results)}
         /\ \A x \in Members(a.results) :
              /\ Get(x, "errors") \notin {Nothing, Malformed} => IsList(x.errors)
              /\ ResultFindings(x, schema) = {}
<1>1. a.results # Malformed
  BY Zenon DEF AdapterFindings
<1>2. /\ ListFindings(a.results, MaxResults, "caseId", "runtime-result") = {}
      /\ \A k \in Looked(a.results, MaxResults) : ResultFindings(a.results[k], schema) = {}
  BY <1>1, Zenon DEF AdapterFindings
<1>3. IsList(a.results)
  BY <1>1 DEF IsReport
<1>4. /\ Malformed \notin Members(a.results)
      /\ Looked(a.results, MaxResults) = DOMAIN a.results
      /\ \A i, j \in DOMAIN a.results :
           KeyIn(a.results[i], "caseId") = KeyIn(a.results[j], "caseId") => i = j
      /\ Firsts(a.results, MaxResults, "caseId") = Members(a.results)
  BY <1>2, <1>3, NothingDropped, BoundsOfEvidence
<1>5. \A z : KeyIn(z, "caseId") = z.caseId
  BY DEF KeyIn
<1>6. NormalAdapter(a, schema).results = {NormalResult(x) : x \in Members(a.results)}
  BY <1>1, <1>4 DEF NormalAdapter
<1>7. \A x \in Members(a.results) : ResultFindings(x, schema) = {}
  BY <1>2, <1>4, Zenon DEF Members
<1>8. \A x \in Members(a.results) : Get(x, "errors") \notin {Nothing, Malformed} => IsList(x.errors)
  BY <1>1, <1>4 DEF IsReport
<1> QED
  BY <1>1, <1>3, <1>4, <1>5, <1>6, <1>7, <1>8

(* An adapter that agrees with the corpus: it executed each case once and     *)
(* nothing else, as the corpus says.                                          *)
LEMMA AdapterAgrees ==
  ASSUME NEW a, IsReport(a), NEW schema, AdapterFindings(a, schema) = {},
         NEW cases, IsList(cases), \A c \in Members(cases) : c.expectation \in {"accepted", "rejected"},
         \A i, j \in DOMAIN cases : cases[i].id = cases[j].id => i = j,
         OneAdapterFindings(NormalAdapter(a, schema), Members(cases), Semantic(schema)) = {}
  PROVE  /\ a.status = "passed" /\ Len(a.results) = Len(cases)
         /\ \A c \in Members(cases) :
              /\ Once(a.results, "caseId", c.id)
              /\ \E x \in Members(a.results) : x.caseId = c.id
              /\ \A x \in Members(a.results) : x.caseId = c.id =>
                   /\ x.declaration = c.declaration /\ x.verdict = c.expectation
                   /\ Semantic(schema) => x.input = c.input
         /\ \A x \in Members(a.results) : \E c \in Members(cases) : c.id = x.caseId
<1> DEFINE n == NormalAdapter(a, schema)
<1>1. n.status = a.status /\ n.results = {NormalResult(x) : x \in Members(a.results)}
  BY AdapterIsWhole DEF NormalAdapter
<1>2. \A x : /\ NormalResult(x).caseId = x.caseId /\ NormalResult(x).declaration = x.declaration
             /\ NormalResult(x).verdict = x.verdict /\ NormalResult(x).input = Get(x, "input")
  BY DEF NormalResult
<1> HIDE DEF n
<1>3. /\ ~(n.status = "failed") /\ ~(n.status \notin {"passed", "failed"})
      /\ ~ \E c \in Members(cases) : ResultOf(n, c) = {}
      /\ ~ \E x \in n.results : \A c \in Members(cases) : c.id # x.caseId
      /\ UNION {UNION {CaseRules(c, x, Semantic(schema)) : x \in ResultOf(n, c)}
                : c \in Members(cases)} = {}
  <2>1. OneAdapterFindings(n, Members(cases), Semantic(schema)) = {}
    BY DEF n
  <2> QED
    BY <2>1, Zenon DEF OneAdapterFindings, Breaks
<1>4. a.status = "passed"
  BY <1>1, <1>3
<1>5. \A c \in Members(cases) : \E x \in Members(a.results) : x.caseId = c.id
  <2> SUFFICES ASSUME NEW c \in Members(cases) PROVE \E x \in Members(a.results) : x.caseId = c.id
    OBVIOUS
  <2>1. PICK y \in n.results : y.caseId = c.id
    BY <1>3 DEF ResultOf
  <2> QED
    BY <1>1, <1>2, <2>1
<1>6. \A x \in Members(a.results) : \E c \in Members(cases) : c.id = x.caseId
  <2> SUFFICES ASSUME NEW x \in Members(a.results) PROVE \E c \in Members(cases) : c.id = x.caseId
    OBVIOUS
  <2>1. NormalResult(x) \in n.results
    BY <1>1
  <2> QED
    BY <1>2, <1>3, <2>1
<1>7. ASSUME NEW c \in Members(cases), NEW x \in Members(a.results), x.caseId = c.id
      PROVE  /\ x.declaration = c.declaration /\ x.verdict = c.expectation
             /\ Semantic(schema) => x.input = c.input
  <2> DEFINE y == NormalResult(x)
  <2>1. y \in ResultOf(n, c)
    BY <1>1, <1>2, <1>7 DEF ResultOf
  <2>2. CaseRules(c, y, Semantic(schema)) = {}
    <3> HIDE DEF y
    <3> DEFINE Broken(d) == UNION {CaseRules(d, z, Semantic(schema)) : z \in ResultOf(n, d)}
    <3>1. UNION {Broken(d) : d \in Members(cases)} = {}
      BY <1>3
    <3>2. Broken(c) = {}
      <4> HIDE DEF Broken
      <4> QED
        BY <3>1
    <3> QED
      BY <2>1, <3>2
  <2>3. /\ y.declaration = x.declaration /\ y.verdict = x.verdict /\ y.input = Get(x, "input")
    BY <1>2
  <2> HIDE DEF y
  <2>4. /\ ~(y.declaration # c.declaration)
        /\ ~(Semantic(schema) /\ y.input # c.input)
        /\ (CASE y.verdict = "error" -> {"runtime-case-error"}
              [] y.verdict \in {"skipped", "unsupported"} -> {"runtime-case-not-executed"}
              [] OTHER -> Breaks("runtime-case-verdict-mismatch", y.verdict # c.expectation)) = {}
    BY <2>2, Zenon DEF CaseRules, Breaks
  <2>5. y.verdict = c.expectation
    BY <2>4 DEF Breaks
  <2>6. Semantic(schema) => Get(x, "input") = x.input
    BY AdapterIsWhole, ResultIsWhole
  <2> QED
    BY <2>3, <2>4, <2>5, <2>6
<1>8. \A z : KeyIn(z, "caseId") = z.caseId /\ KeyIn(z, "id") = z.id
  BY DEF KeyIn
<1>9. ASSUME NEW c \in Members(cases) PROVE Once(a.results, "caseId", c.id)
  <2>1. PICK x \in Members(a.results) : x.caseId = c.id
    BY <1>5
  <2>2. Once(a.results, "caseId", KeyIn(x, "caseId"))
    BY AdapterIsWhole, OnlyOnce, <1>8
  <2> QED
    BY <1>8, <2>1, <2>2
<1>10. Len(a.results) = Len(cases)
  <2> DEFINE s == a.results
  <2>1. IsList(s) /\ \A i, j \in DOMAIN s : KeyIn(s[i], "caseId") = KeyIn(s[j], "caseId") => i = j
    BY <1>8, AdapterIsWhole
  <2>2. \A i, j \in DOMAIN cases : KeyIn(cases[i], "id") = KeyIn(cases[j], "id") => i = j
    BY <1>8
  <2>3. /\ \A x \in Members(s) : \E y \in Members(cases) : KeyIn(x, "caseId") = KeyIn(y, "id")
        /\ \A y \in Members(cases) : \E x \in Members(s) : KeyIn(x, "caseId") = KeyIn(y, "id")
    BY <1>5, <1>6, <1>8
  <2> HIDE DEF s
  <2>4. Len(s) = Len(cases)
    BY <2>1, <2>2, <2>3, AsLong
  <2> QED
    BY <2>4 DEF s
<1> QED
  BY <1>4, <1>5, <1>6, <1>7, <1>9, <1>10

LEMMA ImageIsFinite ==
  ASSUME NEW S, IsFiniteSet(S), NEW f, f = [x \in S |-> f[x]]
  PROVE  IsFiniteSet({f[x] : x \in S})
<1> DEFINE T == {f[x] : x \in S}
<1>1. f \in [S -> T]
  OBVIOUS
<1>2. \A t \in T : \E x \in S : f[x] = t
  OBVIOUS
<1> HIDE DEF T
<1>3. f \in Surjection(S, T)
  BY <1>1, <1>2 DEF Surjection
<1>4. IsFiniteSet(T)
  BY <1>3, FS_Surjection
<1> QED
  BY <1>4 DEF T

LEMMA MembersAreFinite ==
  ASSUME NEW list, IsList(list)
  PROVE  IsFiniteSet(Members(list))
<1>1. DOMAIN list = 1 .. Len(list) /\ Len(list) \in Int /\ list = [k \in DOMAIN list |-> list[k]]
  BY DEF IsList
<1>2. IsFiniteSet(1 .. Len(list))
  BY <1>1, FS_Interval
<1>3. IsFiniteSet({list[k] : k \in DOMAIN list})
  BY <1>1, <1>2, ImageIsFinite
<1> QED
  BY <1>3 DEF Members

(* The executed results of whole adapters are finitely many.                  *)
LEMMA ExecutedAreFinite ==
  ASSUME NEW list, IsList(list), NEW schema, NEW c,
         \A a \in Members(list) : IsReport(a) /\ AdapterFindings(a, schema) = {}
  PROVE  IsFiniteSet(Executed({NormalAdapter(a, schema) : a \in Members(list)}, c))
<1> DEFINE M == Members(list)
           results == [a \in M |-> ResultOf(NormalAdapter(a, schema), c)]
<1>1. IsFiniteSet(M)
  BY MembersAreFinite
<1>2. ASSUME NEW a \in M PROVE IsFiniteSet(results[a])
  <2> DEFINE N == Members(a.results)
             normal == [x \in N |-> NormalResult(x)]
             image == {normal[x] : x \in N}
  <2>1. IsList(a.results) /\ NormalAdapter(a, schema).results = {NormalResult(x) : x \in N}
    BY AdapterIsWhole
  <2>2. IsFiniteSet(N)
    BY <2>1, MembersAreFinite
  <2>3. image = {NormalResult(x) : x \in N}
    OBVIOUS
  <2>4. IsFiniteSet(image)
    <3>1. normal = [x \in N |-> normal[x]]
      OBVIOUS
    <3> HIDE DEF normal, N
    <3> QED
      BY <2>2, <3>1, ImageIsFinite
  <2>5. results[a] \subseteq image
    BY <2>1, <2>3 DEF ResultOf
  <2> HIDE DEF results, image
  <2> QED
    BY <2>4, <2>5, FS_Subset
<1>3. IsFiniteSet({results[a] : a \in M})
  <2>1. results = [a \in M |-> results[a]]
    OBVIOUS
  <2> HIDE DEF results, M
  <2> QED
    BY <1>1, <2>1, ImageIsFinite
<1>4. IsFiniteSet(UNION {results[a] : a \in M})
  <2> HIDE DEF results, M
  <2>1. \A R \in {results[a] : a \in M} : IsFiniteSet(R)
    BY <1>2
  <2> QED
    BY <1>3, <2>1, FS_UNION
<1>5. Executed({NormalAdapter(a, schema) : a \in M}, c) \subseteq UNION {results[a] : a \in M}
  <2> SUFFICES ASSUME NEW x \in Executed({NormalAdapter(a, schema) : a \in M}, c)
               PROVE  \E a \in M : x \in results[a]
    OBVIOUS
  <2>1. PICK b \in {NormalAdapter(a, schema) : a \in M} : x \in ResultOf(b, c)
    BY Zenon DEF Executed
  <2>2. PICK a \in M : b = NormalAdapter(a, schema)
    BY <2>1
  <2> QED
    BY <2>1, <2>2
<1> QED
  <2> HIDE DEF results
  <2> QED
    BY <1>4, <1>5, FS_Subset

(* Of finitely many results that do not diverge any two are the same.         *)
LEMMA OneValue ==
  ASSUME NEW results, IsFiniteSet(results), NEW field, ~Diverges(results, field),
         NEW x \in results, NEW y \in results
  PROVE  x[field] = y[field]
<1> DEFINE value == [r \in results |-> r[field]]
           values == {r[field] : r \in results}
<1>1. {value[r] : r \in results} = values
  OBVIOUS
<1>2. value = [r \in results |-> value[r]]
  OBVIOUS
<1>3. IsFiniteSet(values)
  <2>1. IsFiniteSet({value[r] : r \in results})
    <3> HIDE DEF value
    <3> QED
      BY <1>2, ImageIsFinite
  <2> QED
    BY <1>1, <2>1
<1>4. x[field] \in values /\ y[field] \in values
  OBVIOUS
<1>5. ~(Cardinality(values) > 1)
  BY DEF Diverges
<1> HIDE DEF values
<1>6. Cardinality(values) \in Nat /\ Cardinality(values) # 0
  BY <1>3, <1>4, FS_CardinalityType, FS_EmptySet
<1>7. Cardinality(values) = 1
  BY <1>5, <1>6
<1>8. PICK z : values = {z}
  BY <1>3, <1>7, FS_Singleton, Zenon
<1> QED
  BY <1>4, <1>8

(* Then what accepted a case gave one output, and what rejected it one list   *)
(* of errors.                                                                 *)
LEMMA ResultsAgree ==
  ASSUME NEW R, IsFiniteSet(R),
         ~Diverges(Having(R, "accepted"), "output"), ~Diverges(Having(R, "rejected"), "errors"),
         NEW x \in R, NEW y \in R, x.verdict = y.verdict
  PROVE  /\ x.verdict = "accepted" => x.output = y.output
         /\ x.verdict = "rejected" => x.errors = y.errors
<1>1. \A v : IsFiniteSet(Having(R, v))
  <2> SUFFICES ASSUME NEW v PROVE IsFiniteSet(Having(R, v))
    OBVIOUS
  <2>1. Having(R, v) \subseteq R
    BY DEF Having
  <2> QED
    BY <2>1, FS_Subset
<1>2. x.verdict = "accepted" => x["output"] = y["output"]
  <2> SUFFICES ASSUME x.verdict = "accepted" PROVE x["output"] = y["output"]
    OBVIOUS
  <2>1. x \in Having(R, "accepted") /\ y \in Having(R, "accepted")
    BY DEF Having
  <2> QED
    BY <1>1, <2>1, OneValue
<1>3. x.verdict = "rejected" => x["errors"] = y["errors"]
  <2> SUFFICES ASSUME x.verdict = "rejected" PROVE x["errors"] = y["errors"]
    OBVIOUS
  <2>1. x \in Having(R, "rejected") /\ y \in Having(R, "rejected")
    BY DEF Having
  <2> QED
    BY <1>1, <2>1, OneValue
<1> QED
  BY <1>2, <1>3

-----------------------------------------------------------------------------
(* What a report says was executed, what a verification looked at, and what   *)
(* was decided about the evidence as it is.                                   *)
EvidenceTrue ==
  evidence # Nothing =>
    /\ executedOn = [lanes |-> evidence.runId, corpus |-> evidence.corpus]
    /\ \E c \in Corpora : \E run \in RunsOf[jobs][c] :
         evidence.schema = run.schema /\ evidence.adapters = run.adapters
CheckTrue ==
  checked # Nothing /\ checked.passed =>
    /\ checked.runId = checkedAt
    /\ checked.irId = [role |-> TRUE, runId |-> checkedAt, declarations |-> Declared[checkedAt]]
ConformanceInvariant ==
  /\ corpus \in Corpora /\ required \in Requirements /\ jobs \in DOMAIN RunsOf
  /\ EvidenceTrue /\ CheckTrue
  /\ decision # Nothing => evidence # Nothing /\ decision = Compare(evidence)

LEMMA ConformanceHolds == RuntimeSpec => []ConformanceInvariant
<1>1. ConformanceInit => ConformanceInvariant
  BY DEF ConformanceInit, ConformanceInvariant, EvidenceTrue, CheckTrue
<1>2. ASSUME ConformanceInvariant, [ConformanceNext]_conformance
      PROVE  ConformanceInvariant'
  <2>1. CASE UNCHANGED conformance
    <3>1. ASSUME evidence # Nothing PROVE Compare(evidence)' = Compare(evidence)
      BY <2>1 DEF conformance, Compare, RequirementFindings, Demanded, EnvelopeFindings
    <3> QED
      BY <1>2, <2>1, <3>1 DEF conformance, ConformanceInvariant, EvidenceTrue, CheckTrue
  <2>2. CASE decision = Nothing /\ decision' = Nothing
             /\ UNCHANGED <<evidence, executedOn, checked, checkedAt, required, jobs>>
             /\ corpus' \in Corpora
    BY <1>2, <2>2 DEF ConformanceInvariant, EvidenceTrue, CheckTrue
  <2>3. CASE ExecuteCorpus
    <3>1. PICK run \in RunsOf[jobs][corpus] :
            evidence' = [schema |-> run.schema, adapters |-> run.adapters, corpus |-> corpus,
                         contractIrId |-> binding.contractIrId, runId |-> binding.runId]
      BY <2>3 DEF ExecuteCorpus
    <3>2. executedOn' = [lanes |-> binding.runId, corpus |-> corpus]
          /\ UNCHANGED <<corpus, required, jobs, checked, checkedAt, decision>> /\ decision = Nothing
      BY <2>3 DEF ExecuteCorpus
    <3>3. corpus \in Corpora
      BY <1>2 DEF ConformanceInvariant
    <3>4. /\ evidence'.schema = run.schema /\ evidence'.adapters = run.adapters
          /\ evidence'.corpus = corpus /\ evidence'.runId = binding.runId
      BY <3>1
    <3>5. EvidenceTrue'
      BY <3>2, <3>3, <3>4 DEF EvidenceTrue
    <3> QED
      BY <1>2, <3>2, <3>5 DEF ConformanceInvariant, CheckTrue
  <2>4. CASE VerifyIr
    <3>1. /\ checked' = CurrentCheck /\ checkedAt' = lanes /\ decision = Nothing
          /\ UNCHANGED <<corpus, required, jobs, evidence, executedOn, decision>>
      BY <2>4 DEF VerifyIr
    <3>2. ASSUME CurrentCheck.passed
          PROVE  /\ CurrentCheck.runId = lanes
                 /\ CurrentCheck.irId = [role |-> TRUE, runId |-> lanes, declarations |-> Declared[lanes]]
      <4>1. ir = Genuinely(lanes) /\ parity = lanes
        BY <3>2 DEF CurrentCheck
      <4> QED
        BY <4>1 DEF CurrentCheck, Genuinely, Identified
    <3>3. CheckTrue'
      BY <3>1, <3>2 DEF CheckTrue
    <3> QED
      BY <1>2, <3>1, <3>3 DEF ConformanceInvariant, EvidenceTrue
  <2>5. CASE CompareEvidence
    <3>1. /\ evidence # Nothing /\ decision' = Compare(evidence)
          /\ UNCHANGED <<corpus, required, jobs, parity, ir, evidence, checked, executedOn, checkedAt>>
      BY <2>5 DEF CompareEvidence
    <3>2. Compare(evidence)' = Compare(evidence)
      BY <3>1 DEF Compare, RequirementFindings, Demanded, EnvelopeFindings
    <3> QED
      BY <1>2, <3>1, <3>2 DEF ConformanceInvariant, EvidenceTrue, CheckTrue
  <2>6. CASE CheckSources \/ CreateBinding \/ Move
    <3>1. corpus \in Corpora
      BY <1>2 DEF ConformanceInvariant
    <3>2. decision = Nothing /\ decision' = Nothing
          /\ UNCHANGED <<evidence, executedOn, checked, checkedAt, required, jobs>>
          /\ corpus' \in Corpora
      BY <2>6, <3>1 DEF CheckSources, CreateBinding, Move
    <3> QED
      BY <2>2, <3>2
  <2> QED
    BY <1>2, <2>1, <2>3, <2>4, <2>5, <2>6 DEF ConformanceNext
<1> QED
  BY <1>1, <1>2, PTL DEF RuntimeSpec

(* The rules of one comparison that found none of them broken.                *)
LEMMA NoRuleBroken ==
  ASSUME NEW e, Compare(e) = {}
  PROVE  LET needsInput == "v2" \in {required.schema, e.schema}
             cases == Cases(corpus, needsInput)
             adapters == NormalAdapters(e)
         IN  /\ EvidenceFindings(e) = {} /\ CorpusFindings(corpus, needsInput) = {}
             /\ IrFindings(ir, checked, parity) = {}
             /\ \A c \in cases : c.declaration \in Members(ir.declarations)
             /\ EnvelopeFindings(e) = {} /\ RequirementFindings(adapters) = {}
             /\ \A a \in adapters : OneAdapterFindings(a, cases, Semantic(e.schema)) = {}
             /\ \A c \in cases : DivergenceFindings(adapters, c, Semantic(e.schema)) = {}
<1> DEFINE needsInput == "v2" \in {required.schema, e.schema}
           cases == Cases(corpus, needsInput)
           adapters == NormalAdapters(e)
           irRules == IrFindings(ir, checked, parity)
           Ones(a) == OneAdapterFindings(a, cases, Semantic(e.schema))
           Between(c) == DivergenceFindings(adapters, c, Semantic(e.schema))
           strange == irRules = {} /\ \E c \in cases : c.declaration \notin Members(ir.declarations)
<1>1. Compare(e) = EvidenceFindings(e) \cup CorpusFindings(corpus, needsInput) \cup irRules
         \cup Breaks("runtime-corpus-declaration-not-admitted", strange)
         \cup EnvelopeFindings(e) \cup RequirementFindings(adapters)
         \cup (UNION {Ones(a) : a \in adapters}) \cup (UNION {Between(c) : c \in cases})
  BY Zenon DEF Compare
<1> HIDE DEF Ones, Between, cases, adapters, irRules, needsInput, strange
<1>2. /\ EvidenceFindings(e) = {} /\ CorpusFindings(corpus, needsInput) = {} /\ irRules = {}
      /\ EnvelopeFindings(e) = {} /\ RequirementFindings(adapters) = {}
      /\ UNION {Ones(a) : a \in adapters} = {} /\ UNION {Between(c) : c \in cases} = {}
      /\ Breaks("runtime-corpus-declaration-not-admitted", strange) = {}
  BY <1>1
<1>3. ~strange
  BY <1>2, Zenon DEF Breaks
<1>4. (\A a \in adapters : Ones(a) = {}) /\ (\A c \in cases : Between(c) = {})
  BY <1>2
<1>5. \A c \in cases : c.declaration \in Members(ir.declarations)
  BY <1>2, <1>3 DEF strange
<1> QED
  BY <1>2, <1>4, <1>5 DEF Ones, Between, cases, adapters, irRules, needsInput

(* Evidence and corpus are whole: every adapter and every case is looked at.  *)
LEMMA EvidenceIsWhole ==
  ASSUME ConformanceInvariant, evidence # Nothing, EvidenceFindings(evidence) = {}
  PROVE  /\ Malformed \notin Members(evidence.adapters) /\ IsList(evidence.adapters)
         /\ \A i, j \in DOMAIN evidence.adapters :
              KeyIn(evidence.adapters[i], "id") = KeyIn(evidence.adapters[j], "id") => i = j
         /\ NormalAdapters(evidence) =
              {NormalAdapter(a, evidence.schema) : a \in Members(evidence.adapters)}
         /\ \A a \in Members(evidence.adapters) :
              IsReport(a) /\ AdapterFindings(a, evidence.schema) = {}
<1>1. PICK c \in Corpora : \E run \in RunsOf[jobs][c] : evidence.adapters = run.adapters
  BY DEF ConformanceInvariant, EvidenceTrue
<1>2. PICK run \in RunsOf[jobs][c] : evidence.adapters = run.adapters
  BY <1>1
<1>3. jobs \in DOMAIN RunsOf
  BY DEF ConformanceInvariant
<1>4. evidence.adapters # Malformed
  BY Zenon DEF EvidenceFindings
<1>5. /\ IsList(run.adapters)
      /\ \A a \in Members(run.adapters) \ {Malformed} : IsReport(a)
  BY <1>1, <1>2, <1>3, <1>4, ReportsAssumption DEF IsReport
<1>6. /\ ListFindings(evidence.adapters, MaxAdapters, "id", "runtime-adapter") = {}
      /\ \A k \in Looked(evidence.adapters, MaxAdapters) :
           AdapterFindings(evidence.adapters[k], evidence.schema) = {}
  BY <1>4, Zenon DEF EvidenceFindings
<1>7. IsList(evidence.adapters)
  BY <1>2, <1>5
<1>8. /\ Malformed \notin Members(evidence.adapters)
      /\ Looked(evidence.adapters, MaxAdapters) = DOMAIN evidence.adapters
      /\ \A i, j \in DOMAIN evidence.adapters :
           KeyIn(evidence.adapters[i], "id") = KeyIn(evidence.adapters[j], "id") => i = j
      /\ Firsts(evidence.adapters, MaxAdapters, "id") = Members(evidence.adapters)
  BY <1>6, <1>7, NothingDropped, BoundsOfEvidence
<1>9. NormalAdapters(evidence) =
        {NormalAdapter(a, evidence.schema) : a \in Members(evidence.adapters)}
  BY <1>4, <1>8 DEF NormalAdapters
<1>10. \A a \in Members(evidence.adapters) : AdapterFindings(a, evidence.schema) = {}
  BY <1>6, <1>8, Zenon DEF Members
<1> QED
  BY <1>2, <1>5, <1>7, <1>8, <1>9, <1>10

LEMMA CorpusIsWhole ==
  ASSUME ConformanceInvariant, NEW needsInput, CorpusFindings(corpus, needsInput) = {}
  PROVE  /\ Malformed \notin Members(corpus) /\ IsList(corpus)
         /\ \A i, j \in DOMAIN corpus : corpus[i].id = corpus[j].id => i = j
         /\ Cases(corpus, needsInput) = Members(corpus)
         /\ \A c \in Members(corpus) : c.expectation \in {"accepted", "rejected"}
<1>1. IsList(corpus) /\ Len(corpus) \in Nat
  BY TrustedAssumption DEF ConformanceInvariant, IsList
<1>2. /\ ListFindings(corpus, Len(corpus), "id", "runtime-corpus-case") = {}
      /\ ~ \E c \in Firsts(corpus, Len(corpus), "id") : ~UsableCase(c, needsInput)
  BY Zenon DEF CorpusFindings, Breaks
<1>3. /\ Malformed \notin Members(corpus)
      /\ \A i, j \in DOMAIN corpus : KeyIn(corpus[i], "id") = KeyIn(corpus[j], "id") => i = j
      /\ Firsts(corpus, Len(corpus), "id") = Members(corpus)
  BY <1>1, <1>2, NothingDropped
<1>4. \A c \in Members(corpus) : UsableCase(c, needsInput)
  BY <1>2, <1>3
<1>5. Cases(corpus, needsInput) = Members(corpus)
  BY <1>3, <1>4 DEF Cases
<1>6. \A z : KeyIn(z, "id") = z.id
  BY DEF KeyIn
<1> QED
  BY <1>1, <1>3, <1>4, <1>5, <1>6 DEF UsableCase

(* Evidence that compareRuntimeEvidence passes is earned, for every corpus,   *)
(* every requirement and whatever adapters report, however often sources,     *)
(* corpus and Contract IR change between execution, verification and decision. *)
THEOREM RuntimePassEarned == RuntimeSpec => []RuntimePassIsEarned
<1>1. ASSUME ConformanceInvariant, decision = {}
      PROVE  RuntimePassIsEarned
  <2> DEFINE e == evidence
             schema == evidence.schema
             As == Members(evidence.adapters)
             Cs == Members(corpus)
             needsInput == "v2" \in {required.schema, evidence.schema}
  <2>1. evidence # Nothing /\ Compare(evidence) = {}
    BY <1>1, BoundsOfEvidence DEF ConformanceInvariant
  <2>2. /\ EvidenceFindings(evidence) = {} /\ CorpusFindings(corpus, needsInput) = {}
        /\ IrFindings(ir, checked, parity) = {} /\ EnvelopeFindings(evidence) = {}
        /\ RequirementFindings(NormalAdapters(evidence)) = {}
    BY <2>1, NoRuleBroken
  <2>3. Cases(corpus, needsInput) = Cs
    BY <1>1, <2>2, CorpusIsWhole
  <2>4. NormalAdapters(evidence) = {NormalAdapter(a, schema) : a \in As}
    BY <1>1, <2>1, <2>2, EvidenceIsWhole
  <2>5. /\ \A c \in Cs : c.declaration \in Members(ir.declarations)
        /\ \A a \in NormalAdapters(evidence) : OneAdapterFindings(a, Cs, Semantic(schema)) = {}
        /\ \A c \in Cs : DivergenceFindings(NormalAdapters(evidence), c, Semantic(schema)) = {}
    <3> HIDE DEF Cs, As, schema
    <3> QED
      BY <2>1, <2>3, NoRuleBroken DEF schema
  <2>6. /\ checked # Nothing /\ checked.passed /\ checked.irId = ir.irId /\ checked.runId = ir.runId
        /\ ir.irId = BodyOf(ir) /\ ir.runId = parity
    BY <2>2, Zenon DEF IrFindings, Breaks
  <2>7. evidence.runId = parity /\ evidence.corpus = corpus
    BY <2>2, Zenon DEF EnvelopeFindings, Breaks
  <2>8. executedOn = [lanes |-> checkedAt, corpus |-> corpus]
    BY <1>1, <2>1, <2>6, <2>7 DEF ConformanceInvariant, EvidenceTrue, CheckTrue
  <2>9. ir.declarations = Declared[checkedAt]
    BY <1>1, <2>6 DEF ConformanceInvariant, CheckTrue, BodyOf
  <2>10. /\ Malformed \notin As /\ IsList(evidence.adapters)
         /\ \A a \in As : IsReport(a) /\ AdapterFindings(a, schema) = {}
    BY <1>1, <2>1, <2>2, EvidenceIsWhole
  <2>11. /\ Malformed \notin Cs /\ IsList(corpus)
         /\ \A i, j \in DOMAIN corpus : corpus[i].id = corpus[j].id => i = j
         /\ \A c \in Cs : c.expectation \in {"accepted", "rejected"}
    BY <1>1, <2>2, CorpusIsWhole
  <2>12. ASSUME NEW a \in As
         PROVE  /\ a.status = "passed" /\ Len(a.results) = Len(corpus)
                /\ \A c \in Cs :
                     /\ Once(a.results, "caseId", c.id)
                     /\ \E x \in Members(a.results) : x.caseId = c.id
                     /\ \A x \in Members(a.results) : x.caseId = c.id =>
                          /\ x.declaration = c.declaration /\ x.verdict = c.expectation
                          /\ Semantic(schema) => x.input = c.input
                /\ \A x \in Members(a.results) : \E c \in Cs : c.id = x.caseId
    <3>1. OneAdapterFindings(NormalAdapter(a, schema), Cs, Semantic(schema)) = {}
      BY <2>4, <2>5
    <3>2. IsReport(a) /\ AdapterFindings(a, schema) = {}
      BY <2>10
    <3> HIDE DEF schema
    <3> QED
      BY <2>11, <3>1, <3>2, AdapterAgrees
  <2>13. ASSUME NEW d \in Members(required.adapters)
         PROVE  Once(evidence.adapters, "id", d.id)
    <3>1. IsList(required.adapters) /\ Len(required.adapters) \in Nat
      BY <1>1, TrustedAssumption DEF ConformanceInvariant, IsList
    <3>2. /\ ListFindings(required.adapters, Len(required.adapters), "id", "runtime-required-adapter") = {}
          /\ ~ \E k \in Demanded : \A a \in NormalAdapters(evidence) : a.id # k.id
      BY <2>2, Zenon DEF RequirementFindings, Breaks
    <3>3. Demanded = Members(required.adapters)
      BY <3>1, <3>2, NothingDropped DEF Demanded
    <3>4. PICK a \in As : NormalAdapter(a, schema).id = d.id
      BY <2>4, <3>2, <3>3
    <3>5. a.id = d.id
      BY <3>4 DEF NormalAdapter
    <3>6. Once(evidence.adapters, "id", KeyIn(a, "id"))
      BY <1>1, <2>1, <2>2, EvidenceIsWhole, OnlyOnce
    <3> QED
      BY <3>5, <3>6 DEF KeyIn
  <2>14. ASSUME Semantic(schema), NEW a \in As, NEW b \in As,
                NEW x \in Members(a.results), NEW y \in Members(b.results), x.caseId = y.caseId
         PROVE  x.output = y.output /\ Members(x.errors) = Members(y.errors)
    <3> DEFINE Ns == {NormalAdapter(n, schema) : n \in As}
    <3>1. PICK c \in Cs : c.id = x.caseId
      BY <2>12
    <3>2. x.verdict = c.expectation /\ y.verdict = c.expectation
      BY <2>12, <2>14, <3>1
    <3>3. c.expectation \in {"accepted", "rejected"}
      BY <2>11
    <3>4. /\ ~Diverges(Having(Executed(Ns, c), "accepted"), "output")
          /\ ~Diverges(Having(Executed(Ns, c), "rejected"), "errors")
      <4>1. DivergenceFindings(Ns, c, Semantic(schema)) = {}
        BY <2>4, <2>5
      <4> HIDE DEF Ns, schema
      <4> QED
        BY <2>14, <4>1, Zenon DEF DivergenceFindings, Breaks
    <3>5. IsFiniteSet(Executed(Ns, c))
      <4> HIDE DEF schema
      <4> QED
        BY <2>10, ExecutedAreFinite
    <3>6. ASSUME NEW n \in As, NEW z \in Members(n.results), z.caseId = c.id, z.verdict = c.expectation
          PROVE  /\ NormalResult(z) \in Executed(Ns, c) /\ NormalResult(z).verdict = z.verdict
                 /\ z.verdict = "accepted" => NormalResult(z).output = z.output
                 /\ z.verdict # "accepted" => z.output = Nothing
                 /\ NormalResult(z).errors = Members(z.errors)
                 /\ z.verdict # "rejected" => Members(z.errors) = {}
      <4> HIDE DEF schema
      <4>1. /\ NormalAdapter(n, schema).results = {NormalResult(r) : r \in Members(n.results)}
            /\ Get(z, "errors") \notin {Nothing, Malformed} => IsList(z.errors)
            /\ ResultFindings(z, schema) = {}
        BY <2>10, <3>6, AdapterIsWhole
      <4>2. /\ Get(z, "output") = z.output /\ ErrorsOf(z) = Members(z.errors)
            /\ z.verdict # "accepted" => z.output = Nothing
            /\ z.verdict # "rejected" => ErrorsOf(z) = {}
        BY <2>14, <4>1, ResultIsWhole
      <4>3. /\ NormalResult(z).caseId = z.caseId /\ NormalResult(z).verdict = z.verdict
            /\ NormalResult(z).errors = ErrorsOf(z)
            /\ z.verdict = "accepted" => NormalResult(z).output = Get(z, "output")
        BY DEF NormalResult
      <4>4. NormalResult(z) \in ResultOf(NormalAdapter(n, schema), c)
        BY <3>6, <4>1, <4>3 DEF ResultOf
      <4>5. NormalResult(z) \in Executed(Ns, c)
        BY <3>3, <3>6, <4>3, <4>4 DEF Executed
      <4> QED
        BY <4>2, <4>3, <4>5
    <3>7. NormalResult(x) \in Executed(Ns, c) /\ NormalResult(y) \in Executed(Ns, c)
      BY <2>14, <3>1, <3>2, <3>6
    <3>8. NormalResult(x).verdict = c.expectation /\ NormalResult(y).verdict = c.expectation
      BY <2>14, <3>1, <3>2, <3>6
    <3>9. /\ c.expectation = "accepted" => NormalResult(x).output = NormalResult(y).output
          /\ c.expectation = "rejected" => NormalResult(x).errors = NormalResult(y).errors
      <4> DEFINE u == NormalResult(x)
                 v == NormalResult(y)
      <4>1. u \in Executed(Ns, c) /\ v \in Executed(Ns, c) /\ u.verdict = v.verdict
        BY <3>7, <3>8
      <4> HIDE DEF Ns, u, v
      <4>2. /\ u.verdict = "accepted" => u.output = v.output
            /\ u.verdict = "rejected" => u.errors = v.errors
        BY <3>4, <3>5, <4>1, ResultsAgree
      <4> QED
        BY <3>8, <4>2 DEF u, v
    <3>10. CASE c.expectation = "accepted"
      BY <2>14, <3>1, <3>2, <3>6, <3>9, <3>10
    <3>11. CASE c.expectation = "rejected"
      BY <2>14, <3>1, <3>2, <3>6, <3>9, <3>11
    <3> QED
      BY <3>3, <3>10, <3>11
  <2>15. ASSUME NEW a \in As, NEW c \in Cs
         PROVE  /\ c.declaration \in Members(Declared[checkedAt])
                /\ Once(a.results, "caseId", c.id)
                /\ \E x \in Members(a.results) :
                     /\ x.caseId = c.id /\ x.declaration = c.declaration /\ x.verdict = c.expectation
                     /\ Semantic(schema) => x.input = c.input
    <3> HIDE DEF schema
    <3> QED
      BY <2>5, <2>9, <2>12
  <2> HIDE DEF As, Cs, schema
  <2>16. Malformed \notin Cs \cup As
    BY <2>10, <2>11
  <2> QED
    BY <2>8, <2>12, <2>13, <2>14, <2>15, <2>16 DEF RuntimePassIsEarned, As, Cs, schema
<1>2. ConformanceInvariant => RuntimePassIsEarned
  BY <1>1 DEF RuntimePassIsEarned
<1> QED
  BY <1>2, ConformanceHolds, PTL

=============================================================================
