-------------------------------- MODULE MCGates --------------------------------
(***************************************************************************)
(* One invocation of the tool: the arguments choose one gate, which then    *)
(* runs over the small instances of its own MC module.  The variables of    *)
(* the others are idle.                                                     *)
(***************************************************************************)
EXTENDS MCProjectionAdmission, MCProofLanes, MCReleaseHistory, MCRuntimeConformance,
        MCLegalRollout, ConfigInstance

VARIABLE command

\* The authored schema and the instance are two of the paths: one content is a
\* schema and two are instances, which it accepts and rejects.
MCJudge == [pair \in Contents \X Contents |->
  IF pair[1] # Old THEN "refused"
  ELSE IF pair[2] = New THEN "valid" ELSE IF pair[2] = Old THEN "invalid" ELSE "unparsable"]

NoFiles == MCTreeInit /\ edits = 0
NoRead == ReadInit
NoAdmission ==
  /\ manifest = Nothing /\ policy = Nothing /\ source = MCIr.sources
  /\ stage = "idle" /\ verification = FALSE /\ queue = <<>> /\ observed = Nothing
  /\ report = None /\ receipt = None /\ seen = [p \in Paths |-> {}] /\ sourcesSince = {}
NoLanes ==
  /\ head = Nothing /\ typespec = Nothing /\ formalManifest = Nothing /\ proofManifest = Nothing
  /\ lane = "idle" /\ op = 0 /\ proof = 0 /\ text = None /\ findings = {} /\ proofRuns = {}
  /\ l3 = None /\ presented = None /\ l4 = None /\ probedAt = 0
NoHistory ==
  /\ gate = "idle" /\ mode = Nothing /\ limit = 0 /\ first = {} /\ baseline = {}
  /\ compared = Nothing
NoConformance ==
  /\ lanes = Nothing /\ corpus = <<>> /\ required = Nothing /\ jobs = Nothing
  /\ parity = Nothing /\ ir = Nothing /\ binding = Nothing /\ evidence = Nothing
  /\ checked = Nothing /\ decision = Nothing /\ executedOn = Nothing /\ checkedAt = Nothing
  /\ moves = 0
NoRollout ==
  /\ rollout = Nothing /\ admission = Nothing /\ releasing = FALSE /\ rolloutAt = "idle"
  /\ pending = {} /\ listed = {} /\ broken = {} /\ pinned = {} /\ rolloutReceipt = None
  /\ steady = {} /\ had = Nothing
NoConfig == configAt = "idle" /\ configMode = Nothing /\ configReceipt = None

GatesInit ==
  \/ /\ command = "projection"
     /\ MCInit /\ NoLanes /\ NoHistory /\ NoConformance /\ NoRollout /\ NoConfig
  \/ /\ command = "lanes"
     /\ LaneTreeInit /\ LaneInit /\ (LanesMove \/ LanesStay)
     /\ NoRead /\ NoAdmission /\ NoHistory /\ NoConformance /\ NoRollout /\ NoConfig
  \/ /\ command = "releases"
     /\ HistoryInit
     /\ NoFiles /\ NoRead /\ NoAdmission /\ NoLanes /\ NoConformance /\ NoRollout /\ NoConfig
  \/ /\ command = "conformance"
     /\ ConformanceInit /\ (ConformanceMoves \/ ConformanceStays)
     /\ NoFiles /\ NoRead /\ NoAdmission /\ NoLanes /\ NoHistory /\ NoRollout /\ NoConfig
  \/ /\ command = "legal"
     /\ RolloutTreeInit /\ RolloutInit /\ (RolloutMoves \/ RolloutStays)
     /\ NoRead /\ NoAdmission /\ NoLanes /\ NoHistory /\ NoConformance /\ NoConfig
  \/ /\ command = "config"
     /\ ConfigInit
     /\ MCTreeInit /\ edits = MaxEdits - 1
     /\ NoRead /\ NoAdmission /\ NoLanes /\ NoHistory /\ NoConformance /\ NoRollout

admissionOnly == <<request, source, progress, witness>>
lanesOnly == <<head, laneInputs, lane, work, receipts>>
rolloutOnly == <<rolloutInputs, rolloutWork, rolloutWitness>>

ProjectionRuns ==
  /\ command = "projection" /\ AdmissionNext /\ UNCHANGED command
  /\ UNCHANGED <<lanesOnly, releases, conformance, rolloutOnly, config>>
LanesRun ==
  /\ command = "lanes" /\ LaneNext /\ UNCHANGED command
  /\ UNCHANGED <<reading, admissionOnly, releases, conformance, rolloutOnly, config>>
ReleasesRun ==
  /\ command = "releases" /\ HistoryNext /\ UNCHANGED command
  /\ UNCHANGED <<tree, reading, admissionOnly, lanesOnly, conformance, rolloutOnly, config>>
ConformanceRuns ==
  /\ command = "conformance" /\ ConformanceNext /\ UNCHANGED command
  /\ UNCHANGED <<tree, reading, admissionOnly, lanesOnly, releases, rolloutOnly, config>>
LegalRuns ==
  /\ command = "legal" /\ RolloutNext /\ UNCHANGED command
  /\ UNCHANGED <<reading, admissionOnly, lanesOnly, releases, conformance, config>>
ConfigRuns ==
  /\ command = "config" /\ ConfigNext /\ UNCHANGED command
  /\ UNCHANGED <<admissionOnly, lanesOnly, releases, conformance, rolloutOnly>>

GatesNext ==
  ProjectionRuns \/ LanesRun \/ ReleasesRun \/ ConformanceRuns \/ LegalRuns \/ ConfigRuns
gates == <<command, vars, lanesOnly, releases, conformance, rolloutOnly, config>>
GatesSpec == GatesInit /\ [][GatesNext]_gates

\* With genuine manifests, a lane or a rollout that has a finding is not followed
\* further: no step takes a finding back.  With any other manifest it is.
StillGreen ==
  /\ command = "lanes" /\ formalManifest = Formal /\ proofManifest = Proofs /\ typespec = Bound
       => findings = {}
  /\ command = "legal" /\ rollout \in {Drafts, Approved} /\ admission = Admitted
       => broken = {}
===============================================================================
