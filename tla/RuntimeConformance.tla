-------------------------- MODULE RuntimeConformance --------------------------
(***************************************************************************)
(* The admission of evidence that runtime adapters report: the Contract IR  *)
(* is verified against the current sources, adapters are given the ids to   *)
(* copy, they execute the trusted corpus, and compareRuntimeEvidence        *)
(* decides.  Sources and corpus move, artifacts are replaced, and evidence  *)
(* and verifications are kept, while that goes on.                          *)
(*                                                                          *)
(* The sources are one revision, a digest is the value it is a digest of,   *)
(* and the parity report is the revision it was run on.                     *)
(***************************************************************************)
EXTENDS Rules, FiniteSets

CONSTANTS
  Lanes,        \* revisions of the sources
  Declared,     \* Declared[r]: declarations admitted at r, a sequence
  Corpora,      \* sequences of [id, declaration, expectation, input]
  RunsOf,       \* RunsOf[j][c]: what jobs j may report of corpus c: [schema, adapters]
  Requirements, \* [adapters, schema]: required adapters, required schema or Nothing
  MaxAdapters, MaxResults, MaxErrors,
  MaxMoves      \* bound on changes by others

IsList(list) == list \in Seq(Members(list))
Get(record, field) == IF field \in DOMAIN record THEN record[field] ELSE Nothing

ASSUME BoundsOfEvidence ==
  MaxAdapters \in Nat /\ MaxResults \in Nat /\ MaxErrors \in Nat /\ Nothing # {}
ASSUME TrustedAssumption ==
  /\ \A c \in Corpora : IsList(c)
  /\ \A r \in Requirements : IsList(r.adapters)
\* A report is JSON: what is not refused as no array is a list.
ASSUME ReportsAssumption ==
  \A j \in DOMAIN RunsOf : \A c \in Corpora : \A run \in RunsOf[j][c] : run.adapters # Malformed =>
    /\ IsList(run.adapters)
    /\ \A a \in Members(run.adapters) \ {Malformed} : a.results # Malformed =>
         /\ IsList(a.results)
         /\ \A x \in Members(a.results) \ {Malformed} :
              Get(x, "errors") \notin {Nothing, Malformed} => IsList(x.errors)

VARIABLES
  lanes,        \* current revision of the sources
  corpus,       \* the trusted corpus
  required,     \* what the caller requires
  jobs,         \* the adapter jobs, a member of DOMAIN RunsOf
  parity, ir,   \* the retained parity report and Contract IR, Nothing before
  binding,      \* ids handed to the adapters, Nothing before
  evidence,     \* what they reported, Nothing before
  checked,      \* the verification result that the caller holds, Nothing before
  decision,     \* Nothing, or the rules broken
  executedOn,   \* the revision and the corpus that the adapters worked on
  checkedAt,    \* the revision that the held verification looked at
  moves

conformance == <<lanes, corpus, required, jobs, parity, ir, binding, evidence, checked, decision,
                 executedOn, checkedAt, moves>>

ConformanceInit ==
  /\ lanes \in Lanes /\ corpus \in Corpora /\ required \in Requirements
  /\ jobs \in DOMAIN RunsOf
  /\ parity = Nothing /\ ir = Nothing /\ binding = Nothing /\ evidence = Nothing
  /\ checked = Nothing /\ decision = Nothing
  /\ executedOn = Nothing /\ checkedAt = Nothing /\ moves \in 0..MaxMoves

-----------------------------------------------------------------------------
(* validateContractIrBinding.  role: schema, status, authorities, receipt    *)
(* status and provenance of the IR are those of an admitted one.             *)

BodyOf(i) == [role |-> i.role, runId |-> i.runId, declarations |-> i.declarations]
Identified(body, id) ==
  [role |-> body.role, runId |-> body.runId, declarations |-> body.declarations, irId |-> id]
Genuinely(r) ==
  LET body == [role |-> TRUE, runId |-> r, declarations |-> Declared[r]] IN
  Identified(body, body)

(* verifyContractIr recomputes the IR from the current sources and report.   *)
CurrentCheck ==
  [passed |-> ir = Genuinely(lanes) /\ parity = lanes, irId |-> ir.irId, runId |-> parity]

IrFindings(i, check, expectedRun) ==
  Breaks("runtime-contract-ir-not-admissible", ~i.role)
  \cup Breaks("runtime-contract-ir-self-digest-mismatch", i.irId # BodyOf(i))
  \cup Breaks("runtime-contract-ir-input-digest-mismatch", i.runId # expectedRun)
  \cup Breaks("runtime-contract-ir-declaration-duplicate", ~Distinct(i.declarations))
  \cup (IF check = Nothing THEN {"runtime-contract-ir-verification-missing"}
        ELSE Breaks("runtime-contract-ir-verification-failed",
               ~(check.passed /\ check.irId = i.irId /\ check.runId = i.runId)))

-----------------------------------------------------------------------------
(* validateRuntimeEvidence and the normalization of what the caller trusts.  *)

Semantic(schema) == schema = "v2"
ResultFields(schema) ==
  {"caseId", "declaration", "verdict"}
  \cup (IF Semantic(schema) THEN {"input", "output", "errors"} ELSE {})
ErrorsOf(result) == IF Get(result, "errors") \in {Nothing, Malformed} THEN {}
                    ELSE Firsts(result.errors, MaxErrors, "itself")
NormalResult(x) ==
  [caseId |-> x.caseId, declaration |-> x.declaration, verdict |-> x.verdict,
   input |-> Get(x, "input"), errors |-> ErrorsOf(x),
   output |-> IF x.verdict = "accepted" THEN Get(x, "output") ELSE Nothing]

(* An accepted case has an output and no errors, a rejected one has errors   *)
(* and no output, any other has neither.                                     *)
SemanticFindings(x) ==
  Breaks("runtime-result-digest-invalid",
         Nothing \in {Get(x, "input")} \cup (IF x.verdict = "accepted" THEN {Get(x, "output")} ELSE {}))
  \cup (IF Get(x, "errors") \in {Nothing, Malformed} THEN {"runtime-result-errors-invalid"}
        ELSE ListFindings(x.errors, MaxErrors, "itself", "runtime-result-error"))
  \cup Breaks("runtime-result-nonaccepted-output-digest-not-null",
         x.verdict # "accepted" /\ Get(x, "output") # Nothing)
  \cup Breaks("runtime-result-errors-mismatch", (x.verdict = "rejected") # (ErrorsOf(x) # {}))
ResultFindings(x, schema) ==
  Breaks("runtime-result-fields-invalid", DOMAIN x # ResultFields(schema))
  \cup (IF Semantic(schema) THEN SemanticFindings(x) ELSE {})

NormalAdapter(a, schema) ==
  [id |-> a.id, language |-> a.language, validator |-> a.validator, status |-> a.status,
   results |-> IF a.results = Malformed THEN {}
               ELSE {NormalResult(x) : x \in Firsts(a.results, MaxResults, "caseId")}]
AdapterFindings(a, schema) ==
  Breaks("runtime-adapter-metadata-invalid", Nothing \in {a.language, a.validator})
  \cup (IF a.results = Malformed THEN {"runtime-adapter-results-invalid"}
        ELSE ListFindings(a.results, MaxResults, "caseId", "runtime-result")
             \cup UNION {ResultFindings(a.results[k], schema) : k \in Looked(a.results, MaxResults)})

NormalAdapters(e) ==
  IF e.adapters = Malformed THEN {}
  ELSE {NormalAdapter(a, e.schema) : a \in Firsts(e.adapters, MaxAdapters, "id")}
EvidenceFindings(e) ==
  Breaks("runtime-evidence-schema-mismatch", e.schema \notin {"v1", "v2"})
  \cup (IF e.adapters = Malformed THEN {"runtime-evidence-adapters-invalid"}
        ELSE Breaks("runtime-evidence-adapters-empty", e.adapters = <<>>)
             \cup ListFindings(e.adapters, MaxAdapters, "id", "runtime-adapter")
             \cup UNION {AdapterFindings(e.adapters[k], e.schema)
                         : k \in Looked(e.adapters, MaxAdapters)})

(* normalizeExpectedCases: a case claims its id before the rest of it is     *)
(* looked at.  There is no limit.                                            *)
UsableCase(c, needsInput) == c.expectation \in {"accepted", "rejected"} /\ (needsInput => c.input # Nothing)
Cases(cases, needsInput) == {c \in Firsts(cases, Len(cases), "id") : UsableCase(c, needsInput)}
CorpusFindings(cases, needsInput) ==
  Breaks("runtime-corpus-empty", cases = <<>>)
  \cup ListFindings(cases, Len(cases), "id", "runtime-corpus-case")
  \cup Breaks("runtime-corpus-case-unusable",
         \E c \in Firsts(cases, Len(cases), "id") : ~UsableCase(c, needsInput))

-----------------------------------------------------------------------------
(* compareAdapter and compareAdapters, on normalized adapters.               *)

ResultOf(a, c) == {x \in a.results : x.caseId = c.id}
\* Mutant: that the adapters agree on the input is enough.
CaseRulesByAgreement(c, x, semantic) ==
  Breaks("runtime-case-declaration-mismatch", x.declaration # c.declaration)
  \cup (CASE x.verdict = "error" -> {"runtime-case-error"}
          [] x.verdict \in {"skipped", "unsupported"} -> {"runtime-case-not-executed"}
          [] OTHER -> Breaks("runtime-case-verdict-mismatch", x.verdict # c.expectation))

CaseRules(c, x, semantic) ==
  Breaks("runtime-case-declaration-mismatch", x.declaration # c.declaration)
  \cup Breaks("runtime-case-input-digest-mismatch", semantic /\ x.input # c.input)
  \cup (CASE x.verdict = "error" -> {"runtime-case-error"}
          [] x.verdict \in {"skipped", "unsupported"} -> {"runtime-case-not-executed"}
          [] OTHER -> Breaks("runtime-case-verdict-mismatch", x.verdict # c.expectation))
OneAdapterFindings(a, cases, semantic) ==
  Breaks("runtime-adapter-failed", a.status = "failed")
  \cup Breaks("runtime-adapter-not-executed", a.status \notin {"passed", "failed"})
  \cup Breaks("runtime-case-missing", \E c \in cases : ResultOf(a, c) = {})
  \cup Breaks("runtime-case-extra", \E x \in a.results : \A c \in cases : c.id # x.caseId)
  \cup UNION {UNION {CaseRules(c, x, semantic) : x \in ResultOf(a, c)} : c \in cases}

(* Only what was accepted or rejected is compared between adapters.          *)
Executed(adapters, c) ==
  {x \in UNION {ResultOf(a, c) : a \in adapters} : x.verdict \in {"accepted", "rejected"}}
Diverges(results, field) == Cardinality({x[field] : x \in results}) > 1
Having(results, verdict) == {x \in results : x.verdict = verdict}
DivergenceFindings(adapters, c, semantic) ==
  LET results == Executed(adapters, c) IN
  Breaks("runtime-adapter-verdict-divergence", Diverges(results, "verdict"))
  \cup (IF ~semantic THEN {} ELSE
        Breaks("runtime-adapter-input-digest-divergence", Diverges(results, "input"))
        \cup Breaks("runtime-adapter-output-divergence", Diverges(Having(results, "accepted"), "output"))
        \cup Breaks("runtime-adapter-error-divergence", Diverges(Having(results, "rejected"), "errors")))

Demanded == Firsts(required.adapters, Len(required.adapters), "id")
RequirementFindings(adapters) ==
  ListFindings(required.adapters, Len(required.adapters), "id", "runtime-required-adapter")
  \cup Breaks("runtime-required-adapter-missing",
         \E d \in Demanded : \A a \in adapters : a.id # d.id)
  \cup Breaks("runtime-required-adapter-identity-mismatch",
         \E d \in Demanded, a \in adapters :
           a.id = d.id /\ \E f \in {"language", "validator"} : d[f] \notin {Nothing, a[f]})

(* The caller expects the run of its parity report and its own corpus.       *)
EnvelopeFindings(e) ==
  Breaks("runtime-evidence-required-schema-mismatch", required.schema \notin {Nothing, e.schema})
  \cup Breaks("runtime-contract-ir-id-mismatch", e.contractIrId # ir.irId)
  \cup Breaks("runtime-input-digest-mismatch", e.runId # parity)
  \cup Breaks("runtime-corpus-digest-mismatch", e.corpus # corpus)

Compare(e) ==
  LET needsInput == "v2" \in {required.schema, e.schema}
      cases == Cases(corpus, needsInput)
      adapters == NormalAdapters(e)
      irRules == IrFindings(ir, checked, parity)
  IN EvidenceFindings(e) \cup CorpusFindings(corpus, needsInput) \cup irRules
     \cup Breaks("runtime-corpus-declaration-not-admitted",
            irRules = {} /\ \E c \in cases : c.declaration \notin Members(ir.declarations))
     \cup EnvelopeFindings(e) \cup RequirementFindings(adapters)
     \cup (UNION {OneAdapterFindings(a, cases, Semantic(e.schema)) : a \in adapters})
     \cup (UNION {DivergenceFindings(adapters, c, Semantic(e.schema)) : c \in cases})

-----------------------------------------------------------------------------
(* A check of the current sources that passes leaves both artifacts.         *)
CheckSources ==
  /\ decision = Nothing
  /\ parity' = lanes /\ ir' = Genuinely(lanes)
  /\ UNCHANGED <<lanes, corpus, required, jobs, binding, evidence, checked, decision, executedOn,
                 checkedAt, moves>>

(* createRuntimeEvidenceBindingAgainstCurrentInputs returns, or throws.      *)
CreateBinding ==
  /\ decision = Nothing /\ ir # Nothing
  /\ IrFindings(ir, CurrentCheck, ir.runId) = {}
  /\ binding' = [contractIrId |-> ir.irId, runId |-> ir.runId]
  /\ UNCHANGED <<lanes, corpus, required, jobs, parity, ir, evidence, checked, decision, executedOn,
                 checkedAt, moves>>

(* Adapter jobs execute the corpus, once per binding, and copy the ids they  *)
(* were given.                                                               *)
ExecuteCorpus ==
  /\ decision = Nothing /\ binding # Nothing
  /\ executedOn # [lanes |-> binding.runId, corpus |-> corpus]
  /\ \E run \in RunsOf[jobs][corpus] :
       evidence' = [schema |-> run.schema, adapters |-> run.adapters, corpus |-> corpus,
                    contractIrId |-> binding.contractIrId, runId |-> binding.runId]
  /\ executedOn' = [lanes |-> binding.runId, corpus |-> corpus]
  /\ UNCHANGED <<lanes, corpus, required, jobs, parity, ir, binding, checked, decision, checkedAt, moves>>

(* verifyContractIr.  verifyRuntimeEvidenceAgainstCurrentInputs compares     *)
(* next; an orchestrator may hold the result and compare later.              *)
VerifyIr ==
  /\ decision = Nothing /\ ir # Nothing
  /\ checked' = CurrentCheck /\ checkedAt' = lanes
  /\ UNCHANGED <<lanes, corpus, required, jobs, parity, ir, binding, evidence, decision, executedOn, moves>>

CompareEvidence ==
  /\ decision = Nothing /\ evidence # Nothing /\ ir # Nothing
  /\ decision' = Compare(evidence)
  /\ UNCHANGED <<lanes, corpus, required, jobs, parity, ir, binding, evidence, checked, executedOn,
                 checkedAt, moves>>

(* An IR that someone changed, with its old id or with the id of its body.   *)
Forged(i) ==
  LET body == BodyOf(i)
      others == {[body EXCEPT !.role = FALSE],
                 [body EXCEPT !.declarations = Append(@, Head(@))]}
                \cup {[body EXCEPT !.runId = r] : r \in Lanes}
  IN {Identified(b, id) : b \in others \ {body}, id \in {i.irId} \cup others}

(* Others edit the sources, record another corpus, or replace the IR.        *)
Move ==
  /\ decision = Nothing /\ moves < MaxMoves
  /\ moves' = moves + 1
  /\ \/ /\ lanes' \in Lanes \ {lanes}
        /\ UNCHANGED <<corpus, ir>>
     \/ /\ corpus' \in Corpora \ {corpus}
        /\ UNCHANGED <<lanes, ir>>
     \/ /\ ir # Nothing
        /\ ir' \in Forged(ir)
        /\ UNCHANGED <<lanes, corpus>>
  /\ UNCHANGED <<required, jobs, parity, binding, evidence, checked, decision, executedOn, checkedAt>>

ConformanceNext ==
  \/ CheckSources \/ CreateBinding \/ ExecuteCorpus \/ VerifyIr \/ CompareEvidence \/ Move
RuntimeSpec == ConformanceInit /\ [][ConformanceNext]_conformance

-----------------------------------------------------------------------------
(* compareRuntimeEvidence admits only what was executed and agreed.  The     *)
(* adapters worked on the revision that the verification looked at and on    *)
(* the corpus that is trusted now.  As reported, before anything was         *)
(* dropped, every adapter appears once and every required one is there; each *)
(* executed every trusted case exactly once and nothing else, with the       *)
(* trusted verdict on an admitted declaration; and, in v2, on the trusted    *)
(* input, with one output and one list of errors among all adapters.         *)
Once(list, by, key) == Cardinality({k \in DOMAIN list : list[k] # Malformed /\ KeyIn(list[k], by) = key}) = 1
RuntimePassIsEarned ==
  decision = {} =>
    /\ executedOn = [lanes |-> checkedAt, corpus |-> corpus]
    /\ Malformed \notin Members(corpus) \cup Members(evidence.adapters)
    /\ \A d \in Members(required.adapters) : Once(evidence.adapters, "id", d.id)
    /\ \A a \in Members(evidence.adapters) :
         /\ a.status = "passed" /\ Len(a.results) = Len(corpus)
         /\ \A c \in Members(corpus) :
              /\ c.declaration \in Members(Declared[checkedAt])
              /\ Once(a.results, "caseId", c.id)
              /\ \E x \in Members(a.results) :
                   /\ x.caseId = c.id /\ x.declaration = c.declaration /\ x.verdict = c.expectation
                   /\ Semantic(evidence.schema) => x.input = c.input
    /\ Semantic(evidence.schema) =>
         \A a, b \in Members(evidence.adapters) :
           \A x \in Members(a.results), y \in Members(b.results) :
             x.caseId = y.caseId => x.output = y.output /\ Members(x.errors) = Members(y.errors)
=============================================================================
