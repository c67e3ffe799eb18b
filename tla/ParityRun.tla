------------------------------- MODULE ParityRun -------------------------------
(***************************************************************************)
(* One comparison under its finding budget: the structural gates of         *)
(* compareParity, the differential lane of crossValidate, and the report    *)
(* built from both.  Schemas are abstracted to what they answer: how many   *)
(* differences a gate would list, and each lane's verdict on an instance of *)
(* a declaration pair.  Both are chosen when first asked for and the        *)
(* verdict is remembered, validation being a function of schema and         *)
(* instance.  wrong and drift are what a run without a budget, and without  *)
(* its deduplication of probes, would have to report.                       *)
(***************************************************************************)
EXTENDS Integers, Sequences, FiniteSets

CONSTANTS
  MaxFindings,   \* the finding budget of the run
  Pairs,         \* number of declaration pairs, compared in their order
  Instances,     \* JSON values, by canonical encoding
  Fixtures,      \* corpus fixtures that may exist: instance, expectation, roles
  MaxProbes,     \* bound on probes from the two lanes' schemas, per pair
  MaxGate,       \* bound on the findings of one structural gate
  None

ASSUME BudgetAssumption == MaxFindings \in Nat \ {0}
ASSUME BoundsAssumption == {Pairs, MaxProbes, MaxGate} \subseteq Nat
ASSUME NoneAssumption ==
  None \notin [authored : {"accept", "reject", "refuse"},
               generated : {"accept", "reject", "refuse"}]
ASSUME FixturesAssumption ==
  \A f \in Fixtures : /\ f.instance \in Instances
                      /\ f.expectation \in {"accept", "reject", None}
                      /\ f.roles \subseteq (1 .. Pairs) \X {"authored", "generated", "typespec"}

VARIABLES
  phase,      \* the gate the run is at
  pair,       \* the declaration pair under comparison
  found,      \* structural findings listed
  drift,      \* structural differences there are
  corpus,     \* the fixtures of the run
  queue,      \* probes of fixtures still to evaluate for this pair
  given,      \* lane probes evaluated or skipped for this pair
  seen,       \* instances already evaluated for this pair
  verdicts,   \* per pair and instance: the two lanes' verdicts, None if not asked
  consumed,   \* fixtures some pair has taken
  findings,   \* causes of the differential findings listed
  refusals,   \* refused probes, per pair
  divergences,\* diverging probes, per pair
  wrong,      \* causes of every probe and fixture that is wrong
  status,     \* of the report
  emitted     \* findings in the report

structural   == <<found, drift>>
differential == <<queue, given, seen, verdicts, consumed, findings, refusals, divergences, wrong>>
report       == <<status, emitted>>
vars == <<phase, pair, structural, corpus, differential, report>>

Smaller(a, b) == IF a < b THEN a ELSE b
Larger(a, b) == IF a > b THEN a ELSE b

Answers == {"accept", "reject", "refuse"}
LaneVerdicts == [authored : Answers, generated : Answers]

Init ==
  /\ phase = "audit" /\ pair = 1
  /\ found = 0 /\ drift = 0
  /\ corpus \in SUBSET Fixtures
  /\ queue = {} /\ given = 0 /\ seen = {}
  /\ verdicts = [p \in 1 .. Pairs |-> [x \in Instances |-> None]]
  /\ consumed = {}
  /\ findings = <<>>
  /\ refusals = [p \in 1 .. Pairs |-> 0]
  /\ divergences = [p \in 1 .. Pairs |-> 0]
  /\ wrong = {}
  /\ status = "running" /\ emitted = 0

-----------------------------------------------------------------------------
(* Structural gates.                                                        *)

(* Inventory errors, ambiguities, schema structure, mapping and declaration *)
(* inventories: all are listed, whatever the budget.                        *)
Audit ==
  /\ phase = "audit"
  /\ phase' = "semantic"
  /\ \E n \in 0 .. MaxGate : found' = found + n /\ drift' = drift + n
  /\ UNCHANGED <<pair, corpus, differential, report>>

(* The budget of one pair's deepDiff, which stops when it is used up. *)
Remaining(listed) == Larger(1, MaxFindings - listed)

(* compareSemanticSchemas for one pair: scope problems are listed at once,  *)
(* differences within what remains of the budget.                           *)
CompareSchemas ==
  /\ phase = "semantic" /\ pair <= Pairs
  /\ found < MaxFindings
  /\ \E scope, differences \in 0 .. MaxGate :
       /\ found' = found + scope + Smaller(differences, Remaining(found + scope))
       /\ drift' = drift + scope + differences
  /\ pair' = pair + 1
  /\ UNCHANGED <<phase, corpus, differential, report>>

(* An exhausted budget ends the semantic gate; the differential lane runs.  *)
EndSemantic ==
  /\ phase = "semantic"
  /\ pair > Pairs \/ found >= MaxFindings
  /\ phase' = "pair" /\ pair' = 1
  /\ \E skipped \in 0 .. (IF pair > Pairs THEN 0 ELSE MaxGate) : drift' = drift + skipped
  /\ UNCHANGED <<found, corpus, differential, report>>

(* options.probes is false: the lane is switched off. *)
SkipDifferential ==
  /\ phase = "pair" /\ pair = 1
  /\ phase' = "report"
  /\ UNCHANGED <<pair, structural, corpus, differential, report>>

-----------------------------------------------------------------------------
(* The differential lane.                                                   *)

(* The names of a pair that a fixture directory may have. *)
Roles == {"authored", "generated", "typespec"}

(* A pair takes the fixtures filed under its authored, generated or         *)
(* TypeSpec name; one filed under two of them that coincide is taken twice. *)
StartPair ==
  /\ phase = "pair" /\ pair <= Pairs
  /\ phase' = "lanes"
  /\ queue' = {q \in corpus \X Roles : <<pair, q[2]>> \in q[1].roles}
  /\ consumed' = consumed \cup {f \in corpus : \E role \in Roles : <<pair, role>> \in f.roles}
  /\ given' = 0 /\ seen' = {}
  /\ UNCHANGED <<pair, structural, corpus, verdicts, findings, refusals, divergences, wrong, report>>

(* The lanes' verdicts on x: as before, or whatever they are. *)
VerdictsOn(x) == IF verdicts[pair][x] = None THEN LaneVerdicts ELSE {verdicts[pair][x]}

Refused(v) == v.authored = "refuse" \/ v.generated = "refuse"
Diverges(v) == ~Refused(v) /\ v.authored # v.generated

(* Both lanes agree, against what a reviewer or an author declared. *)
Contradicts(v, expectation) ==
  ~Refused(v) /\ v.authored = v.generated /\ expectation \notin {None, v.authored}

Wrong(v, expectation) == Refused(v) \/ Diverges(v) \/ Contradicts(v, expectation)

(* A finding goes into the list while the budget lasts. *)
List(cause) ==
  findings' = IF Len(findings) < MaxFindings THEN Append(findings, cause) ELSE findings

(* Mutant of Evaluate: refused probes are not counted for the declaration. *)
EvaluateForgetsRefusals(cause, x, expectation) ==
  \E v \in VerdictsOn(x) :
    /\ verdicts' = [verdicts EXCEPT ![pair][x] = v]
    /\ seen' = seen \cup {x}
    /\ divergences' = [divergences EXCEPT ![pair] = IF Diverges(v) THEN @ + 1 ELSE @]
    /\ wrong' = IF Wrong(v, expectation) THEN wrong \cup {cause} ELSE wrong
    /\ IF Wrong(v, expectation) THEN List(cause) ELSE UNCHANGED findings
    /\ UNCHANGED refusals

(* One probe is given to both lanes; its outcome is counted and listed. *)
Evaluate(cause, x, expectation) ==
  \E v \in VerdictsOn(x) :
    /\ verdicts' = [verdicts EXCEPT ![pair][x] = v]
    /\ seen' = seen \cup {x}
    /\ refusals' = [refusals EXCEPT ![pair] = IF Refused(v) THEN @ + 1 ELSE @]
    /\ divergences' = [divergences EXCEPT ![pair] = IF Diverges(v) THEN @ + 1 ELSE @]
    /\ wrong' = IF Wrong(v, expectation) THEN wrong \cup {cause} ELSE wrong
    /\ IF Wrong(v, expectation) THEN List(cause) ELSE UNCHANGED findings

(* A synthesized probe of either lane; an instance already seen is skipped. *)
SyntheticProbe ==
  /\ phase = "lanes" /\ given < MaxProbes
  /\ given' = given + 1
  /\ \E x \in Instances :
       LET cause == <<"synthetic", pair, x>>
       IN IF x \in seen
          THEN /\ wrong' = IF Wrong(verdicts[pair][x], None) THEN wrong \cup {cause} ELSE wrong
               /\ UNCHANGED <<seen, verdicts, findings, refusals, divergences>>
          ELSE Evaluate(cause, x, None)
  /\ UNCHANGED <<phase, pair, structural, corpus, queue, consumed, report>>

(* An `examples` or `default` value of either authority: both must accept. *)
DeclaredProbe ==
  /\ phase = "lanes" /\ given < MaxProbes
  /\ given' = given + 1
  /\ \E x \in Instances : Evaluate(<<"declared", pair, x>>, x, "accept")
  /\ UNCHANGED <<phase, pair, structural, corpus, queue, consumed, report>>

EndLanes ==
  /\ phase = "lanes"
  /\ phase' = "fixtures"
  /\ UNCHANGED <<pair, structural, corpus, differential, report>>

(* Mutant of FixtureProbe: fixtures are deduplicated like other probes. *)
FixtureProbeDeduplicated ==
  /\ phase = "fixtures"
  /\ \E q \in queue :
       LET f == q[1]
           cause == <<"fixture", pair, f>>
       IN /\ queue' = queue \ {q}
          /\ IF f.instance \in seen
             THEN /\ wrong' = IF Wrong(verdicts[pair][f.instance], f.expectation)
                              THEN wrong \cup {cause} ELSE wrong
                  /\ UNCHANGED <<seen, verdicts, findings, refusals, divergences>>
             ELSE Evaluate(cause, f.instance, f.expectation)
  /\ UNCHANGED <<phase, pair, structural, corpus, given, consumed, report>>

(* A fixture is evaluated even if its instance was: its expectation is its own. *)
FixtureProbe ==
  /\ phase = "fixtures"
  /\ \E q \in queue :
       /\ queue' = queue \ {q}
       /\ Evaluate(<<"fixture", pair, q[1]>>, q[1].instance, q[1].expectation)
  /\ UNCHANGED <<phase, pair, structural, corpus, given, consumed, report>>

EndPair ==
  /\ phase = "fixtures" /\ queue = {}
  /\ phase' = "pair" /\ pair' = pair + 1
  /\ UNCHANGED <<structural, corpus, differential, report>>

(* A fixture filed under a declaration that no pair has; each is met once. *)
UnknownFixture ==
  /\ phase = "pair" /\ pair > Pairs
  /\ \E f \in corpus \ consumed :
       /\ consumed' = consumed \cup {f}
       /\ wrong' = wrong \cup {<<"unknown", f>>}
       /\ List(<<"unknown", f>>)
  /\ UNCHANGED <<phase, pair, structural, corpus, queue, given, seen, verdicts, refusals,
                 divergences, report>>

EndCorpus ==
  /\ phase = "pair" /\ pair > Pairs /\ corpus \subseteq consumed
  /\ phase' = "report"
  /\ UNCHANGED <<pair, structural, corpus, differential, report>>

(* An error that is neither a refusal nor a verdict ends the run. *)
Throw ==
  /\ status = "running" /\ phase # "report"
  /\ phase' = "done"
  /\ status' = "failed"
  /\ UNCHANGED <<pair, structural, corpus, differential, emitted>>

-----------------------------------------------------------------------------
(* The report.                                                              *)

Total == found + Len(findings)

(* Mutant of Emitted: the differential findings fill what is left, from 0. *)
EmittedStructural == Smaller(MaxFindings, found)

(* sortFindings(...).slice(0, maxFindings) of the two capped lists. *)
Emitted == Smaller(MaxFindings, Smaller(found, MaxFindings) + Len(findings))

(* Mutant of Report: the status follows the differential summary alone. *)
ReportOfSummary ==
  /\ phase = "report"
  /\ phase' = "done"
  /\ status' = IF \A p \in 1 .. Pairs : refusals[p] + divergences[p] = 0
               THEN "passed" ELSE "stopped_for_evaluation"
  /\ emitted' = Emitted
  /\ UNCHANGED <<pair, structural, corpus, differential>>

Report ==
  /\ phase = "report"
  /\ phase' = "done"
  /\ status' = IF Total = 0 THEN "passed" ELSE "stopped_for_evaluation"
  /\ emitted' = Emitted
  /\ UNCHANGED <<pair, structural, corpus, differential>>

Next ==
  \/ Audit \/ CompareSchemas \/ EndSemantic \/ SkipDifferential
  \/ StartPair \/ SyntheticProbe \/ DeclaredProbe \/ EndLanes \/ FixtureProbe \/ EndPair
  \/ UnknownFixture \/ EndCorpus \/ Throw \/ Report

Spec == Init /\ [][Next]_vars
-----------------------------------------------------------------------------
(* Properties. *)

Causes ==
  ({"synthetic", "declared"} \X (1 .. Pairs) \X Instances)
  \cup ({"fixture"} \X (1 .. Pairs) \X Fixtures) \cup ({"unknown"} \X Fixtures)

TypeOK ==
  /\ phase \in {"audit", "semantic", "pair", "lanes", "fixtures", "report", "done"}
  /\ pair \in 1 .. Pairs + 1
  /\ phase \in {"lanes", "fixtures"} => pair \in 1 .. Pairs
  /\ found \in Nat /\ drift \in Nat
  /\ corpus \in SUBSET Fixtures
  /\ queue \in SUBSET (Fixtures \X Roles)
  /\ given \in Nat
  /\ seen \in SUBSET Instances
  /\ verdicts \in [1 .. Pairs -> [Instances -> LaneVerdicts \cup {None}]]
  /\ consumed \in SUBSET Fixtures
  /\ findings \in Seq(Causes)
  /\ refusals \in [1 .. Pairs -> Nat]
  /\ divergences \in [1 .. Pairs -> Nat]
  /\ wrong \in SUBSET Causes
  /\ status \in {"running", "passed", "stopped_for_evaluation", "failed"}
  /\ emitted \in Nat

(* docs/finding-limits.md: the budget is "not permission to skip validation *)
(* and return an empty result": a run passes just when nothing it was given *)
(* is wrong, and a run that stops shows evidence, within the budget.        *)
BudgetHidesNothing ==
  /\ status = "passed" => drift = 0 /\ wrong = {}
  /\ status = "stopped_for_evaluation" =>
       (drift > 0 \/ wrong # {}) /\ emitted \in 1 .. MaxFindings

Listed == {findings[i] : i \in DOMAIN findings}

(* Below the budget a finished run has listed every difference and every    *)
(* wrong probe under its own cause, a skipped synthetic one under that of   *)
(* the probe it repeats: no fixture's diagnostic stands for another's.      *)
Answered(cause) ==
  \/ cause \in Listed
  \/ /\ cause[1] = "synthetic"
     /\ <<"declared", cause[2], cause[3]>> \in Listed

CompleteBelowBudget ==
  status \in {"passed", "stopped_for_evaluation"} =>
    /\ found < MaxFindings => found = drift
    /\ Len(findings) < MaxFindings => \A cause \in wrong : Answered(cause)

(* A declaration is reported as behaviourally indistinguishable just when   *)
(* the lanes gave one and the same answer to everything asked about it.     *)
IndistinguishableIsEarned ==
  \A p \in 1 .. Pairs :
    (refusals[p] = 0 /\ divergences[p] = 0) <=>
      \A x \in Instances : verdicts[p][x] # None =>
        ~Refused(verdicts[p][x]) /\ ~Diverges(verdicts[p][x])

(* Every behaviour of the run is one of the budget-less verdict. *)
Verdict == INSTANCE ParityVerdict WITH clean <- (drift = 0 /\ wrong = {})
IsVerdict == Verdict!ASpec
=============================================================================
