----------------------------- MODULE DifferentialProofs -----------------------------
(***************************************************************************)
(* The differential lane, its comparison and its lookup.                    *)
(*                                                                          *)
(* The budget of a parity run decides what is shown and never what is       *)
(* concluded: for every budget of at least one, every number of declaration *)
(* pairs, probes, fixtures and findings.  The invariant is that the lists   *)
(* and counters are empty exactly when what they stand for is: a structural *)
(* difference leaves a finding however late the budget ran out, and a       *)
(* skipped probe can only repeat a verdict that is already answered for.    *)
(*                                                                          *)
(* The index of a lane leads every name home: for every collection of       *)
(* documents, however deep and however its resources are embedded.  The     *)
(* invariant is that the index holds what its documents' locations are      *)
(* called and nothing else, each with the bases of its place; that walking  *)
(* the documents finds these bases is shown by induction over pointers,     *)
(* as a fact about sets of numbers.                                         *)
(***************************************************************************)
EXTENDS ParityRun, SchemaLocations, SequenceTheorems, WellFoundedInduction, TLAPS

(* What Evaluate leaves: a verdict, counts and findings of their types. *)
LEMMA EvaluateType ==
  ASSUME TypeOK, pair \in 1 .. Pairs, NEW cause \in Causes, NEW x \in Instances,
         NEW expectation, Evaluate(cause, x, expectation)
  PROVE  /\ seen' \in SUBSET Instances
         /\ verdicts' \in [1 .. Pairs -> [Instances -> LaneVerdicts \cup {None}]]
         /\ findings' \in Seq(Causes)
         /\ refusals' \in [1 .. Pairs -> Nat]
         /\ divergences' \in [1 .. Pairs -> Nat]
         /\ wrong' \in SUBSET Causes
<1>1. PICK v \in VerdictsOn(x) :
        /\ verdicts' = [verdicts EXCEPT ![pair] = [verdicts[pair] EXCEPT ![x] = v]]
        /\ seen' = seen \cup {x}
        /\ refusals' = [refusals EXCEPT ![pair] =
                          IF Refused(v) THEN refusals[pair] + 1 ELSE refusals[pair]]
        /\ divergences' = [divergences EXCEPT ![pair] =
                             IF Diverges(v) THEN divergences[pair] + 1 ELSE divergences[pair]]
        /\ wrong' = IF Wrong(v, expectation) THEN wrong \cup {cause} ELSE wrong
        /\ IF Wrong(v, expectation) THEN List(cause) ELSE UNCHANGED findings
  BY DEF Evaluate
<1>2. v \in LaneVerdicts \cup {None}
  BY DEF VerdictsOn, TypeOK
<1>3. findings' \in Seq(Causes)
  <2>1. findings \in Seq(Causes) /\ Append(findings, cause) \in Seq(Causes)
    BY DEF TypeOK
  <2>2. findings' \in {findings, Append(findings, cause)}
    BY <1>1 DEF List
  <2> QED
    BY <2>1, <2>2
<1>4. verdicts' \in [1 .. Pairs -> [Instances -> LaneVerdicts \cup {None}]]
  <2>1. [verdicts[pair] EXCEPT ![x] = v] \in [Instances -> LaneVerdicts \cup {None}]
    BY <1>2 DEF TypeOK
  <2> QED
    BY <1>1, <2>1 DEF TypeOK
<1>5. refusals' \in [1 .. Pairs -> Nat] /\ divergences' \in [1 .. Pairs -> Nat]
  BY <1>1 DEF TypeOK
<1>6. seen' \in SUBSET Instances /\ wrong' \in SUBSET Causes
  BY <1>1 DEF TypeOK
<1> QED
  BY <1>3, <1>4, <1>5, <1>6

LEMMA InitTypes == Init => TypeOK
  BY BudgetAssumption, BoundsAssumption DEF Init, TypeOK

LEMMA NextTypes == TypeOK /\ [Next]_vars => TypeOK'
<1> SUFFICES ASSUME TypeOK, [Next]_vars PROVE TypeOK'
  OBVIOUS
<1> USE BudgetAssumption, BoundsAssumption
    DEF structural, differential, report
<1>1. CASE Audit
  BY <1>1 DEF Audit, TypeOK
<1>2. CASE CompareSchemas
  <2>1. found' \in Nat /\ drift' \in Nat
    BY <1>2 DEF CompareSchemas, TypeOK, Smaller, Larger, Remaining
  <2> QED
    BY <1>2, <2>1, SMTT(30) DEF CompareSchemas, TypeOK
<1>3. CASE EndSemantic
  BY <1>3 DEF EndSemantic, TypeOK
<1>4. CASE SkipDifferential
  BY <1>4 DEF SkipDifferential, TypeOK
<1>5. CASE StartPair
  BY <1>5 DEF StartPair, TypeOK
<1>6. CASE SyntheticProbe
  <2>1. PICK x \in Instances :
          IF x \in seen
          THEN /\ wrong' = IF Wrong(verdicts[pair][x], None)
                           THEN wrong \cup {<<"synthetic", pair, x>>} ELSE wrong
               /\ UNCHANGED <<seen, verdicts, findings, refusals, divergences>>
          ELSE Evaluate(<<"synthetic", pair, x>>, x, None)
    BY <1>6 DEF SyntheticProbe
  <2>2. pair \in 1 .. Pairs /\ <<"synthetic", pair, x>> \in Causes
    BY <1>6 DEF SyntheticProbe, TypeOK, Causes
  <2>3. CASE x \in seen
    <3>1. wrong' \in SUBSET Causes
      BY <2>1, <2>2, <2>3 DEF TypeOK
    <3>2. UNCHANGED <<seen, verdicts, findings, refusals, divergences>>
      BY <2>1, <2>3
    <3> QED
      BY <1>6, <3>1, <3>2 DEF SyntheticProbe, TypeOK
  <2>4. CASE x \notin seen
    BY <1>6, <2>1, <2>2, <2>4, EvaluateType, SMTT(30) DEF SyntheticProbe, TypeOK
  <2> QED
    BY <2>3, <2>4
<1>7. CASE DeclaredProbe
  <2>1. PICK x \in Instances : Evaluate(<<"declared", pair, x>>, x, "accept")
    BY <1>7 DEF DeclaredProbe
  <2>2. pair \in 1 .. Pairs /\ <<"declared", pair, x>> \in Causes
    BY <1>7 DEF DeclaredProbe, TypeOK, Causes
  <2> QED
    BY <1>7, <2>1, <2>2, EvaluateType, SMTT(30) DEF DeclaredProbe, TypeOK
<1>8. CASE EndLanes
  BY <1>8 DEF EndLanes, TypeOK
<1>9. CASE FixtureProbe
  <2>1. PICK q \in queue :
          /\ queue' = queue \ {q}
          /\ Evaluate(<<"fixture", pair, q[1]>>, q[1].instance, q[1].expectation)
    BY <1>9 DEF FixtureProbe
  <2>2. q[1] \in Fixtures /\ q[1].instance \in Instances
    BY FixturesAssumption DEF TypeOK
  <2>3. pair \in 1 .. Pairs /\ <<"fixture", pair, q[1]>> \in Causes
    BY <1>9, <2>2 DEF FixtureProbe, TypeOK, Causes
  <2> QED
    BY <1>9, <2>1, <2>2, <2>3, EvaluateType DEF FixtureProbe, TypeOK
<1>10. CASE EndPair
  BY <1>10 DEF EndPair, TypeOK
<1>11. CASE UnknownFixture
  <2>1. PICK f \in corpus \ consumed :
          /\ consumed' = consumed \cup {f}
          /\ wrong' = wrong \cup {<<"unknown", f>>}
          /\ List(<<"unknown", f>>)
    BY <1>11 DEF UnknownFixture
  <2>2. <<"unknown", f>> \in Causes /\ f \in Fixtures
    BY DEF Causes, TypeOK
  <2>3. findings' \in Seq(Causes)
    BY <2>1, <2>2 DEF List, TypeOK
  <2> QED
    BY <1>11, <2>1, <2>2, <2>3 DEF UnknownFixture, TypeOK
<1>12. CASE EndCorpus
  BY <1>12 DEF EndCorpus, TypeOK
<1>13. CASE Throw
  BY <1>13 DEF Throw, TypeOK
<1>14. CASE Report
  <2>1. emitted' \in Nat
    BY <1>14 DEF Report, Emitted, Smaller, TypeOK
  <2> QED
    BY <1>14, <2>1 DEF Report, TypeOK
<1>15. CASE UNCHANGED vars
  BY <1>15 DEF vars, TypeOK
<1> QED
  BY <1>1, <1>2, <1>3, <1>4, <1>5, <1>6, <1>7, <1>8, <1>9, <1>10, <1>11, <1>12, <1>13,
     <1>14, <1>15 DEF Next

(* Every variable of a run keeps its type. *)
THEOREM RunTypeCorrect == Spec => []TypeOK
  BY InitTypes, NextTypes, PTL DEF Spec

-----------------------------------------------------------------------------
(* Lists are empty exactly when nothing is wrong; what has been asked and   *)
(* found to disagree is answered for; the report says so.                   *)
Told == /\ found = 0 <=> drift = 0
        /\ findings = <<>> <=> wrong = {}

Asked ==
  /\ phase \in {"lanes", "fixtures"} =>
       \A x \in seen : verdicts[pair][x] \in LaneVerdicts
  /\ \A p \in 1 .. Pairs, x \in Instances :
       verdicts[p][x] \in LaneVerdicts /\ Wrong(verdicts[p][x], None) => wrong # {}

Concluded ==
  /\ phase = "done" <=> status # "running"
  /\ status = "passed" => drift = 0 /\ wrong = {}
  /\ status = "stopped_for_evaluation" =>
       (drift > 0 \/ wrong # {}) /\ emitted \in 1 .. MaxFindings

Honest == TypeOK /\ Told /\ Asked /\ Concluded

(* A cause that is listed leaves a finding, within the budget or at it. *)
LEMMA ListLeavesOne ==
  ASSUME findings \in Seq(Causes), NEW cause, List(cause)
  PROVE  findings' # <<>>
<1>1. CASE Len(findings) < MaxFindings
  BY <1>1 DEF List
<1>2. CASE ~(Len(findings) < MaxFindings)
  <2>1. Len(findings) # 0
    BY <1>2, BudgetAssumption
  <2> QED
    BY <1>2, <2>1 DEF List
<1> QED
  BY <1>1, <1>2

(* An evaluated probe is answered for: by itself if it is wrong, and its    *)
(* verdict by now if a later, skipped one repeats it.                       *)
LEMMA EvaluateAnswers ==
  ASSUME Honest, pair \in 1 .. Pairs, NEW cause \in Causes, NEW x \in Instances,
         NEW expectation, Evaluate(cause, x, expectation),
         \A y \in seen : verdicts[pair][y] \in LaneVerdicts
  PROVE  /\ findings' = <<>> <=> wrong' = {}
         /\ wrong \subseteq wrong'
         /\ \A y \in seen' : verdicts'[pair][y] \in LaneVerdicts
         /\ \A p \in 1 .. Pairs, y \in Instances :
              verdicts'[p][y] \in LaneVerdicts /\ Wrong(verdicts'[p][y], None) => wrong' # {}
<1>1. PICK v \in VerdictsOn(x) :
        /\ verdicts' = [verdicts EXCEPT ![pair] = [verdicts[pair] EXCEPT ![x] = v]]
        /\ seen' = seen \cup {x}
        /\ wrong' = IF Wrong(v, expectation) THEN wrong \cup {cause} ELSE wrong
        /\ IF Wrong(v, expectation) THEN List(cause) ELSE UNCHANGED findings
  BY DEF Evaluate
<1>2. v \in LaneVerdicts
  <2>1. verdicts[pair][x] \in LaneVerdicts \cup {None}
    BY DEF Honest, TypeOK
  <2> QED
    BY <1>1, <2>1 DEF VerdictsOn
<1>3. Wrong(v, None) => Wrong(v, expectation)
  BY DEF Wrong, Contradicts
<1>4. findings' = <<>> <=> wrong' = {}
  <2>1. CASE Wrong(v, expectation)
    BY <1>1, <2>1, ListLeavesOne DEF Honest, TypeOK
  <2>2. CASE ~Wrong(v, expectation)
    BY <1>1, <2>2 DEF Honest, Told
  <2> QED
    BY <2>1, <2>2
<1>5. wrong \subseteq wrong'
  BY <1>1
<1>6. ASSUME NEW p \in 1 .. Pairs, NEW y \in Instances
      PROVE  verdicts'[p][y] = IF p = pair /\ y = x THEN v ELSE verdicts[p][y]
  BY <1>1 DEF Honest, TypeOK
<1>7. ASSUME NEW y \in seen' PROVE verdicts'[pair][y] \in LaneVerdicts
  <2>1. y \in Instances /\ (y = x \/ y \in seen)
    BY <1>1, <1>7 DEF Honest, TypeOK
  <2> QED
    BY <1>2, <1>6, <2>1
<1>8. ASSUME NEW p \in 1 .. Pairs, NEW y \in Instances,
             verdicts'[p][y] \in LaneVerdicts, Wrong(verdicts'[p][y], None)
      PROVE  wrong' # {}
  <2>1. CASE p = pair /\ y = x
    BY <1>1, <1>3, <1>6, <1>8, <2>1
  <2>2. CASE ~(p = pair /\ y = x)
    <3>1. wrong # {}
      BY <1>6, <1>8, <2>2 DEF Honest, Asked
    <3> QED
      BY <1>5, <3>1
  <2> QED
    BY <2>1, <2>2
<1> QED
  BY <1>4, <1>5, <1>7, <1>8

LEMMA InitHonest == Init => Honest
<1> SUFFICES ASSUME Init PROVE Honest
  OBVIOUS
<1>1. TypeOK
  BY InitTypes
<1>2. Told /\ Concluded
  BY DEF Init, Told, Concluded
<1>3. Asked
  BY NoneAssumption DEF Init, Asked, LaneVerdicts, Answers
<1> QED
  BY <1>1, <1>2, <1>3 DEF Honest

LEMMA NextHonest == Honest /\ [Next]_vars => Honest'
<1> SUFFICES ASSUME Honest, [Next]_vars PROVE Honest'
  OBVIOUS
<1>0. TypeOK'
  BY NextTypes DEF Honest
<1> SUFFICES (Told /\ Asked /\ Concluded)'
  BY <1>0 DEF Honest
<1> USE DEF structural, differential, report
<1>1. ASSUME UNCHANGED <<verdicts, seen, findings, wrong, pair>>,
             phase \in {"lanes", "fixtures"} \/ phase' \notin {"lanes", "fixtures"}
      PROVE  Asked' /\ (findings' = <<>> <=> wrong' = {})
  BY <1>1 DEF Honest, Asked, Told, Wrong, Refused, Diverges, Contradicts
<1>2. CASE Audit
  <2>1. found' = 0 <=> drift' = 0
    BY <1>2, BoundsAssumption DEF Audit, Honest, Told, TypeOK
  <2> QED
    BY <1>1, <1>2, <2>1 DEF Audit, Honest, Told, Concluded
<1>3. CASE CompareSchemas
  <2>1. PICK scope \in 0 .. MaxGate, differences \in 0 .. MaxGate :
          /\ found' = found + scope + Smaller(differences, Remaining(found + scope))
          /\ drift' = drift + scope + differences
    BY <1>3 DEF CompareSchemas
  <2>2. found' = 0 <=> drift' = 0
    BY <2>1, BudgetAssumption, BoundsAssumption
    DEF Honest, Told, TypeOK, Smaller, Larger, Remaining
  <2>3. Asked' /\ (findings' = <<>> <=> wrong' = {})
    BY <1>3 DEF CompareSchemas, Honest, Asked, Told, Wrong, Refused, Diverges, Contradicts
  <2> QED
    BY <1>3, <2>2, <2>3 DEF CompareSchemas, Honest, Told, Concluded
<1>4. CASE EndSemantic
  <2>1. found' = 0 <=> drift' = 0
    BY <1>4, BudgetAssumption, BoundsAssumption DEF EndSemantic, Honest, Told, TypeOK
  <2>2. Asked' /\ (findings' = <<>> <=> wrong' = {})
    BY <1>4 DEF EndSemantic, Honest, Asked, Told, Wrong, Refused, Diverges, Contradicts
  <2> QED
    BY <1>4, <2>1, <2>2 DEF EndSemantic, Honest, Told, Concluded
<1>5. CASE SkipDifferential
  BY <1>1, <1>5 DEF SkipDifferential, Honest, Told, Concluded
<1>6. CASE StartPair
  BY <1>6 DEF StartPair, Honest, Asked, Told, Concluded, Wrong, Refused, Diverges, Contradicts
<1>7. CASE SyntheticProbe
  <2>1. PICK x \in Instances :
          IF x \in seen
          THEN /\ wrong' = IF Wrong(verdicts[pair][x], None)
                           THEN wrong \cup {<<"synthetic", pair, x>>} ELSE wrong
               /\ UNCHANGED <<seen, verdicts, findings, refusals, divergences>>
          ELSE Evaluate(<<"synthetic", pair, x>>, x, None)
    BY <1>7 DEF SyntheticProbe
  <2>2. pair \in 1 .. Pairs /\ <<"synthetic", pair, x>> \in Causes
    BY <1>7 DEF SyntheticProbe, Honest, TypeOK, Causes
  <2>3. \A y \in seen : verdicts[pair][y] \in LaneVerdicts
    BY <1>7 DEF SyntheticProbe, Honest, Asked
  <2>4. CASE x \in seen
    <3>1. UNCHANGED <<seen, verdicts, findings>>
      BY <2>1, <2>4
    <3>2. Wrong(verdicts[pair][x], None) => wrong # {}
      BY <2>2, <2>3, <2>4 DEF Honest, Asked
    <3>3. wrong' = {} <=> wrong = {}
      BY <2>1, <2>4, <3>2
    <3> QED
      BY <1>7, <3>1, <3>3
      DEF SyntheticProbe, Honest, Asked, Told, Concluded, Wrong, Refused, Diverges, Contradicts
  <2>5. CASE x \notin seen
    BY <1>7, <2>1, <2>2, <2>3, <2>5, EvaluateAnswers
    DEF SyntheticProbe, Honest, Asked, Told, Concluded, Wrong, Refused, Diverges, Contradicts
  <2> QED
    BY <2>4, <2>5
<1>8. CASE DeclaredProbe
  <2>1. PICK x \in Instances : Evaluate(<<"declared", pair, x>>, x, "accept")
    BY <1>8 DEF DeclaredProbe
  <2>2. pair \in 1 .. Pairs /\ <<"declared", pair, x>> \in Causes
    BY <1>8 DEF DeclaredProbe, Honest, TypeOK, Causes
  <2> QED
    BY <1>8, <2>1, <2>2, EvaluateAnswers
    DEF DeclaredProbe, Honest, Asked, Told, Concluded, Wrong, Refused, Diverges, Contradicts
<1>9. CASE EndLanes
  BY <1>1, <1>9 DEF EndLanes, Honest, Told, Concluded
<1>10. CASE FixtureProbe
  <2>1. PICK q \in queue : Evaluate(<<"fixture", pair, q[1]>>, q[1].instance, q[1].expectation)
    BY <1>10 DEF FixtureProbe
  <2>2. q[1] \in Fixtures /\ q[1].instance \in Instances
    BY FixturesAssumption DEF Honest, TypeOK
  <2>3. pair \in 1 .. Pairs /\ <<"fixture", pair, q[1]>> \in Causes
    BY <1>10, <2>2 DEF FixtureProbe, Honest, TypeOK, Causes
  <2> QED
    BY <1>10, <2>1, <2>2, <2>3, EvaluateAnswers
    DEF FixtureProbe, Honest, Asked, Told, Concluded, Wrong, Refused, Diverges, Contradicts
<1>11. CASE EndPair
  BY <1>11 DEF EndPair, Honest, Asked, Told, Concluded, Wrong, Refused, Diverges, Contradicts
<1>12. CASE UnknownFixture
  <2>1. PICK f \in corpus \ consumed :
          wrong' = wrong \cup {<<"unknown", f>>} /\ List(<<"unknown", f>>)
    BY <1>12 DEF UnknownFixture
  <2>2. wrong' # {} /\ findings' # <<>>
    BY <2>1, ListLeavesOne DEF Honest, TypeOK
  <2> QED
    BY <1>12, <2>2
    DEF UnknownFixture, Honest, Asked, Told, Concluded, Wrong, Refused, Diverges, Contradicts
<1>13. CASE EndCorpus
  BY <1>1, <1>13 DEF EndCorpus, Honest, Told, Concluded
<1>14. CASE Throw
  BY <1>1, <1>14 DEF Throw, Honest, Told, Concluded
<1>15. CASE Report
  <2>1. found \in Nat /\ Len(findings) \in Nat /\ (Len(findings) = 0 <=> findings = <<>>)
    BY DEF Honest, TypeOK
  <2>2. Total = 0 <=> found = 0 /\ findings = <<>>
    BY <2>1 DEF Total
  <2>3. Total # 0 => Emitted \in 1 .. MaxFindings
    BY <2>1, BudgetAssumption DEF Total, Emitted, Smaller
  <2> QED
    BY <1>1, <1>15, <2>2, <2>3 DEF Report, Honest, Told, Concluded, TypeOK
<1>16. CASE UNCHANGED vars
  BY <1>1, <1>16 DEF vars, Honest, Told, Concluded, Asked
<1> QED
  BY <1>2, <1>3, <1>4, <1>5, <1>6, <1>7, <1>8, <1>9, <1>10, <1>11, <1>12, <1>13,
     <1>14, <1>15, <1>16 DEF Next

LEMMA RunIsHonest == Spec => []Honest
  BY InitHonest, NextHonest, PTL DEF Spec

(* compareParity, crossValidate and the report: a budget of at least one    *)
(* decides what is shown, never whether the run passes, and a run that      *)
(* stops shows at least one finding and at most the budget.                 *)
THEOREM BudgetHides == Spec => []BudgetHidesNothing
<1>1. Honest => BudgetHidesNothing
  BY DEF Honest, Concluded, BudgetHidesNothing
<1> QED
  BY <1>1, RunIsHonest, PTL

-----------------------------------------------------------------------------
(* No step of a running comparison takes back evidence, and none but Report *)
(* and Throw gives it a status.                                             *)
Gathering ==
  \/ Audit \/ CompareSchemas \/ EndSemantic \/ SkipDifferential \/ StartPair
  \/ SyntheticProbe \/ DeclaredProbe \/ EndLanes \/ FixtureProbe \/ EndPair
  \/ UnknownFixture \/ EndCorpus

LEMMA GatheringAccumulates ==
  ASSUME Honest, Gathering
  PROVE  /\ drift' >= drift /\ drift' \in Nat /\ drift \in Nat
         /\ wrong \subseteq wrong'
         /\ status = "running" /\ UNCHANGED status
<1> USE DEF structural, differential, report
<1>1. drift' \in Nat /\ drift \in Nat
  <2>1. TypeOK /\ TypeOK'
    BY NextTypes DEF Honest, Gathering, Next
  <2> QED
    BY <2>1 DEF TypeOK
<1>2. status = "running" /\ UNCHANGED status
  BY DEF Gathering, Audit, CompareSchemas, EndSemantic, SkipDifferential, StartPair,
    SyntheticProbe, DeclaredProbe, EndLanes, FixtureProbe, EndPair, UnknownFixture,
    EndCorpus, Honest, Concluded
<1>3. drift' >= drift
  BY BoundsAssumption, <1>1
  DEF Gathering, Audit, CompareSchemas, EndSemantic, SkipDifferential, StartPair,
    SyntheticProbe, DeclaredProbe, EndLanes, FixtureProbe, EndPair, UnknownFixture,
    EndCorpus
<1>4. wrong \subseteq wrong'
  <2>1. ASSUME NEW cause, NEW x, NEW expectation, Evaluate(cause, x, expectation)
        PROVE  wrong \subseteq wrong'
    BY <2>1 DEF Evaluate
  <2>2. CASE SyntheticProbe
    BY <2>1, <2>2 DEF SyntheticProbe
  <2>3. CASE DeclaredProbe
    BY <2>1, <2>3 DEF DeclaredProbe
  <2>4. CASE FixtureProbe
    BY <2>1, <2>4 DEF FixtureProbe
  <2> QED
    BY <2>2, <2>3, <2>4
    DEF Gathering, Audit, CompareSchemas, EndSemantic, SkipDifferential, StartPair,
      EndLanes, EndPair, UnknownFixture, EndCorpus
<1> QED
  BY <1>1, <1>2, <1>3, <1>4

LEMMA StepIsVerdictStep ==
  ASSUME Honest, [Next]_vars
  PROVE  [Verdict!ANext]_(Verdict!avars)
<1> DEFINE Clean == drift = 0 /\ wrong = {}
<1>1. CASE Gathering
  <2>1. Clean' => Clean
    BY <1>1, GatheringAccumulates
  <2>2. Clean' \in {Clean, FALSE}
    <3>1. CASE Clean'
      BY <2>1, <3>1
    <3>2. CASE ~Clean'
      BY <3>2
    <3> QED
      BY <3>1, <3>2
  <2>3. status = "running" /\ UNCHANGED status
    BY <1>1, GatheringAccumulates
  <2> QED
    BY <2>2, <2>3 DEF Verdict!ANext, Verdict!Observe
<1>2. CASE Throw
  <2>1. status = "running" /\ status' = "failed" /\ UNCHANGED <<drift, wrong>>
    BY <1>2 DEF Throw, structural, differential
  <2> QED
    BY <2>1 DEF Verdict!ANext, Verdict!Fail
<1>3. CASE Report
  <2>1. UNCHANGED <<drift, wrong>>
    BY <1>3 DEF Report, structural, differential
  <2>2. status = "running"
    BY <1>3 DEF Report, Honest, Concluded
  <2>3. Total = 0 <=> Clean
    <3>1. found \in Nat /\ Len(findings) \in Nat /\ (Len(findings) = 0 <=> findings = <<>>)
      BY DEF Honest, TypeOK
    <3> QED
      BY <3>1 DEF Total, Honest, Told
  <2>4. status' = IF Clean THEN "passed" ELSE "stopped_for_evaluation"
    BY <1>3, <2>3 DEF Report
  <2> QED
    BY <2>1, <2>2, <2>4 DEF Verdict!ANext, Verdict!Decide
<1>4. CASE UNCHANGED vars
  BY <1>4 DEF vars, structural, differential, report, Verdict!avars
<1> QED
  BY <1>1, <1>2, <1>3, <1>4 DEF Next, Gathering

(* The run, with its gates, budgets, deduplication and repeated fixtures,   *)
(* implements the verdict that has none of them.                            *)
THEOREM ImplementsVerdict == Spec => IsVerdict
<1>1. Init => Verdict!AInit
  BY DEF Init, Verdict!AInit
<1>2. Honest /\ [Next]_vars => [Verdict!ANext]_(Verdict!avars)
  BY StepIsVerdictStep
<1> QED
  BY <1>1, <1>2, RunIsHonest, PTL DEF Spec, IsVerdict, Verdict!ASpec

-----------------------------------------------------------------------------
(* Below the budget: every difference and every wrong probe is listed.       *)

(* A probe of either lane's schemas that gave x to pair p is listed.          *)
Noted(p, x) == <<"synthetic", p, x>> \in Listed \/ <<"declared", p, x>> \in Listed

(* What a skipped probe repeats is listed already.                            *)
Complete ==
  /\ found < MaxFindings => found = drift
  /\ Len(findings) < MaxFindings =>
       /\ \A cause \in wrong : Answered(cause)
       /\ phase = "lanes" =>
            \A x \in seen : Wrong(verdicts[pair][x], None) => Noted(pair, x)

(* List adds its cause and nothing else while the budget lasts.               *)
LEMMA ListLists ==
  ASSUME findings \in Seq(Causes), NEW cause, List(cause), Len(findings') < MaxFindings
  PROVE  Len(findings) < MaxFindings /\ Listed' = Listed \cup {cause}
<1>1. Len(findings) < MaxFindings /\ findings' = Append(findings, cause)
  BY DEF List
<1>2. DOMAIN findings' = (DOMAIN findings) \cup {Len(findings) + 1}
  BY <1>1
<1>3. \A i \in DOMAIN findings : findings'[i] = findings[i]
  BY <1>1
<1>4. findings'[Len(findings) + 1] = cause
  BY <1>1
<1>5. Listed' = {findings'[i] : i \in DOMAIN findings'}
  BY DEF Listed
<1> QED
  BY <1>1, <1>2, <1>3, <1>4, <1>5 DEF Listed

(* An evaluated probe keeps the verdicts of this pair there were, and its own *)
(* is listed under its cause if it is wrong.                                   *)
LEMMA EvaluateLists ==
  ASSUME Honest, pair \in 1 .. Pairs, NEW cause \in Causes, NEW x \in Instances,
         NEW expectation, Evaluate(cause, x, expectation), Len(findings') < MaxFindings,
         \A y \in seen : verdicts[pair][y] \in LaneVerdicts
  PROVE  /\ Len(findings) < MaxFindings
         /\ Listed \subseteq Listed'
         /\ \A c \in wrong' : c \in wrong \/ c \in Listed'
         /\ seen' = seen \cup {x}
         /\ \A y \in seen : verdicts'[pair][y] = verdicts[pair][y]
         /\ Wrong(verdicts'[pair][x], None) => cause \in Listed'
<1>1. PICK v \in VerdictsOn(x) :
        /\ verdicts' = [verdicts EXCEPT ![pair] = [verdicts[pair] EXCEPT ![x] = v]]
        /\ seen' = seen \cup {x}
        /\ wrong' = IF Wrong(v, expectation) THEN wrong \cup {cause} ELSE wrong
        /\ IF Wrong(v, expectation) THEN List(cause) ELSE UNCHANGED findings
  BY DEF Evaluate
<1>2. verdicts'[pair][x] = v /\ \A y \in Instances \ {x} : verdicts'[pair][y] = verdicts[pair][y]
  BY <1>1 DEF Honest, TypeOK
<1>3. ASSUME NEW y \in seen PROVE verdicts'[pair][y] = verdicts[pair][y]
  <2>1. y \in Instances /\ verdicts[pair][y] # None
    BY NoneAssumption DEF Honest, TypeOK, LaneVerdicts, Answers
  <2>2. y = x => v = verdicts[pair][x]
    BY <2>1 DEF VerdictsOn
  <2> QED
    BY <1>2, <2>1, <2>2
<1>4. CASE Wrong(v, expectation)
  <2>1. Len(findings) < MaxFindings /\ Listed' = Listed \cup {cause}
    BY <1>1, <1>4, ListLists DEF Honest, TypeOK
  <2> QED
    BY <1>1, <1>3, <1>4, <2>1
<1>5. CASE ~Wrong(v, expectation)
  <2>1. findings' = findings /\ Listed' = Listed /\ wrong' = wrong
    BY <1>1, <1>5 DEF Listed
  <2>2. ~Wrong(v, None)
    BY <1>5 DEF Wrong, Contradicts
  <2> QED
    BY <1>1, <1>2, <1>3, <2>1, <2>2
<1> QED
  BY <1>4, <1>5

LEMMA InitComplete == Init => Complete
BY DEF Init, Complete

LEMMA NextComplete == Honest /\ Complete /\ [Next]_vars => Complete'
<1> SUFFICES ASSUME Honest, Complete, [Next]_vars PROVE Complete'
  OBVIOUS
<1> USE DEF structural, differential, report
<1>0. /\ found \in Nat /\ drift \in Nat /\ MaxFindings \in Nat /\ MaxGate \in Nat
      /\ findings \in Seq(Causes)
  BY BudgetAssumption, BoundsAssumption DEF Honest, TypeOK
<1>1. ASSUME UNCHANGED <<findings, wrong>>,
             phase' # "lanes" \/ (phase = "lanes" /\ UNCHANGED <<seen, verdicts, pair>>)
      PROVE  Len(findings') < MaxFindings =>
               /\ \A cause \in wrong' : Answered(cause)'
               /\ phase' = "lanes" =>
                    \A x \in seen' : Wrong(verdicts'[pair'][x], None) => Noted(pair, x)'
  BY <1>1 DEF Complete, Answered, Noted, Listed
<1>2. ASSUME UNCHANGED structural, Len(findings') < MaxFindings =>
               /\ \A cause \in wrong' : Answered(cause)'
               /\ phase' = "lanes" =>
                    \A x \in seen' : Wrong(verdicts'[pair'][x], None) => Noted(pair, x)'
      PROVE  Complete'
  BY <1>2 DEF Complete
<1>3. CASE Audit
  <2>1. found' < MaxFindings => found' = drift'
    BY <1>0, <1>3 DEF Audit, Complete
  <2> QED
    BY <1>1, <1>3, <2>1 DEF Audit, Complete
<1>4. CASE CompareSchemas
  <2>1. PICK scope \in 0 .. MaxGate, differences \in 0 .. MaxGate :
          /\ found' = found + scope + Smaller(differences, Remaining(found + scope))
          /\ drift' = drift + scope + differences
    BY <1>4 DEF CompareSchemas
  <2>2. found = drift
    BY <1>4 DEF CompareSchemas, Complete
  <2>3. found' < MaxFindings => found' = drift'
    BY <1>0, <2>1, <2>2 DEF Smaller, Larger, Remaining
  <2>4. UNCHANGED <<findings, wrong>> /\ phase' # "lanes"
    BY <1>4 DEF CompareSchemas
  <2> QED
    BY <1>1, <2>3, <2>4 DEF Complete
<1>5. CASE EndSemantic
  <2>1. found' < MaxFindings => found' = drift'
    <3>1. CASE pair > Pairs
      <4>1. drift' = drift /\ found' = found
        BY <1>0, <1>5, <3>1 DEF EndSemantic
      <4> QED
        BY <4>1 DEF Complete
    <3>2. CASE found >= MaxFindings
      BY <1>0, <1>5, <3>2 DEF EndSemantic
    <3> QED
      BY <1>5, <3>1, <3>2 DEF EndSemantic
  <2> QED
    BY <1>1, <1>5, <2>1 DEF EndSemantic, Complete
<1>6. CASE SkipDifferential
  BY <1>1, <1>2, <1>6 DEF SkipDifferential
<1>7. CASE StartPair
  BY <1>7 DEF StartPair, Complete, Answered, Listed
<1>8. CASE SyntheticProbe
  <2>1. PICK x \in Instances :
          IF x \in seen
          THEN /\ wrong' = IF Wrong(verdicts[pair][x], None)
                           THEN wrong \cup {<<"synthetic", pair, x>>} ELSE wrong
               /\ UNCHANGED <<seen, verdicts, findings, refusals, divergences>>
          ELSE Evaluate(<<"synthetic", pair, x>>, x, None)
    BY <1>8 DEF SyntheticProbe
  <2>2. pair \in 1 .. Pairs /\ <<"synthetic", pair, x>> \in Causes
    BY <1>8 DEF SyntheticProbe, Honest, TypeOK, Causes
  <2>3. \A y \in seen : verdicts[pair][y] \in LaneVerdicts
    BY <1>8 DEF SyntheticProbe, Honest, Asked
  <2>4. phase = "lanes" /\ UNCHANGED <<structural, phase, pair>>
    BY <1>8 DEF SyntheticProbe
  <2>5. CASE x \in seen
    <3>1. UNCHANGED <<seen, verdicts, findings>> /\ Listed' = Listed
      BY <2>1, <2>5 DEF Listed
    <3>2. Len(findings) < MaxFindings /\ Wrong(verdicts[pair][x], None) =>
            Answered(<<"synthetic", pair, x>>)
      BY <2>4, <2>5 DEF Complete, Noted, Answered
    <3>3. Len(findings) < MaxFindings => \A cause \in wrong' : Answered(cause)
      BY <2>1, <2>5, <3>2 DEF Complete
    <3>4. Len(findings) < MaxFindings => \A cause \in wrong' : Answered(cause)'
      BY <3>1, <3>3 DEF Answered
    <3>5. Len(findings) < MaxFindings =>
            \A y \in seen' : Wrong(verdicts'[pair'][y], None) => Noted(pair, y)'
      BY <2>4, <3>1 DEF Complete, Noted
    <3> QED
      BY <1>2, <2>4, <3>1, <3>4, <3>5
  <2>6. CASE x \notin seen
    <3> SUFFICES ASSUME Len(findings') < MaxFindings
                 PROVE  /\ \A cause \in wrong' : Answered(cause)'
                        /\ \A y \in seen' : Wrong(verdicts'[pair'][y], None) => Noted(pair, y)'
      BY <1>2, <2>4
    <3>1. /\ Len(findings) < MaxFindings /\ Listed \subseteq Listed'
          /\ \A c \in wrong' : c \in wrong \/ c \in Listed'
          /\ seen' = seen \cup {x}
          /\ \A y \in seen : verdicts'[pair][y] = verdicts[pair][y]
          /\ Wrong(verdicts'[pair][x], None) => <<"synthetic", pair, x>> \in Listed'
      BY <2>1, <2>2, <2>3, <2>6, EvaluateLists
    <3>2. \A cause \in wrong' : Answered(cause)'
      BY <3>1 DEF Complete, Answered
    <3>3. \A y \in seen' : Wrong(verdicts'[pair'][y], None) => Noted(pair, y)'
      BY <2>4, <3>1 DEF Complete, Noted, Wrong, Refused, Diverges, Contradicts
    <3> QED
      BY <3>2, <3>3
  <2> QED
    BY <2>5, <2>6
<1>9. CASE DeclaredProbe
  <2>1. PICK x \in Instances : Evaluate(<<"declared", pair, x>>, x, "accept")
    BY <1>9 DEF DeclaredProbe
  <2>2. pair \in 1 .. Pairs /\ <<"declared", pair, x>> \in Causes
    BY <1>9 DEF DeclaredProbe, Honest, TypeOK, Causes
  <2>3. \A y \in seen : verdicts[pair][y] \in LaneVerdicts
    BY <1>9 DEF DeclaredProbe, Honest, Asked
  <2>4. phase = "lanes" /\ UNCHANGED <<structural, phase, pair>>
    BY <1>9 DEF DeclaredProbe
  <2> SUFFICES ASSUME Len(findings') < MaxFindings
               PROVE  /\ \A cause \in wrong' : Answered(cause)'
                      /\ \A y \in seen' : Wrong(verdicts'[pair'][y], None) => Noted(pair, y)'
    BY <1>2, <2>4
  <2>5. /\ Len(findings) < MaxFindings /\ Listed \subseteq Listed'
        /\ \A c \in wrong' : c \in wrong \/ c \in Listed'
        /\ seen' = seen \cup {x}
        /\ \A y \in seen : verdicts'[pair][y] = verdicts[pair][y]
        /\ Wrong(verdicts'[pair][x], None) => <<"declared", pair, x>> \in Listed'
    BY <2>1, <2>2, <2>3, EvaluateLists
  <2>6. \A cause \in wrong' : Answered(cause)'
    BY <2>5 DEF Complete, Answered
  <2>7. \A y \in seen' : Wrong(verdicts'[pair'][y], None) => Noted(pair, y)'
    BY <2>4, <2>5 DEF Complete, Noted, Wrong, Refused, Diverges, Contradicts
  <2> QED
    BY <2>6, <2>7
<1>10. CASE EndLanes
  BY <1>1, <1>2, <1>10 DEF EndLanes
<1>11. CASE FixtureProbe
  <2>1. PICK q \in queue : Evaluate(<<"fixture", pair, q[1]>>, q[1].instance, q[1].expectation)
    BY <1>11 DEF FixtureProbe
  <2>2. q[1] \in Fixtures /\ q[1].instance \in Instances
    BY FixturesAssumption DEF Honest, TypeOK
  <2>3. pair \in 1 .. Pairs /\ <<"fixture", pair, q[1]>> \in Causes
    BY <1>11, <2>2 DEF FixtureProbe, Honest, TypeOK, Causes
  <2>4. \A y \in seen : verdicts[pair][y] \in LaneVerdicts
    BY <1>11 DEF FixtureProbe, Honest, Asked
  <2>5. phase' # "lanes" /\ UNCHANGED structural
    BY <1>11 DEF FixtureProbe
  <2> SUFFICES ASSUME Len(findings') < MaxFindings
               PROVE  \A cause \in wrong' : Answered(cause)'
    BY <1>2, <2>5
  <2>6. /\ Len(findings) < MaxFindings /\ Listed \subseteq Listed'
        /\ \A c \in wrong' : c \in wrong \/ c \in Listed'
    BY <2>1, <2>2, <2>3, <2>4, EvaluateLists
  <2> QED
    BY <2>6 DEF Complete, Answered
<1>12. CASE EndPair
  BY <1>1, <1>2, <1>12 DEF EndPair
<1>13. CASE UnknownFixture
  <2>1. PICK f \in corpus \ consumed :
          wrong' = wrong \cup {<<"unknown", f>>} /\ List(<<"unknown", f>>)
    BY <1>13 DEF UnknownFixture
  <2>2. Len(findings') < MaxFindings =>
          Len(findings) < MaxFindings /\ Listed' = Listed \cup {<<"unknown", f>>}
    BY <1>0, <2>1, ListLists
  <2>3. phase' # "lanes" /\ UNCHANGED structural
    BY <1>13 DEF UnknownFixture
  <2> QED
    BY <1>2, <2>1, <2>2, <2>3 DEF Complete, Answered
<1>14. CASE EndCorpus
  BY <1>1, <1>2, <1>14 DEF EndCorpus
<1>15. CASE Throw
  BY <1>1, <1>2, <1>15 DEF Throw
<1>16. CASE Report
  BY <1>1, <1>2, <1>16 DEF Report
<1>17. CASE UNCHANGED vars
  BY <1>1, <1>2, <1>17 DEF vars
<1> QED
  BY <1>3, <1>4, <1>5, <1>6, <1>7, <1>8, <1>9, <1>10, <1>11, <1>12, <1>13,
     <1>14, <1>15, <1>16, <1>17 DEF Next

(* A finished run whose lists stayed below the budget has listed every        *)
(* difference, and every wrong probe and fixture under its own cause.         *)
THEOREM NothingIsDropped == Spec => []CompleteBelowBudget
<1>1. Complete => CompleteBelowBudget
  BY DEF Complete, CompleteBelowBudget
<1> QED
  BY <1>1, InitComplete, NextComplete, RunIsHonest, PTL DEF Spec

-----------------------------------------------------------------------------
(* The counters of a pair against the verdicts on it.                         *)

(* An evaluated probe counts against its own pair, and just if its verdict is *)
(* a refusal or a divergence; on a second evaluation that is the verdict of   *)
(* the first.                                                                  *)
LEMMA EvaluateCounts ==
  ASSUME Honest, IndistinguishableIsEarned, pair \in 1 .. Pairs, NEW cause,
         NEW x \in Instances, NEW expectation, Evaluate(cause, x, expectation)
  PROVE  IndistinguishableIsEarned'
<1>1. PICK v \in VerdictsOn(x) :
        /\ verdicts' = [verdicts EXCEPT ![pair] = [verdicts[pair] EXCEPT ![x] = v]]
        /\ refusals' = [refusals EXCEPT ![pair] =
                          IF Refused(v) THEN refusals[pair] + 1 ELSE refusals[pair]]
        /\ divergences' = [divergences EXCEPT ![pair] =
                             IF Diverges(v) THEN divergences[pair] + 1 ELSE divergences[pair]]
  BY DEF Evaluate
<1>2. v # None /\ (verdicts[pair][x] = None \/ verdicts[pair][x] = v)
  BY NoneAssumption DEF VerdictsOn, LaneVerdicts, Answers
<1>3. ASSUME NEW p \in 1 .. Pairs, NEW y \in Instances
      PROVE  verdicts'[p][y] = IF p = pair /\ y = x THEN v ELSE verdicts[p][y]
  BY <1>1 DEF Honest, TypeOK
<1>4. ASSUME NEW p \in 1 .. Pairs
      PROVE  /\ (refusals'[p] = 0 /\ divergences'[p] = 0) <=>
                  /\ refusals[p] = 0 /\ divergences[p] = 0
                  /\ p = pair => ~Refused(v) /\ ~Diverges(v)
  <2>1. refusals[p] \in Nat /\ divergences[p] \in Nat
    BY DEF Honest, TypeOK
  <2>2. /\ refusals'[p] = IF p = pair /\ Refused(v) THEN refusals[p] + 1 ELSE refusals[p]
        /\ divergences'[p] = IF p = pair /\ Diverges(v) THEN divergences[p] + 1
                             ELSE divergences[p]
    BY <1>1 DEF Honest, TypeOK
  <2> QED
    BY <2>1, <2>2
<1>5. ASSUME NEW p \in 1 .. Pairs
      PROVE  (\A y \in Instances : verdicts'[p][y] # None =>
                ~Refused(verdicts'[p][y]) /\ ~Diverges(verdicts'[p][y]))
             <=> /\ \A y \in Instances : verdicts[p][y] # None =>
                      ~Refused(verdicts[p][y]) /\ ~Diverges(verdicts[p][y])
                 /\ p = pair => ~Refused(v) /\ ~Diverges(v)
  BY <1>2, <1>3
<1> QED
  BY <1>4, <1>5 DEF IndistinguishableIsEarned

(* The differential summary of a declaration is earned: no refusal and no     *)
(* divergence counted just when there was none.                               *)
THEOREM SummaryIsEarned == Spec => []IndistinguishableIsEarned
<1>1. Init => IndistinguishableIsEarned
  BY DEF Init, IndistinguishableIsEarned
<1>2. Honest /\ IndistinguishableIsEarned /\ [Next]_vars => IndistinguishableIsEarned'
  <2> SUFFICES ASSUME Honest, IndistinguishableIsEarned, [Next]_vars
               PROVE  IndistinguishableIsEarned'
    OBVIOUS
  <2> USE DEF structural, differential, report
  <2>1. ASSUME UNCHANGED <<verdicts, refusals, divergences>> PROVE IndistinguishableIsEarned'
    BY <2>1 DEF IndistinguishableIsEarned
  <2>2. CASE SyntheticProbe
    BY <2>1, <2>2, EvaluateCounts DEF SyntheticProbe, Honest, TypeOK
  <2>3. CASE DeclaredProbe
    BY <2>3, EvaluateCounts DEF DeclaredProbe, Honest, TypeOK
  <2>4. CASE FixtureProbe
    <3>1. PICK q \in queue : Evaluate(<<"fixture", pair, q[1]>>, q[1].instance, q[1].expectation)
      BY <2>4 DEF FixtureProbe
    <3>2. q[1].instance \in Instances /\ pair \in 1 .. Pairs
      BY <2>4, FixturesAssumption DEF FixtureProbe, Honest, TypeOK
    <3> QED
      BY <3>1, <3>2, EvaluateCounts
  <2> QED
    BY <2>1, <2>2, <2>3, <2>4
    DEF Next, Audit, CompareSchemas, EndSemantic, SkipDifferential, StartPair, EndLanes,
        EndPair, UnknownFixture, EndCorpus, Throw, Report, vars
<1> QED
  BY <1>1, <1>2, RunIsHonest, PTL DEF Spec

-----------------------------------------------------------------------------
(* Pointers, and induction over numbers as a fact about sets.                 *)

(* What holds of zero and of each successor holds of every number.          *)
LEMMA Induction ==
  ASSUME NEW good, 0 \in good, \A n \in Nat : n \in good => n + 1 \in good
  PROVE  \A n \in Nat : n \in good
<1> DEFINE bad == Nat \ good
<1> SUFFICES ASSUME bad # {} PROVE FALSE
  OBVIOUS
<1>1. PICK n \in bad : \A k \in bad : <<k, n>> \notin OpToRel(<, Nat)
  <2>1. bad \subseteq Nat
    OBVIOUS
  <2> HIDE DEF bad
  <2> QED
    BY <2>1, NatLessThanWellFounded, WFMin
<1>2. n \in Nat /\ n # 0
  OBVIOUS
<1>3. n - 1 \in Nat /\ n - 1 < n
  BY <1>2
<1>4. n - 1 \in good
  BY <1>1, <1>2, <1>3, Zenon DEF OpToRel
<1> QED
  BY <1>2, <1>3, <1>4

IsList(p) == \E S : p \in Seq(S)

(* A pointer and one step more.                                             *)
LEMMA Pointers ==
  ASSUME NEW p, IsList(p), NEW e
  PROVE  /\ IsList(<<>>) /\ Len(p) \in Nat /\ (Len(p) = 0 => p = <<>>)
         /\ IsList(Append(p, e)) /\ Len(Append(p, e)) = Len(p) + 1
         /\ Append(p, e)[Len(p) + 1] = e /\ \A k \in 1 .. Len(p) : Append(p, e)[k] = p[k]
         /\ Front(Append(p, e)) = p /\ Append(p, e) # <<>>
<1>1. PICK S : p \in Seq(S)
  BY DEF IsList
<1>2. /\ Len(p) \in Nat /\ (Len(p) = 0 => p = <<>>)
      /\ Len(Append(p, e)) = Len(p) + 1
      /\ Append(p, e)[Len(p) + 1] = e /\ \A k \in 1 .. Len(p) : Append(p, e)[k] = p[k]
      /\ Append(p, e) # <<>>
  BY <1>1
<1>3. Front(Append(p, e)) = p
  BY <1>1 DEF Front
<1>4. p \in Seq(S \cup {e}) /\ e \in S \cup {e}
  BY <1>1, SeqMonotonic
<1>5. Append(p, e) \in Seq(S \cup {e})
  BY <1>4
<1>6. <<>> \in Seq(S)
  OBVIOUS
<1> QED
  BY <1>2, <1>3, <1>5, <1>6 DEF IsList

(* followPointer walks a trail of schemas.                                    *)
Steer(at, e) == {Child(t, e) : t \in {t \in at : e \in Steps(t)}}
IsTrail(at, s, p) ==
  at = [k \in 0 .. Len(p) |-> IF k = 0 THEN {s} ELSE Steer(at[k - 1], p[k])]

LEMMA FollowsTrail ==
  ASSUME NEW s, NEW p, IsList(p)
  PROVE  \E at : IsTrail(at, s, p) /\ FollowPointer(s, p) = at[Len(p)]
<1> DEFINE Walked(n, at) ==
      at = [k \in 0 .. n |-> IF k = 0 THEN {s} ELSE Steer(at[k - 1], p[k])]
           good == {n \in Nat : \E at : Walked(n, at)}
<1>1. 0 \in good
  <2>1. Walked(0, [k \in 0 .. 0 |-> {s}])
    OBVIOUS
  <2> HIDE DEF Walked
  <2> QED
    BY <2>1
<1>2. ASSUME NEW n \in Nat, n \in good PROVE n + 1 \in good
  <2>1. PICK at : Walked(n, at)
    BY <1>2
  <2> DEFINE on == [k \in 0 .. n + 1 |-> IF k = n + 1 THEN Steer(at[n], p[k]) ELSE at[k]]
  <2>2. ASSUME NEW k \in 0 .. n + 1
        PROVE  on[k] = IF k = 0 THEN {s} ELSE Steer(on[k - 1], p[k])
    <3>1. CASE k = n + 1
      <4>1. k # 0 /\ k - 1 = n /\ n \in 0 .. n + 1 /\ n # n + 1
        BY <3>1
      <4>2. on[k] = Steer(at[n], p[k]) /\ on[n] = at[n]
        BY <3>1, <4>1
      <4> QED
        BY <4>1, <4>2
    <3>2. CASE k \in 0 .. n
      <4>1. on[k] = at[k] /\ (k # 0 => on[k - 1] = at[k - 1])
        BY <3>2
      <4>2. at[k] = IF k = 0 THEN {s} ELSE Steer(at[k - 1], p[k])
        BY <2>1, <3>2
      <4> HIDE DEF on
      <4> QED
        BY <4>1, <4>2
    <3> QED
      BY <3>1, <3>2
  <2>3. on = [k \in 0 .. n + 1 |-> on[k]]
    OBVIOUS
  <2> HIDE DEF on
  <2>4. Walked(n + 1, on)
    BY <2>2, <2>3
  <2> HIDE DEF Walked
  <2> QED
    BY <2>4
<1>3. Len(p) \in good
  <2>1. Len(p) \in Nat
    BY Pointers
  <2> HIDE DEF good
  <2> QED
    BY <1>1, <1>2, <2>1, Induction
<1>4. \E at : Walked(Len(p), at)
  <2> HIDE DEF Walked
  <2> QED
    BY <1>3
<1> DEFINE walk == CHOOSE at : Walked(Len(p), at)
<1>5. Walked(Len(p), walk)
  <2> HIDE DEF Walked
  <2> QED
    BY <1>4
<1>6. FollowPointer(s, p) = walk[Len(p)]
  BY DEF FollowPointer, Steer
<1> QED
  BY <1>5, <1>6 DEF IsTrail

(* The trail of a pointer, step by step.                                    *)
LEMMA TrailAt ==
  ASSUME NEW at, NEW s, NEW p, IsList(p), IsTrail(at, s, p)
  PROVE  at[0] = {s} /\ \A k \in 1 .. Len(p) : at[k] = Steer(at[k - 1], p[k])
<1>1. Len(p) \in Nat
  BY Pointers
<1>2. \A k \in 0 .. Len(p) : at[k] = IF k = 0 THEN {s} ELSE Steer(at[k - 1], p[k])
  BY Zenon DEF IsTrail
<1> QED
  BY <1>1, <1>2

(* Where the pointers of two trails agree, so do the trails.                  *)
Continues(a, s, p, m, b, t, q) ==
  /\ IsTrail(a, s, p) /\ IsList(p)
  /\ IsTrail(b, t, q) /\ IsList(q)
  /\ m \in Nat /\ a[m] = {t} /\ m + Len(q) <= Len(p)
  /\ \A i \in 1 .. Len(q) : p[m + i] = q[i]

LEMMA TrailsAgree ==
  ASSUME NEW a, NEW s, NEW p, NEW m, NEW b, NEW t, NEW q, Continues(a, s, p, m, b, t, q)
  PROVE  a[m + Len(q)] = b[Len(q)]
<1>0. /\ IsTrail(a, s, p) /\ IsList(p)
      /\ IsTrail(b, t, q) /\ IsList(q)
      /\ m \in Nat /\ a[m] = {t} /\ m + Len(q) <= Len(p)
      /\ \A i \in 1 .. Len(q) : p[m + i] = q[i]
  BY DEF Continues
<1> DEFINE good == {i \in Nat : i <= Len(q) => a[m + i] = b[i]}
<1>1. Len(p) \in Nat /\ Len(q) \in Nat
  BY <1>0, Pointers
<1>2. 0 \in good
  <2>1. b[0] = {t} /\ a[m + 0] = {t}
    BY <1>0, TrailAt
  <2> QED
    BY <2>1, Zenon
<1>3. ASSUME NEW i \in Nat, i \in good PROVE i + 1 \in good
  <2> SUFFICES ASSUME i + 1 <= Len(q) PROVE a[m + (i + 1)] = b[i + 1]
    OBVIOUS
  <2>1. a[m + i] = b[i] /\ p[m + (i + 1)] = q[i + 1]
    BY <1>0, <1>1, <1>3
  <2>2. /\ m + (i + 1) \in 1 .. Len(p) /\ (m + (i + 1)) - 1 = m + i
        /\ i + 1 \in 1 .. Len(q) /\ (i + 1) - 1 = i
    BY <1>0, <1>1
  <2>3. a[m + (i + 1)] = Steer(a[m + i], p[m + (i + 1)])
    BY <1>0, <2>2, TrailAt
  <2>4. b[i + 1] = Steer(b[i], q[i + 1])
    BY <1>0, <2>2, TrailAt
  <2> QED
    BY <2>1, <2>3, <2>4
<1>4. Len(q) \in good
  <2> HIDE DEF good
  <2> QED
    BY <1>1, <1>2, <1>3, Induction
<1> QED
  BY <1>4

(* The empty pointer leads to the schema itself.                            *)
LEMMA FollowRoot == \A s : FollowPointer(s, <<>>) = {s}
<1> SUFFICES ASSUME NEW s PROVE FollowPointer(s, <<>>) = {s}
  OBVIOUS
<1>1. IsList(<<>>) /\ Len(<<>>) = 0
  BY EmptySeq DEF IsList
<1>2. PICK at : IsTrail(at, s, <<>>) /\ FollowPointer(s, <<>>) = at[0]
  BY <1>1, FollowsTrail
<1> QED
  BY <1>1, <1>2 DEF IsTrail

(* One step more leads to the child it names.                               *)
LEMMA FollowStep ==
  ASSUME NEW s, NEW p, IsList(p), NEW e
  PROVE  FollowPointer(s, Append(p, e)) = Steer(FollowPointer(s, p), e)
<1> DEFINE q == Append(p, e)
<1>1. /\ IsList(q) /\ Len(p) \in Nat /\ Len(q) = Len(p) + 1 /\ q[Len(p) + 1] = e
      /\ \A k \in 1 .. Len(p) : q[k] = p[k]
  BY Pointers
<1> HIDE DEF q
<1>2. PICK a : IsTrail(a, s, q) /\ FollowPointer(s, q) = a[Len(q)]
  BY <1>1, FollowsTrail
<1>3. PICK b : IsTrail(b, s, p) /\ FollowPointer(s, p) = b[Len(p)]
  BY FollowsTrail
<1>4. a[0] = {s}
  BY <1>1, <1>2, TrailAt
<1>5. a[0 + Len(p)] = b[Len(p)]
  <2>1. Continues(a, s, q, 0, b, s, p)
    BY <1>1, <1>2, <1>3, <1>4 DEF Continues
  <2> QED
    BY <2>1, TrailsAgree
<1>6. a[Len(q)] = Steer(a[Len(p)], e)
  <2>1. \A k \in 1 .. Len(q) : a[k] = Steer(a[k - 1], q[k])
    BY <1>1, <1>2, TrailAt
  <2> QED
    BY <1>1, <2>1
<1> QED
  BY <1>1, <1>2, <1>3, <1>5, <1>6 DEF q

(* What a pointer leads to from where another led.                          *)
LEMMA FollowAfter ==
  ASSUME NEW s, NEW p, IsList(p), NEW q, IsList(q), NEW t, FollowPointer(s, p) = {t}
  PROVE  FollowPointer(s, p \o q) = FollowPointer(t, q)
<1> DEFINE r == p \o q
<1>1. /\ IsList(r) /\ Len(p) \in Nat /\ Len(q) \in Nat /\ Len(r) = Len(p) + Len(q)
      /\ \A k \in 1 .. Len(p) : r[k] = p[k]
      /\ \A k \in 1 .. Len(q) : r[Len(p) + k] = q[k]
  <2>1. PICK S, T : p \in Seq(S) /\ q \in Seq(T)
    BY DEF IsList
  <2>2. p \in Seq(S \cup T) /\ q \in Seq(S \cup T)
    BY <2>1, SeqMonotonic
  <2>3. /\ r \in Seq(S \cup T) /\ Len(p) \in Nat /\ Len(q) \in Nat /\ Len(r) = Len(p) + Len(q)
        /\ \A k \in 1 .. Len(p) + Len(q) : r[k] = IF k <= Len(p) THEN p[k] ELSE q[k - Len(p)]
    BY <2>2, ConcatProperties
  <2> HIDE DEF r
  <2> QED
    BY <2>3 DEF IsList
<1> HIDE DEF r
<1>2. PICK a : IsTrail(a, s, r) /\ FollowPointer(s, r) = a[Len(r)]
  BY <1>1, FollowsTrail
<1>3. PICK b : IsTrail(b, s, p) /\ FollowPointer(s, p) = b[Len(p)]
  BY FollowsTrail
<1>4. PICK c : IsTrail(c, t, q) /\ FollowPointer(t, q) = c[Len(q)]
  BY FollowsTrail
<1>5. a[0] = {s}
  BY <1>1, <1>2, TrailAt
<1>6. a[0 + Len(p)] = b[Len(p)]
  <2>1. Continues(a, s, r, 0, b, s, p)
    BY <1>1, <1>2, <1>3, <1>5 DEF Continues
  <2> QED
    BY <2>1, TrailsAgree
<1>7. a[Len(p)] = {t}
  BY <1>1, <1>3, <1>6
<1>8. a[Len(p) + Len(q)] = c[Len(q)]
  <2>1. Continues(a, s, r, Len(p), c, t, q)
    BY <1>1, <1>2, <1>4, <1>7 DEF Continues
  <2> QED
    BY <2>1, TrailsAgree
<1> QED
  BY <1>1, <1>2, <1>4, <1>8 DEF r

-----------------------------------------------------------------------------
(* Bases by place.                                                            *)

IsScopes(b, number, document, p) ==
  b = [k \in 0 .. Len(p) |-> Scope(SubschemaAt(document.schema, SubSeq(p, 1, k)),
                                   IF k = 0 THEN FallbackBase(number, document) ELSE b[k - 1])]

(* The bases of a pointer, from the root on.                                *)
LEMMA ScopesExist ==
  ASSUME NEW number, NEW document, NEW p, IsList(p)
  PROVE  \E b : IsScopes(b, number, document, p) /\ ScopeAt(number, document, p) = b[Len(p)]
<1> DEFINE Known(k, above) ==
      Scope(SubschemaAt(document.schema, SubSeq(p, 1, k)),
            IF k = 0 THEN FallbackBase(number, document) ELSE above)
           Walked(n, b) == b = [k \in 0 .. n |-> Known(k, b[k - 1])]
           good == {n \in Nat : \E b : Walked(n, b)}
<1> HIDE DEF Known
<1>0. \A a, c : Known(0, a) = Known(0, c)
  BY DEF Known
<1>1. 0 \in good
  <2>1. Walked(0, [k \in 0 .. 0 |-> Known(0, 0)])
    BY <1>0
  <2> HIDE DEF Walked
  <2> QED
    BY <2>1
<1>2. ASSUME NEW n \in Nat, n \in good PROVE n + 1 \in good
  <2>1. PICK b : Walked(n, b)
    BY <1>2
  <2> DEFINE on == [k \in 0 .. n + 1 |-> IF k = n + 1 THEN Known(k, b[n]) ELSE b[k]]
  <2>2. ASSUME NEW k \in 0 .. n + 1
        PROVE  on[k] = Known(k, on[k - 1])
    <3>1. CASE k = n + 1
      <4>1. k - 1 = n /\ n \in 0 .. n + 1 /\ n # n + 1
        BY <3>1
      <4>2. on[k] = Known(k, b[n]) /\ on[n] = b[n]
        BY <3>1, <4>1
      <4> QED
        BY <4>1, <4>2
    <3>2. CASE k \in 0 .. n
      <4>1. on[k] = b[k] /\ (k # 0 => on[k - 1] = b[k - 1])
        BY <3>2
      <4>2. b[k] = Known(k, b[k - 1])
        BY <2>1, <3>2
      <4> HIDE DEF on
      <4> QED
        BY <1>0, <4>1, <4>2
    <3> QED
      BY <3>1, <3>2
  <2>3. on = [k \in 0 .. n + 1 |-> on[k]]
    OBVIOUS
  <2> HIDE DEF on
  <2>4. Walked(n + 1, on)
    BY <2>2, <2>3
  <2> HIDE DEF Walked
  <2> QED
    BY <2>4
<1>3. Len(p) \in good
  <2>1. Len(p) \in Nat
    BY Pointers
  <2> HIDE DEF good
  <2> QED
    BY <1>1, <1>2, <2>1, Induction
<1>4. \E b : Walked(Len(p), b)
  <2> HIDE DEF Walked
  <2> QED
    BY <1>3
<1> DEFINE walk == CHOOSE b : Walked(Len(p), b)
<1>5. Walked(Len(p), walk)
  <2> HIDE DEF Walked
  <2> QED
    BY <1>4
<1>6. ScopeAt(number, document, p) = walk[Len(p)]
  BY DEF ScopeAt, Known
<1> QED
  BY <1>5, <1>6 DEF IsScopes, Known

(* The same, step by step.                                                  *)
LEMMA ScopesAt ==
  ASSUME NEW number, NEW document, NEW p, IsList(p), NEW b, IsScopes(b, number, document, p)
  PROVE  /\ b[0] = Scope(SubschemaAt(document.schema, SubSeq(p, 1, 0)), FallbackBase(number, document))
         /\ \A k \in 1 .. Len(p) :
              b[k] = Scope(SubschemaAt(document.schema, SubSeq(p, 1, k)), b[k - 1])
<1>1. Len(p) \in Nat
  BY Pointers
<1>2. \A k \in 0 .. Len(p) :
        b[k] = Scope(SubschemaAt(document.schema, SubSeq(p, 1, k)),
                     IF k = 0 THEN FallbackBase(number, document) ELSE b[k - 1])
  BY Zenon DEF IsScopes
<1> QED
  BY <1>1, <1>2

(* A scope is the $id applied to the base around it.                          *)
LEMMA ScopeIsApplied ==
  ASSUME NEW number, NEW document, NEW p, IsList(p)
  PROVE  ScopeAt(number, document, p) =
           Scope(SubschemaAt(document.schema, p), BaseAround(number, document, p))
<1>1. PICK b : IsScopes(b, number, document, p) /\ ScopeAt(number, document, p) = b[Len(p)]
  BY ScopesExist
<1>2. PICK S : p \in Seq(S)
  BY DEF IsList
<1>3. Len(p) \in Nat /\ SubSeq(p, 1, Len(p)) = p
  BY <1>2
<1>4. /\ b[0] = Scope(SubschemaAt(document.schema, SubSeq(p, 1, 0)), FallbackBase(number, document))
      /\ \A k \in 1 .. Len(p) :
           b[k] = Scope(SubschemaAt(document.schema, SubSeq(p, 1, k)), b[k - 1])
  BY <1>1, ScopesAt
<1>5. CASE p = <<>>
  <2>1. Len(p) = 0
    BY <1>5
  <2> QED
    BY <1>1, <1>3, <1>4, <1>5, <2>1 DEF BaseAround
<1>6. CASE p # <<>>
  <2> DEFINE q == Front(p)
  <2>1. /\ q \in Seq(S) /\ Len(q) = Len(p) - 1 /\ Len(p) # 0 /\ Len(q) \in Nat
        /\ \A k \in 0 .. Len(q) : SubSeq(q, 1, k) = SubSeq(p, 1, k)
    <3>1. Len(p) # 0
      BY <1>2, <1>6
    <3>2. /\ q \in Seq(S) /\ Len(q) = Len(p) - 1 /\ \A i \in 1 .. Len(q) : q[i] = p[i]
      BY <1>2, <1>3, <3>1 DEF Front
    <3>3. ASSUME NEW k \in 0 .. Len(q) PROVE SubSeq(q, 1, k) = SubSeq(p, 1, k)
      BY <1>2, <1>3, <3>2, <3>3
    <3> QED
      BY <1>3, <3>1, <3>2, <3>3
  <2>2. IsList(q)
    BY <2>1 DEF IsList
  <2> HIDE DEF q
  <2>3. PICK c : IsScopes(c, number, document, q) /\ ScopeAt(number, document, q) = c[Len(q)]
    BY <2>2, ScopesExist
  <2>8. /\ c[0] = Scope(SubschemaAt(document.schema, SubSeq(q, 1, 0)), FallbackBase(number, document))
        /\ \A k \in 1 .. Len(q) :
             c[k] = Scope(SubschemaAt(document.schema, SubSeq(q, 1, k)), c[k - 1])
    BY <2>2, <2>3, ScopesAt
  <2> DEFINE good == {k \in Nat : k <= Len(q) => b[k] = c[k]}
  <2>4. 0 \in good
    <3>1. 0 \in 0 .. Len(q)
      BY <2>1
    <3>2. SubSeq(q, 1, 0) = SubSeq(p, 1, 0)
      BY <2>1, <3>1
    <3> QED
      BY <1>4, <2>8, <3>2
  <2>5. ASSUME NEW k \in Nat, k \in good PROVE k + 1 \in good
    <3> SUFFICES ASSUME k + 1 <= Len(q) PROVE b[k + 1] = c[k + 1]
      OBVIOUS
    <3>1. k + 1 \in 1 .. Len(p) /\ k + 1 \in 0 .. Len(q) /\ k + 1 \in 1 .. Len(q) /\ (k + 1) - 1 = k
      BY <1>3, <2>1
    <3>2. SubSeq(q, 1, k + 1) = SubSeq(p, 1, k + 1) /\ b[k] = c[k]
      BY <2>1, <2>5, <3>1
    <3>3. /\ b[k + 1] = Scope(SubschemaAt(document.schema, SubSeq(p, 1, k + 1)), b[k])
          /\ c[k + 1] = Scope(SubschemaAt(document.schema, SubSeq(q, 1, k + 1)), c[k])
      BY <1>4, <2>8, <3>1
    <3> QED
      BY <3>2, <3>3
  <2>6. Len(q) \in good
    <3> HIDE DEF good
    <3> QED
      BY <2>1, <2>4, <2>5, Induction
  <2>7. b[Len(q)] = c[Len(q)]
    BY <2>1, <2>6
  <2>9. b[Len(p)] = Scope(SubschemaAt(document.schema, p), b[Len(q)])
    <3>1. Len(p) \in 1 .. Len(p) /\ Len(p) - 1 = Len(q)
      BY <1>3, <2>1
    <3>2. b[Len(p)] = Scope(SubschemaAt(document.schema, SubSeq(p, 1, Len(p))), b[Len(p) - 1])
      BY <1>4, <3>1, Zenon
    <3> QED
      BY <1>3, <3>1, <3>2
  <2>10. BaseAround(number, document, p) = ScopeAt(number, document, q)
    BY <1>6 DEF BaseAround, q
  <2> QED
    BY <1>1, <2>3, <2>7, <2>9, <2>10
<1> QED
  BY <1>5, <1>6

-----------------------------------------------------------------------------
(* The locations of a document, and what the traversal visits.                *)

Onward(s, ps) ==
  UNION {{Append(p, step) : step \in UNION {Steps(t) : t \in FollowPointer(s, p)}} : p \in ps}
IsPointerLevels(of, s) ==
  /\ of[0] = {<<>>}
  /\ \A k \in 1 .. MaxNesting : of[k] = Onward(s, of[k - 1])

(* The pointers of a schema, by their length.                               *)
LEMMA PointerLevelsExist ==
  ASSUME NEW s
  PROVE  \E of : IsPointerLevels(of, s) /\ PointersIn(s) = UNION {of[k] : k \in 0 .. MaxNesting}
<1> DEFINE Known(k, above) == IF k = 0 THEN {<<>>} ELSE Onward(s, above)
           Walked(n, of) == of = [k \in 0 .. n |-> Known(k, of[k - 1])]
           good == {n \in Nat : \E of : Walked(n, of)}
<1> HIDE DEF Known
<1>0. \A a, c : Known(0, a) = Known(0, c)
  BY DEF Known
<1>1. 0 \in good
  <2>1. Walked(0, [k \in 0 .. 0 |-> Known(0, 0)])
    BY <1>0
  <2> HIDE DEF Walked
  <2> QED
    BY <2>1
<1>2. ASSUME NEW n \in Nat, n \in good PROVE n + 1 \in good
  <2>1. PICK of : Walked(n, of)
    BY <1>2
  <2> DEFINE on == [k \in 0 .. n + 1 |-> IF k = n + 1 THEN Known(k, of[n]) ELSE of[k]]
  <2>2. ASSUME NEW k \in 0 .. n + 1
        PROVE  on[k] = Known(k, on[k - 1])
    <3>1. CASE k = n + 1
      <4>1. k - 1 = n /\ n \in 0 .. n + 1 /\ n # n + 1
        BY <3>1
      <4>2. on[k] = Known(k, of[n]) /\ on[n] = of[n]
        BY <3>1, <4>1
      <4> QED
        BY <4>1, <4>2
    <3>2. CASE k \in 0 .. n
      <4>1. on[k] = of[k] /\ (k # 0 => on[k - 1] = of[k - 1])
        BY <3>2
      <4>2. of[k] = Known(k, of[k - 1])
        BY <2>1, <3>2
      <4> HIDE DEF on
      <4> QED
        BY <1>0, <4>1, <4>2
    <3> QED
      BY <3>1, <3>2
  <2>3. on = [k \in 0 .. n + 1 |-> on[k]]
    OBVIOUS
  <2> HIDE DEF on
  <2>4. Walked(n + 1, on)
    BY <2>2, <2>3
  <2> HIDE DEF Walked
  <2> QED
    BY <2>4
<1>3. MaxNesting \in good
  <2>1. MaxNesting \in Nat
    BY NestingAssumption
  <2> HIDE DEF good
  <2> QED
    BY <1>1, <1>2, <2>1, Induction
<1>4. \E of : Walked(MaxNesting, of)
  <2> HIDE DEF Walked
  <2> QED
    BY <1>3
<1> DEFINE walk == CHOOSE of : Walked(MaxNesting, of)
<1>5. Walked(MaxNesting, walk)
  <2> HIDE DEF Walked
  <2> QED
    BY <1>4
<1>6. PointersIn(s) = UNION {walk[k] : k \in 0 .. MaxNesting}
  BY DEF PointersIn, Known, Onward
<1> HIDE DEF walk
<1>7. MaxNesting \in Nat
  BY NestingAssumption
<1>8. \A k \in 0 .. MaxNesting : walk[k] = Known(k, walk[k - 1])
  BY <1>5, Zenon
<1>9. IsPointerLevels(walk, s)
  BY <1>7, <1>8 DEF IsPointerLevels, Known
<1> QED
  BY <1>6, <1>9

Subvisits(visits) == UNION {Under(v) : v \in visits}
IsVisitLevels(level, s, base) ==
  /\ level[0] = {Visit(<<>>, s, base)}
  /\ \A k \in 1 .. MaxNesting : level[k] = Subvisits(level[k - 1])

(* The visits of #register, by the length of their pointers.                *)
LEMMA VisitLevelsExist ==
  ASSUME NEW s, NEW base
  PROVE  \E level : /\ IsVisitLevels(level, s, base)
                    /\ Visits(s, base) = UNION {level[k] : k \in 0 .. MaxNesting}
<1> DEFINE Known(k, above) ==
      IF k = 0 THEN {Visit(<<>>, s, base)} ELSE Subvisits(above)
           Walked(n, of) == of = [k \in 0 .. n |-> Known(k, of[k - 1])]
           good == {n \in Nat : \E of : Walked(n, of)}
<1> HIDE DEF Known
<1>0. \A a, c : Known(0, a) = Known(0, c)
  BY DEF Known
<1>1. 0 \in good
  <2>1. Walked(0, [k \in 0 .. 0 |-> Known(0, 0)])
    BY <1>0
  <2> HIDE DEF Walked
  <2> QED
    BY <2>1
<1>2. ASSUME NEW n \in Nat, n \in good PROVE n + 1 \in good
  <2>1. PICK of : Walked(n, of)
    BY <1>2
  <2> DEFINE on == [k \in 0 .. n + 1 |-> IF k = n + 1 THEN Known(k, of[n]) ELSE of[k]]
  <2>2. ASSUME NEW k \in 0 .. n + 1
        PROVE  on[k] = Known(k, on[k - 1])
    <3>1. CASE k = n + 1
      <4>1. k - 1 = n /\ n \in 0 .. n + 1 /\ n # n + 1
        BY <3>1
      <4>2. on[k] = Known(k, of[n]) /\ on[n] = of[n]
        BY <3>1, <4>1
      <4> QED
        BY <4>1, <4>2
    <3>2. CASE k \in 0 .. n
      <4>1. on[k] = of[k] /\ (k # 0 => on[k - 1] = of[k - 1])
        BY <3>2
      <4>2. of[k] = Known(k, of[k - 1])
        BY <2>1, <3>2
      <4> HIDE DEF on
      <4> QED
        BY <1>0, <4>1, <4>2
    <3> QED
      BY <3>1, <3>2
  <2>3. on = [k \in 0 .. n + 1 |-> on[k]]
    OBVIOUS
  <2> HIDE DEF on
  <2>4. Walked(n + 1, on)
    BY <2>2, <2>3
  <2> HIDE DEF Walked
  <2> QED
    BY <2>4
<1>3. MaxNesting \in good
  <2>1. MaxNesting \in Nat
    BY NestingAssumption
  <2> HIDE DEF good
  <2> QED
    BY <1>1, <1>2, <2>1, Induction
<1>4. \E of : Walked(MaxNesting, of)
  <2> HIDE DEF Walked
  <2> QED
    BY <1>3
<1> DEFINE walk == CHOOSE of : Walked(MaxNesting, of)
<1>5. Walked(MaxNesting, walk)
  <2> HIDE DEF Walked
  <2> QED
    BY <1>4
<1>6. Visits(s, base) = UNION {walk[k] : k \in 0 .. MaxNesting}
  BY DEF Visits, Known, Subvisits
<1> HIDE DEF walk
<1>7. MaxNesting \in Nat
  BY NestingAssumption
<1>8. \A k \in 0 .. MaxNesting : walk[k] = Known(k, walk[k - 1])
  BY <1>5, Zenon
<1>9. IsVisitLevels(walk, s, base)
  BY <1>7, <1>8 DEF IsVisitLevels, Known
<1> QED
  BY <1>6, <1>9

(* A pointer among those of a schema leads to one subschema.                  *)
LEMMA PointerLevels ==
  ASSUME NEW s, NEW of, IsPointerLevels(of, s)
  PROVE  \A k \in 0 .. MaxNesting : \A p \in of[k] :
           IsList(p) /\ Len(p) = k /\ FollowPointer(s, p) = {SubschemaAt(s, p)}
<1> DEFINE Fine(p) == FollowPointer(s, p) = {SubschemaAt(s, p)}
           good == {k \in Nat : k <= MaxNesting =>
                      \A p \in of[k] : IsList(p) /\ Len(p) = k /\ Fine(p)}
<1>1. MaxNesting \in Nat
  BY NestingAssumption
<1>2. ASSUME NEW p, NEW t, FollowPointer(s, p) = {t} PROVE Fine(p)
  BY <1>2 DEF SubschemaAt
<1> HIDE DEF Fine
<1>3. 0 \in good
  <2>1. of[0] = {<<>>}
    BY DEF IsPointerLevels
  <2>2. Fine(<<>>)
    BY <1>2, FollowRoot
  <2>3. IsList(<<>>) /\ Len(<<>>) = 0
    BY EmptySeq DEF IsList
  <2> QED
    BY <2>1, <2>2, <2>3
<1>4. ASSUME NEW k \in Nat, k \in good PROVE k + 1 \in good
  <2> SUFFICES ASSUME k + 1 <= MaxNesting, NEW q \in of[k + 1]
               PROVE  IsList(q) /\ Len(q) = k + 1 /\ Fine(q)
    OBVIOUS
  <2>1. of[k + 1] = Onward(s, of[k])
    <3>1. k + 1 \in 1 .. MaxNesting /\ (k + 1) - 1 = k
      BY <1>1
    <3> QED
      BY <3>1 DEF IsPointerLevels
  <2>2. PICK p, t, e : p \in of[k] /\ t \in FollowPointer(s, p) /\ e \in Steps(t) /\ q = Append(p, e)
    BY <2>1 DEF Onward
  <2>3. IsList(p) /\ Len(p) = k /\ Fine(p)
    <3>1. \A r \in of[k] : IsList(r) /\ Len(r) = k /\ Fine(r)
      BY <1>1, <1>4
    <3> QED
      BY <2>2, <3>1
  <2>4. IsList(q) /\ Len(q) = k + 1
    BY <2>2, <2>3, Pointers
  <2>5. FollowPointer(s, q) = {Child(t, e)}
    <3>1. FollowPointer(s, p) = {t}
      BY <2>2, <2>3 DEF Fine
    <3> QED
      BY <2>2, <2>3, <3>1, FollowStep DEF Steer
  <2> QED
    BY <1>2, <2>4, <2>5
<1> HIDE DEF good
<1>5. \A k \in Nat : k \in good
  BY <1>3, <1>4, Induction
<1> QED
  BY <1>1, <1>5 DEF good, Fine

(* The same without the levels.                                             *)
LEMMA PointerFacts ==
  ASSUME NEW s, NEW p \in PointersIn(s)
  PROVE  /\ IsList(p) /\ Len(p) \in 0 .. MaxNesting
         /\ FollowPointer(s, p) = {SubschemaAt(s, p)}
<1>1. PICK of : IsPointerLevels(of, s) /\ PointersIn(s) = UNION {of[k] : k \in 0 .. MaxNesting}
  BY PointerLevelsExist
<1>2. PICK k \in 0 .. MaxNesting : p \in of[k]
  BY <1>1
<1> QED
  BY <1>1, <1>2, PointerLevels

(* Every pointer comes from the one before it.                                *)
LEMMA PointerInduction ==
  ASSUME NEW s, NEW good, <<>> \in PointersIn(s) => <<>> \in good,
         \A p \in PointersIn(s) : \A e \in Steps(SubschemaAt(s, p)) :
           p \in good /\ Append(p, e) \in PointersIn(s) => Append(p, e) \in good
  PROVE  <<>> \in PointersIn(s) /\ PointersIn(s) \subseteq good
<1>1. PICK of : IsPointerLevels(of, s) /\ PointersIn(s) = UNION {of[k] : k \in 0 .. MaxNesting}
  BY PointerLevelsExist
<1>2. MaxNesting \in Nat /\ of[0] = {<<>>}
  BY <1>1, NestingAssumption DEF IsPointerLevels
<1>3. \A k \in 0 .. MaxNesting : of[k] \subseteq PointersIn(s)
  BY <1>1
<1> DEFINE fine == {k \in Nat : k <= MaxNesting => of[k] \subseteq good}
<1>4. <<>> \in PointersIn(s)
  <2>1. 0 \in 0 .. MaxNesting
    BY <1>2
  <2> QED
    BY <1>2, <1>3, <2>1
<1>5. 0 \in fine
  BY <1>2, <1>4
<1>6. ASSUME NEW k \in Nat, k \in fine PROVE k + 1 \in fine
  <2> SUFFICES ASSUME k + 1 <= MaxNesting, NEW q \in of[k + 1] PROVE q \in good
    OBVIOUS
  <2>1. k + 1 \in 1 .. MaxNesting /\ (k + 1) - 1 = k /\ k \in 0 .. MaxNesting
    BY <1>2
  <2>2. of[k + 1] = Onward(s, of[k])
    BY <1>1, <2>1 DEF IsPointerLevels
  <2>3. PICK p, t, e : p \in of[k] /\ t \in FollowPointer(s, p) /\ e \in Steps(t) /\ q = Append(p, e)
    BY <2>2 DEF Onward
  <2>4. p \in PointersIn(s) /\ p \in good /\ q \in PointersIn(s)
    <3>1. k + 1 \in 0 .. MaxNesting
      BY <1>2
    <3>2. of[k] \subseteq good
      BY <1>6, <2>1
    <3> QED
      BY <1>3, <2>1, <2>3, <3>1, <3>2
  <2>5. t = SubschemaAt(s, p)
    BY <2>3, <2>4, PointerFacts
  <2> QED
    BY <2>3, <2>4, <2>5
<1> HIDE DEF fine
<1>7. \A k \in Nat : k \in fine
  BY <1>5, <1>6, Induction
<1>8. \A k \in 0 .. MaxNesting : of[k] \subseteq good
  BY <1>2, <1>7 DEF fine
<1> QED
  BY <1>1, <1>4, <1>8

(* The traversal visits every location, with the base around it.              *)
VisitAt(number, document, p) ==
  Visit(p, SubschemaAt(document.schema, p), BaseAround(number, document, p))

LEMMA VisitsAreLocations ==
  ASSUME NEW number, NEW document
  PROVE  Visits(document.schema, FallbackBase(number, document)) =
           {VisitAt(number, document, p) : p \in PointersIn(document.schema)}
<1> DEFINE s == document.schema
           base == FallbackBase(number, document)
           At(p) == VisitAt(number, document, p)
<1>1. PICK of : IsPointerLevels(of, s) /\ PointersIn(s) = UNION {of[k] : k \in 0 .. MaxNesting}
  BY PointerLevelsExist
<1>2. PICK level : /\ IsVisitLevels(level, s, base)
                   /\ Visits(s, base) = UNION {level[k] : k \in 0 .. MaxNesting}
  BY VisitLevelsExist
<1>3. MaxNesting \in Nat
  BY NestingAssumption
<1> DEFINE good == {k \in Nat : k <= MaxNesting => level[k] = {At(p) : p \in of[k]}}
<1>4. 0 \in good
  <2>1. of[0] = {<<>>} /\ level[0] = {Visit(<<>>, s, base)}
    BY <1>1, <1>2 DEF IsPointerLevels, IsVisitLevels
  <2>2. At(<<>>) = Visit(<<>>, s, base)
    BY FollowRoot DEF VisitAt, SubschemaAt, BaseAround
  <2> QED
    BY <2>1, <2>2
<1>5. ASSUME NEW k \in Nat, k \in good PROVE k + 1 \in good
  <2> SUFFICES ASSUME k + 1 <= MaxNesting PROVE level[k + 1] = {At(p) : p \in of[k + 1]}
    OBVIOUS
  <2>1. k + 1 \in 1 .. MaxNesting /\ (k + 1) - 1 = k /\ k \in 0 .. MaxNesting
    BY <1>3
  <2>2. of[k + 1] = Onward(s, of[k]) /\ level[k + 1] = Subvisits(level[k])
    BY <1>1, <1>2, <2>1 DEF IsPointerLevels, IsVisitLevels
  <2>3. level[k] = {At(p) : p \in of[k]}
    BY <1>5, <2>1
  <2>4. ASSUME NEW p \in of[k]
        PROVE  /\ Under(At(p)) = {At(Append(p, e)) : e \in Steps(SubschemaAt(s, p))}
               /\ FollowPointer(s, p) = {SubschemaAt(s, p)}
    <3> DEFINE t == SubschemaAt(s, p)
    <3>1. IsList(p) /\ FollowPointer(s, p) = {t}
      BY <1>1, <2>1, PointerLevels
    <3>2. Scope(t, BaseAround(number, document, p)) = ScopeAt(number, document, p)
      BY <3>1, ScopeIsApplied
    <3>3. ASSUME NEW e \in Steps(t)
          PROVE  At(Append(p, e)) = Visit(Append(p, e), Child(t, e), ScopeAt(number, document, p))
      <4>1. FollowPointer(s, Append(p, e)) = {Child(t, e)}
        BY <3>1, FollowStep DEF Steer
      <4>2. SubschemaAt(s, Append(p, e)) = Child(t, e)
        BY <4>1 DEF SubschemaAt
      <4>3. BaseAround(number, document, Append(p, e)) = ScopeAt(number, document, p)
        BY <3>1, Pointers DEF BaseAround
      <4> QED
        BY <4>2, <4>3 DEF VisitAt
    <3>4. At(p).pointer = p /\ At(p).schema = t /\ At(p).base = BaseAround(number, document, p)
      BY DEF VisitAt, Visit
    <3>5. Under(At(p)) = {Visit(Append(p, e), Child(t, e), ScopeAt(number, document, p)) : e \in Steps(t)}
      BY <3>2, <3>4 DEF Under
    <3> QED
      BY <3>1, <3>3, <3>5
  <2> HIDE DEF At, s, base
  <2>5. \A q : q \in of[k + 1] <=>
                 \E p \in of[k] : \E e \in Steps(SubschemaAt(s, p)) : q = Append(p, e)
    BY <2>2, <2>4 DEF Onward
  <2>6. \A v : v \in level[k + 1] <=> \E p \in of[k] : v \in Under(At(p))
    BY <2>2, <2>3, Zenon DEF Subvisits
  <2>7. \A v : v \in level[k + 1] <=>
                 \E p \in of[k] : \E e \in Steps(SubschemaAt(s, p)) : v = At(Append(p, e))
    BY <2>4, <2>6
  <2>8. \A v : v \in level[k + 1] <=> \E q \in of[k + 1] : v = At(q)
    BY <2>5, <2>7, Zenon
  <2>9. \A v : v \in level[k + 1] <=> v \in {At(q) : q \in of[k + 1]}
    BY <2>8
  <2>10. level[k + 1] = UNION {Under(v) : v \in level[k]}
    BY <2>2 DEF Subvisits
  <2> QED
    BY <2>9, <2>10
<1> HIDE DEF good
<1>6. \A k \in Nat : k \in good
  BY <1>4, <1>5, Induction
<1>7. \A k \in 0 .. MaxNesting : level[k] = {At(p) : p \in of[k]}
  BY <1>3, <1>6 DEF good
<1> HIDE DEF At
<1>8. Visits(s, base) = {At(p) : p \in PointersIn(s)}
  BY <1>1, <1>2, <1>7
<1> QED
  BY <1>8 DEF At

-----------------------------------------------------------------------------
(* The names of a location, and the entry they lead to.                       *)

NamesAt(number, document, p) ==
  LET s == SubschemaAt(document.schema, p)
      own == ScopeAt(number, document, p)
  IN  {Name(ScopeAt(number, document, <<>>), AtPointer(p))}
      \cup {Name(own, Whole) : x \in {x \in {0} : p = <<>> \/ Has(s, "id")}}
      \cup {Name(own, AtAnchor(s.anchor)) : x \in {x \in {0} : Has(s, "anchor")}}
Home(number, document, p) ==
  [schema |-> SubschemaAt(document.schema, p), record |-> number, pointer |-> p,
   base |-> ScopeAt(number, document, p), parentBase |-> BaseAround(number, document, p)]

(* The root is a location, and its scope is its $id over the fallback.      *)
LEMMA RootFacts ==
  ASSUME NEW number, NEW document
  PROVE  /\ <<>> \in PointersIn(document.schema)
         /\ SubschemaAt(document.schema, <<>>) = document.schema
         /\ BaseAround(number, document, <<>>) = FallbackBase(number, document)
         /\ ScopeAt(number, document, <<>>) = Scope(document.schema, FallbackBase(number, document))
<1>1. <<>> \in PointersIn(document.schema)
  <2> DEFINE s == document.schema
  <2> HIDE DEF s
  <2>1. \A p \in PointersIn(s) : \A e \in Steps(SubschemaAt(s, p)) :
          p \in PointersIn(s) /\ Append(p, e) \in PointersIn(s) => Append(p, e) \in PointersIn(s)
    OBVIOUS
  <2>2. <<>> \in PointersIn(s)
    BY <2>1, PointerInduction
  <2> QED
    BY <2>2 DEF s
<1>2. SubschemaAt(document.schema, <<>>) = document.schema
  BY FollowRoot DEF SubschemaAt
<1>3. BaseAround(number, document, <<>>) = FallbackBase(number, document)
  BY DEF BaseAround
<1>4. IsList(<<>>)
  BY EmptySeq DEF IsList
<1> QED
  BY <1>1, <1>2, <1>3, <1>4, ScopeIsApplied

(* What #register enters for one location is its names with its entry.      *)
LEMMA RegisteredNames ==
  ASSUME NEW number, NEW document, NEW p \in PointersIn(document.schema), NEW a
  PROVE  (\/ a \in Register(VisitAt(number, document, p), ScopeAt(number, document, <<>>), number)
          \/ p = <<>> /\ a = <<Name(ScopeAt(number, document, <<>>), Whole), Home(number, document, <<>>)>>)
         <=> \E name \in NamesAt(number, document, p) : a = <<name, Home(number, document, p)>>
<1> DEFINE s == SubschemaAt(document.schema, p)
           own == ScopeAt(number, document, p)
           root == ScopeAt(number, document, <<>>)
           visit == VisitAt(number, document, p)
           home == Home(number, document, p)
<1>1. /\ visit.pointer = p /\ visit.schema = s
      /\ visit.base = BaseAround(number, document, p)
  BY DEF VisitAt, Visit
<1>2. Scope(s, visit.base) = own
  BY <1>1, PointerFacts, ScopeIsApplied
<1>3. home = [schema |-> s, record |-> number, pointer |-> p, base |-> own, parentBase |-> visit.base]
  BY <1>1 DEF Home
<1> HIDE DEF s, own, visit, home, root
<1>4. Register(visit, root, number) =
        {<<name, home>> : name \in {Name(root, AtPointer(p))}
                                   \cup (IF Has(s, "id") THEN {Name(own, Whole)} ELSE {})
                                   \cup (IF Has(s, "anchor") THEN {Name(own, AtAnchor(s.anchor))} ELSE {})}
  BY <1>1, <1>2, <1>3 DEF Register
<1>5. NamesAt(number, document, p) =
        {Name(root, AtPointer(p))}
        \cup {Name(own, Whole) : x \in {x \in {0} : p = <<>> \/ Has(s, "id")}}
        \cup {Name(own, AtAnchor(s.anchor)) : x \in {x \in {0} : Has(s, "anchor")}}
  BY DEF NamesAt, s, own, root
<1>6. p = <<>> => root = own /\ Home(number, document, <<>>) = home
  BY DEF root, own, home
<1>7. a \in Register(visit, root, number) \/ (p = <<>> /\ a = <<Name(root, Whole), home>>)
        <=> \E name \in NamesAt(number, document, p) : a = <<name, home>>
  BY <1>4, <1>5, <1>6
<1> QED
  BY <1>6, <1>7 DEF visit, home, root

(* And for a document, those of all its locations.                          *)
LEMMA PendingIsHome ==
  ASSUME NEW number, NEW document, NEW a
  PROVE  a \in Pending(number, document) <=>
           \E p \in PointersIn(document.schema) : \E name \in NamesAt(number, document, p) :
             a = <<name, Home(number, document, p)>>
<1> DEFINE root == ScopeAt(number, document, <<>>)
           first == <<Name(root, Whole), Home(number, document, <<>>)>>
<1>1. Home(number, document, <<>>) =
        [schema |-> document.schema, record |-> number, pointer |-> <<>>, base |-> root,
         parentBase |-> FallbackBase(number, document)]
  BY RootFacts DEF Home
<1>2. root = Scope(document.schema, FallbackBase(number, document))
  BY RootFacts
<1> HIDE DEF root
<1>3. Pending(number, document) =
        {first} \cup UNION {Register(visit, root, number) :
                              visit \in Visits(document.schema, FallbackBase(number, document))}
  BY <1>1, <1>2, Zenon DEF Pending, first
<1> HIDE DEF first
<1>4. a \in Pending(number, document) <=>
        a = first \/ \E p \in PointersIn(document.schema) :
                       a \in Register(VisitAt(number, document, p), root, number)
  <2>1. Visits(document.schema, FallbackBase(number, document)) =
          {VisitAt(number, document, p) : p \in PointersIn(document.schema)}
    BY VisitsAreLocations
  <2>2. a \in Pending(number, document) <=>
          a = first \/ \E visit \in Visits(document.schema, FallbackBase(number, document)) :
                         a \in Register(visit, root, number)
    BY <1>3
  <2> QED
    BY <2>1, <2>2
<1>5. \A p \in PointersIn(document.schema) :
        a \in Register(VisitAt(number, document, p), root, number) \/ (p = <<>> /\ a = first)
        <=> \E name \in NamesAt(number, document, p) : a = <<name, Home(number, document, p)>>
  <2> SUFFICES ASSUME NEW p \in PointersIn(document.schema)
               PROVE  a \in Register(VisitAt(number, document, p), root, number) \/ (p = <<>> /\ a = first)
                      <=> \E name \in NamesAt(number, document, p) :
                            a = <<name, Home(number, document, p)>>
    OBVIOUS
  <2>1. (\/ a \in Register(VisitAt(number, document, p), ScopeAt(number, document, <<>>), number)
         \/ p = <<>> /\ a = <<Name(ScopeAt(number, document, <<>>), Whole), Home(number, document, <<>>)>>)
        <=> \E name \in NamesAt(number, document, p) : a = <<name, Home(number, document, p)>>
    BY RegisteredNames
  <2> QED
    BY <2>1 DEF root, first
<1>6. <<>> \in PointersIn(document.schema)
  BY RootFacts
<1> QED
  BY <1>4, <1>5, <1>6

-----------------------------------------------------------------------------
(* The index is what the documents' locations are called, no more and no less. *)

IndexInv ==
  /\ IsList(documents)
  /\ \A n \in DOMAIN documents : \A p \in PointersIn(documents[n].schema) :
       \A name \in NamesAt(n, documents[n], p) :
         name \in DOMAIN index /\ index[name] = Home(n, documents[n], p)
  /\ \A name \in DOMAIN index :
       \E n \in DOMAIN documents : \E p \in PointersIn(documents[n].schema) :
         name \in NamesAt(n, documents[n], p)

(* An empty index indexes no documents.                                     *)
LEMMA IndexInvStarts == ResolverInit => IndexInv
<1> SUFFICES ASSUME ResolverInit PROVE IndexInv
  OBVIOUS
<1>1. documents = <<>> /\ DOMAIN documents = {} /\ DOMAIN index = {}
  BY DEF ResolverInit
<1> QED
  BY <1>1, EmptySeq DEF IndexInv, IsList

(* addDocument enters every name of the new document, and without a conflict*)
(* the names of the others keep their entries.                              *)
LEMMA Adding ==
  ASSUME IndexInv, NEW document, ~Conflicts(Pending(Len(documents) + 1, document)),
         documents' = Append(documents, document),
         index' = Entered(Pending(Len(documents) + 1, document))
  PROVE  IndexInv'
<1> DEFINE fresh == Len(documents) + 1
           pending == Pending(fresh, document)
           Here(p) == Home(fresh, document, p)
           Names(p) == NamesAt(fresh, document, p)
           ps == PointersIn(document.schema)
           new == {a[1] : a \in pending}
<1>1. /\ IsList(documents') /\ Len(documents) \in Nat
      /\ DOMAIN documents = 1 .. Len(documents) /\ DOMAIN documents' = 1 .. fresh
      /\ documents'[fresh] = document
      /\ \A n \in DOMAIN documents : documents'[n] = documents[n]
  <2>1. PICK S : documents \in Seq(S)
    BY DEF IndexInv, IsList
  <2>2. /\ Len(documents) \in Nat /\ DOMAIN documents = 1 .. Len(documents)
        /\ DOMAIN documents' = 1 .. fresh
    BY <2>1
  <2> QED
    BY <2>2, Pointers DEF IndexInv
<1>2. \A a : a \in pending <=> \E p \in ps : \E name \in Names(p) : a = <<name, Here(p)>>
  BY PendingIsHome
<1>3. \A p : Here(p).record = fresh /\ Here(p).pointer = p
  BY DEF Home
<1>4. /\ \A a, b \in pending : a[1] = b[1] => Location(a[2]) = Location(b[2])
      /\ \A a \in pending : a[1] \in DOMAIN index => Location(a[2]) = Location(index[a[1]])
  BY DEF Conflicts
<1>5. index' = [name \in new \cup DOMAIN index |->
                  IF name \in new THEN (CHOOSE a \in pending : a[1] = name)[2] ELSE index[name]]
  BY DEF Entered
<1>6. ASSUME NEW n \in DOMAIN documents, NEW p, NEW q, Location(Here(q)) = Location(Home(n, documents[n], p))
      PROVE  FALSE
  <2>1. Home(n, documents[n], p).record = n
    BY DEF Home
  <2>2. fresh = n
    BY <1>3, <1>6, <2>1 DEF Location
  <2> QED
    BY <1>1, <2>2
<1> HIDE DEF fresh, pending, Here, Names, ps
<1>7. ASSUME NEW p \in ps, NEW name \in Names(p)
      PROVE  name \in new /\ index'[name] = Here(p)
  <2>1. <<name, Here(p)>> \in pending
    BY <1>2
  <2>2. name \in new
    BY <2>1
  <2> DEFINE a == CHOOSE a \in pending : a[1] = name
  <2>3. a \in pending /\ a[1] = name
    BY <2>1
  <2>4. index'[name] = a[2]
    BY <1>5, <2>2
  <2> HIDE DEF a
  <2>5. PICK q \in ps : \E other \in Names(q) : a = <<other, Here(q)>>
    BY <1>2, <2>3
  <2>6. Location(Here(q)) = Location(Here(p))
    BY <1>4, <2>1, <2>3, <2>5
  <2>7. q = p
    BY <1>3, <2>6 DEF Location
  <2> QED
    BY <2>2, <2>4, <2>5, <2>7
<1>8. \A name \in new : \E p \in ps : name \in Names(p)
  BY <1>2
<1>9. ASSUME NEW n \in DOMAIN documents, NEW p \in PointersIn(documents[n].schema),
             NEW name \in NamesAt(n, documents[n], p)
      PROVE  name \in DOMAIN index' /\ index'[name] = Home(n, documents[n], p)
  <2>1. name \in DOMAIN index /\ index[name] = Home(n, documents[n], p)
    BY DEF IndexInv
  <2>2. name \notin new
    <3> SUFFICES ASSUME name \in new PROVE FALSE
      OBVIOUS
    <3>1. PICK a \in pending : a[1] = name
      OBVIOUS
    <3>2. PICK q \in ps : \E other \in Names(q) : a = <<other, Here(q)>>
      BY <1>2
    <3>3. Location(Here(q)) = Location(Home(n, documents[n], p))
      BY <1>4, <2>1, <3>1, <3>2
    <3> QED
      BY <1>6, <3>3
  <2> QED
    BY <1>5, <2>1, <2>2
<1>10. ASSUME NEW n \in DOMAIN documents', NEW p \in PointersIn(documents'[n].schema),
              NEW name \in NamesAt(n, documents'[n], p)
       PROVE  name \in DOMAIN index' /\ index'[name] = Home(n, documents'[n], p)
  <2>1. CASE n \in DOMAIN documents
    <3>1. documents'[n] = documents[n]
      BY <1>1, <2>1
    <3> QED
      BY <1>9, <2>1, <3>1
  <2>2. CASE n = fresh
    <3>1. documents'[n] = document
      BY <1>1, <2>2
    <3>2. p \in ps /\ name \in Names(p) /\ Home(n, documents'[n], p) = Here(p)
      BY <2>2, <3>1 DEF ps, Names, Here
    <3>3. name \in new /\ index'[name] = Here(p)
      BY <1>7, <3>2
    <3> QED
      BY <1>5, <3>2, <3>3
  <2> QED
    BY <1>1, <2>1, <2>2 DEF fresh
<1>11. ASSUME NEW name \in DOMAIN index'
       PROVE  \E n \in DOMAIN documents' : \E p \in PointersIn(documents'[n].schema) :
                name \in NamesAt(n, documents'[n], p)
  <2>1. CASE name \in new
    <3>1. PICK p \in ps : name \in Names(p)
      BY <1>8, <2>1
    <3>2. fresh \in DOMAIN documents' /\ documents'[fresh] = document
      BY <1>1 DEF fresh
    <3>3. p \in PointersIn(documents'[fresh].schema) /\ name \in NamesAt(fresh, documents'[fresh], p)
      BY <3>1, <3>2 DEF ps, Names
    <3> QED
      BY <3>2, <3>3
  <2>2. CASE name \in DOMAIN index
    <3>1. PICK n \in DOMAIN documents : \E p \in PointersIn(documents[n].schema) :
                                           name \in NamesAt(n, documents[n], p)
      BY <2>2 DEF IndexInv
    <3>2. n \in DOMAIN documents' /\ documents'[n] = documents[n]
      BY <1>1 DEF fresh
    <3> QED
      BY <3>1, <3>2
  <2> QED
    BY <1>5, <2>1, <2>2
<1> QED
  BY <1>1, <1>10, <1>11 DEF IndexInv

(* A refused document leaves both as they were.                             *)
LEMMA IndexInvKept == IndexInv /\ [AddDocument]_resolver => IndexInv'
<1> SUFFICES ASSUME IndexInv, [AddDocument]_resolver PROVE IndexInv'
  OBVIOUS
<1>1. CASE UNCHANGED <<documents, index>>
  BY <1>1 DEF IndexInv
<1>2. CASE ~UNCHANGED <<documents, index>>
  <2> DEFINE document == bundle[tried + 1]
             pending == Pending(Len(documents) + 1, document)
  <2>1. /\ ~Conflicts(pending)
        /\ documents' = Append(documents, document) /\ index' = Entered(pending)
    BY <1>2 DEF AddDocument, resolver
  <2> QED
    BY <2>1, Adding
<1> QED
  BY <1>1, <1>2

-----------------------------------------------------------------------------
(* Enclosing resources.                                                       *)

(* A pointer is a prefix of it and what remains.                            *)
LEMMA PrefixFacts ==
  ASSUME NEW p, IsList(p), NEW q, IsList(q)
  PROVE  /\ IsPrefix(p, p)
         /\ \A e : IsPrefix(q, p) => IsPrefix(q, Append(p, e))
         /\ IsPrefix(q, p) => LET rest == SubSeq(p, Len(q) + 1, Len(p)) IN IsList(rest) /\ q \o rest = p
<1>1. PICK S, T : p \in Seq(S) /\ q \in Seq(T)
  BY DEF IsList
<1>2. Len(p) \in Nat /\ Len(q) \in Nat
  BY <1>1
<1>3. IsPrefix(p, p)
  BY <1>2 DEF IsPrefix
<1>4. ASSUME NEW e, IsPrefix(q, p) PROVE IsPrefix(q, Append(p, e))
  <2>1. Len(q) <= Len(p) /\ SubSeq(q, 1, Len(q)) = SubSeq(p, 1, Len(q))
    BY <1>4 DEF IsPrefix
  <2>2. p \in Seq(S \cup {e}) /\ e \in S \cup {e}
    BY <1>1, SeqMonotonic
  <2>3. Len(Append(p, e)) = Len(p) + 1 /\ \A k \in 1 .. Len(p) : Append(p, e)[k] = p[k]
    BY <2>2
  <2>4. SubSeq(Append(p, e), 1, Len(q)) = SubSeq(p, 1, Len(q))
    BY <1>2, <2>1, <2>2, <2>3
  <2> QED
    BY <1>2, <2>1, <2>3, <2>4 DEF IsPrefix
<1>5. ASSUME IsPrefix(q, p)
      PROVE  LET rest == SubSeq(p, Len(q) + 1, Len(p)) IN IsList(rest) /\ q \o rest = p
  <2> DEFINE rest == SubSeq(p, Len(q) + 1, Len(p))
  <2>1. Len(q) <= Len(p) /\ SubSeq(q, 1, Len(q)) = SubSeq(p, 1, Len(q))
    BY <1>5 DEF IsPrefix
  <2>2. q \in Seq(S)
    <3>1. SubSeq(q, 1, Len(q)) = q
      BY <1>1, <1>2
    <3>2. SubSeq(p, 1, Len(q)) \in Seq(S)
      BY <1>1, <1>2, <2>1
    <3> QED
      BY <2>1, <3>1, <3>2
  <2>3. rest \in Seq(S) /\ Len(rest) = Len(p) - Len(q)
        /\ \A k \in 1 .. Len(rest) : rest[k] = p[Len(q) + k]
    BY <1>1, <1>2, <2>1
  <2>4. \A k \in 1 .. Len(q) : q[k] = p[k]
    BY <1>1, <1>2, <2>1, <2>2
  <2> HIDE DEF rest
  <2>5. q \o rest \in Seq(S) /\ Len(q \o rest) = Len(p)
    BY <1>1, <1>2, <2>2, <2>3
  <2>6. \A k \in 1 .. Len(p) : (q \o rest)[k] = p[k]
    BY <1>1, <1>2, <2>2, <2>3, <2>4
  <2>7. q \o rest = p
    BY <1>1, <2>5, <2>6, SeqEqual
  <2> QED
    BY <2>3, <2>7 DEF IsList, rest
<1> QED
  BY <1>3, <1>4, <1>5

IsResource(document, p) == p = <<>> \/ Has(SubschemaAt(document.schema, p), "id")

(* A location has the base of a resource that encloses it.                    *)
LEMMA Enclosed ==
  ASSUME NEW number, NEW document, NEW p \in PointersIn(document.schema)
  PROVE  \E q \in PointersIn(document.schema) :
           /\ IsPrefix(q, p) /\ IsResource(document, q)
           /\ ScopeAt(number, document, q) = ScopeAt(number, document, p)
<1> DEFINE s == document.schema
           Fine(x) == \E q \in PointersIn(s) :
             /\ IsPrefix(q, x) /\ IsResource(document, q)
             /\ ScopeAt(number, document, q) = ScopeAt(number, document, x)
           good == {x \in PointersIn(s) : Fine(x)}
<1>1. ASSUME NEW x \in PointersIn(s), IsResource(document, x) PROVE x \in good
  BY <1>1, PointerFacts, PrefixFacts
<1>2. ASSUME NEW x \in PointersIn(s), NEW e, x \in good, Append(x, e) \in PointersIn(s)
      PROVE  Append(x, e) \in good
  <2> DEFINE y == Append(x, e)
  <2>1. CASE IsResource(document, y)
    BY <1>1, <1>2, <2>1
  <2>2. CASE ~IsResource(document, y)
    <3>1. IsList(x) /\ IsList(y) /\ Front(y) = x
      BY <1>2, PointerFacts, Pointers
    <3>2. ScopeAt(number, document, y) = ScopeAt(number, document, x)
      BY <2>2, <3>1, ScopeIsApplied DEF IsResource, BaseAround, Scope
    <3>3. PICK q \in PointersIn(s) :
            /\ IsPrefix(q, x) /\ IsResource(document, q)
            /\ ScopeAt(number, document, q) = ScopeAt(number, document, x)
      BY <1>2
    <3>4. IsPrefix(q, y)
      BY <3>1, <3>3, PointerFacts, PrefixFacts
    <3> QED
      BY <1>2, <3>2, <3>3, <3>4
  <2> QED
    BY <2>1, <2>2
<1>3. <<>> \in PointersIn(s) => <<>> \in good
  BY <1>1 DEF IsResource
<1> HIDE DEF good
<1>4. PointersIn(s) \subseteq good
  BY <1>2, <1>3, PointerInduction
<1> QED
  BY <1>4 DEF good

-----------------------------------------------------------------------------
(* One URI, one location.                                                     *)

(* Names of different kinds differ.                                         *)
LEMMA NameParts ==
  /\ \A u, f : Name(u, f).uri = u /\ Name(u, f).fragment = f
  /\ Whole.kind = "none"
  /\ \A p : AtPointer(p).kind = "pointer" /\ AtPointer(p).pointer = p
  /\ \A a : AtAnchor(a).kind = "anchor" /\ AtAnchor(a).anchor = a
BY DEF Name, Whole, AtPointer, AtAnchor

(* The names of a location, one by one.                                     *)
LEMMA NamesOf ==
  ASSUME NEW number, NEW document, NEW p, NEW name
  PROVE  name \in NamesAt(number, document, p) <=>
           \/ name = Name(ScopeAt(number, document, <<>>), AtPointer(p))
           \/ IsResource(document, p) /\ name = Name(ScopeAt(number, document, p), Whole)
           \/ /\ Has(SubschemaAt(document.schema, p), "anchor")
              /\ name = Name(ScopeAt(number, document, p),
                             AtAnchor(SubschemaAt(document.schema, p).anchor))
BY DEF NamesAt, IsResource

(* Locations and what they have by their place, as number and pointer.      *)
LEMMA Places ==
  /\ \A l : l \in Locations <=>
       \E n \in DOMAIN documents : \E p \in PointersIn(documents[n].schema) : l = <<n, p>>
  /\ \A n \in DOMAIN documents : \A p \in PointersIn(documents[n].schema) :
       /\ SchemaAt(<<n, p>>) = SubschemaAt(documents[n].schema, p)
       /\ OwnBase(<<n, p>>) = ScopeAt(n, documents[n], p)
       /\ InheritedBase(<<n, p>>) = BaseAround(n, documents[n], p)
       /\ <<n, p>> \in Resources <=> IsResource(documents[n], p)
<1>1. \A l : l \in Locations <=>
        \E n \in DOMAIN documents : \E p \in PointersIn(documents[n].schema) : l = <<n, p>>
  BY DEF Locations
<1>2. ASSUME NEW n \in DOMAIN documents, NEW p \in PointersIn(documents[n].schema)
      PROVE  /\ SchemaAt(<<n, p>>) = SubschemaAt(documents[n].schema, p)
             /\ OwnBase(<<n, p>>) = ScopeAt(n, documents[n], p)
             /\ InheritedBase(<<n, p>>) = BaseAround(n, documents[n], p)
             /\ <<n, p>> \in Resources <=> IsResource(documents[n], p)
  <2>1. <<n, p>> \in Locations
    BY <1>1
  <2>2. SchemaAt(<<n, p>>) = SubschemaAt(documents[n].schema, p)
    BY DEF SchemaAt
  <2>3. OwnBase(<<n, p>>) = ScopeAt(n, documents[n], p)
    BY DEF OwnBase
  <2>4. InheritedBase(<<n, p>>) = BaseAround(n, documents[n], p)
    BY DEF InheritedBase
  <2>5. <<n, p>> \in Resources <=> IsResource(documents[n], p)
    BY <2>1, <2>2 DEF Resources, IsResource
  <2> QED
    BY <2>2, <2>3, <2>4, <2>5
<1> QED
  BY <1>1, <1>2

(* Two locations with a name in common are one.                             *)
LEMMA OneHome ==
  ASSUME IndexInv, NEW n \in DOMAIN documents, NEW p \in PointersIn(documents[n].schema),
         NEW m \in DOMAIN documents, NEW q \in PointersIn(documents[m].schema),
         NEW name \in NamesAt(n, documents[n], p), name \in NamesAt(m, documents[m], q)
  PROVE  /\ name \in DOMAIN index /\ index[name] = Home(n, documents[n], p)
         /\ n = m /\ p = q
<1>1. name \in DOMAIN index /\ index[name] = Home(n, documents[n], p)
  BY DEF IndexInv
<1>2. index[name] = Home(m, documents[m], q)
  BY DEF IndexInv
<1>3. Home(n, documents[n], p).record = n /\ Home(n, documents[n], p).pointer = p
  BY DEF Home
<1>4. Home(m, documents[m], q).record = m /\ Home(m, documents[m], q).pointer = q
  BY DEF Home
<1> QED
  BY <1>1, <1>2, <1>3, <1>4

(* Two resources with one base are one.                                     *)
LEMMA OneResource ==
  ASSUME IndexInv, NEW n \in DOMAIN documents, NEW p \in PointersIn(documents[n].schema),
         IsResource(documents[n], p), NEW r \in Resources,
         OwnBase(r) = ScopeAt(n, documents[n], p)
  PROVE  r = <<n, p>>
<1>1. PICK m, q : /\ m \in DOMAIN documents /\ q \in PointersIn(documents[m].schema)
                  /\ r = <<m, q>>
  <2>1. r \in Locations
    BY DEF Resources
  <2> QED
    BY <2>1, Places
<1>2. IsResource(documents[m], q) /\ OwnBase(r) = ScopeAt(m, documents[m], q)
  BY <1>1, Places
<1> DEFINE name == Name(ScopeAt(n, documents[n], p), Whole)
<1>3. name \in NamesAt(n, documents[n], p)
  BY NamesOf
<1>4. name \in NamesAt(m, documents[m], q)
  BY <1>2, NamesOf
<1> QED
  BY <1>1, <1>3, <1>4, OneHome

(* What the index has for a name is what the name names by definition.      *)
LEMMA IndexedOnce ==
  ASSUME IndexInv, NEW name \in DOMAIN index
  PROVE  /\ index[name].record \in DOMAIN documents
         /\ Named(name.uri, name.fragment) = {Location(index[name])}
<1>1. PICK n, p : /\ n \in DOMAIN documents /\ p \in PointersIn(documents[n].schema)
                  /\ name \in NamesAt(n, documents[n], p)
  BY DEF IndexInv
<1> DEFINE d == documents[n]
           own == ScopeAt(n, d, p)
           root == ScopeAt(n, d, <<>>)
           here == <<n, p>>
<1>2. index[name] = Home(n, d, p)
  BY <1>1 DEF IndexInv
<1>3. index[name].record = n /\ Location(index[name]) = here
  BY <1>2 DEF Home, Location
<1>4. here \in Locations /\ OwnBase(here) = own /\ SchemaAt(here) = SubschemaAt(d.schema, p)
  BY <1>1, Places
<1>5. CASE IsResource(d, p) /\ name = Name(own, Whole)
  <2>1. here \in Resources
    BY <1>1, <1>5, Places
  <2>2. \A r : r \in Resources /\ OwnBase(r) = own <=> r = here
    BY <1>1, <1>4, <1>5, <2>1, OneResource
  <2>3. name.uri = own /\ name.fragment.kind = "none"
    BY <1>5, NameParts
  <2>4. Named(name.uri, name.fragment) = UNION {{r} : r \in {r \in Resources : OwnBase(r) = own}}
    BY <2>3 DEF Named
  <2>5. Named(name.uri, name.fragment) = {here}
    BY <2>2, <2>4
  <2> QED
    BY <1>1, <1>3, <2>5
<1>6. CASE name = Name(root, AtPointer(p))
  <2>1. /\ <<>> \in PointersIn(d.schema) /\ IsResource(d, <<>>)
    BY RootFacts DEF IsResource
  <2>2. <<n, <<>>>> \in Resources /\ OwnBase(<<n, <<>>>>) = root
    BY <1>1, <2>1, Places
  <2>3. \A r : r \in Resources /\ OwnBase(r) = root <=> r = <<n, <<>>>>
    BY <1>1, <2>1, <2>2, OneResource
  <2>4. name.uri = root /\ name.fragment.kind = "pointer" /\ name.fragment.pointer = p
    BY <1>6, NameParts
  <2>5. Named(name.uri, name.fragment) =
          UNION {{<<r[1], r[2] \o p>>} \cap Locations : r \in {r \in Resources : OwnBase(r) = root}}
    BY <2>4 DEF Named
  <2>6. {r \in Resources : OwnBase(r) = root} = {<<n, <<>>>>}
    BY <2>3
  <2>7. <<>> \o p = p
    <3>1. PICK S : p \in Seq(S)
      BY <1>1, PointerFacts DEF IsList
    <3> QED
      BY <3>1
  <2>8. Named(name.uri, name.fragment) = {here}
    <3> DEFINE top == <<n, <<>>>>
               At(r) == {<<r[1], r[2] \o p>>} \cap Locations
    <3>1. At(top) = {here}
      BY <1>4, <2>7
    <3> HIDE DEF At
    <3>2. UNION {At(r) : r \in {top}} = At(top)
      <4> HIDE DEF top
      <4> QED
        OBVIOUS
    <3>3. Named(name.uri, name.fragment) = UNION {At(r) : r \in {r \in Resources : OwnBase(r) = root}}
      BY <2>5 DEF At
    <3> QED
      BY <2>6, <3>1, <3>2, <3>3
  <2> QED
    BY <1>1, <1>3, <2>8
<1>7. CASE /\ Has(SubschemaAt(d.schema, p), "anchor")
           /\ name = Name(own, AtAnchor(SubschemaAt(d.schema, p).anchor))
  <2> DEFINE label == SubschemaAt(d.schema, p).anchor
             Called(l) == OwnBase(l) = own /\ Has(SchemaAt(l), "anchor") /\ SchemaAt(l).anchor = label
  <2>1. name.uri = own /\ name.fragment.kind = "anchor" /\ name.fragment.anchor = label
    BY <1>7, NameParts
  <2>2. ASSUME NEW l \in Locations, Called(l) PROVE l = here
    <3>1. PICK m, q : /\ m \in DOMAIN documents /\ q \in PointersIn(documents[m].schema)
                      /\ l = <<m, q>>
      BY Places
    <3>2. /\ ScopeAt(m, documents[m], q) = own
          /\ Has(SubschemaAt(documents[m].schema, q), "anchor")
          /\ SubschemaAt(documents[m].schema, q).anchor = label
      BY <2>2, <3>1, Places
    <3>3. name \in NamesAt(m, documents[m], q)
      BY <1>7, <3>2, NamesOf
    <3> QED
      BY <1>1, <3>1, <3>3, OneHome
  <2>3. Called(here)
    BY <1>4, <1>7
  <2>4. PICK q \in PointersIn(d.schema) :
          IsPrefix(q, p) /\ IsResource(d, q) /\ ScopeAt(n, d, q) = own
    BY <1>1, Enclosed
  <2>5. <<n, q>> \in Resources /\ OwnBase(<<n, q>>) = own /\ Within(here, <<n, q>>)
    BY <1>1, <2>4, Places DEF Within
  <2> HIDE DEF own, label
  <2>6. Named(name.uri, name.fragment) =
          UNION {{l \in Locations : Within(l, r) /\ Called(l)} : r \in {r \in Resources : OwnBase(r) = own}}
    BY <2>1 DEF Named
  <2> HIDE DEF Called
  <2>7. \A l : l \in Named(name.uri, name.fragment) <=> l = here
    BY <1>4, <2>2, <2>3, <2>5, <2>6
  <2>8. Named(name.uri, name.fragment) = {here}
    <3> DEFINE all == UNION {{l \in Locations : Within(l, r) /\ Called(l)} :
                               r \in {r \in Resources : OwnBase(r) = own}}
    <3>1. \A l : l \in all <=> l \in {here}
      BY <2>6, <2>7
    <3>2. all = {here}
      BY <3>1
    <3> HIDE DEF all
    <3> QED
      BY <2>6, <3>2 DEF all
  <2> QED
    BY <1>1, <1>3, <2>8
<1> QED
  BY <1>1, <1>5, <1>6, <1>7, NamesOf

-----------------------------------------------------------------------------
(* Lookup.                                                                    *)

To(uri, fragment) == Resolve([absolute |-> TRUE, uri |-> uri, fragment |-> fragment], uri)

(* A name in the index is looked up there.                                  *)
LEMMA Direct ==
  ASSUME NEW uri, NEW fragment, Name(uri, fragment) \in DOMAIN index
  PROVE  To(uri, fragment) = index[Name(uri, fragment)]
BY DEF To, Resolve, ResolveUri

(* Otherwise the pointer is followed from the resource that is known.       *)
LEMMA ByPointer ==
  ASSUME NEW uri, NEW pointer, Name(uri, AtPointer(pointer)) \notin DOMAIN index,
         Name(uri, Whole) \in DOMAIN index,
         FollowPointer(index[Name(uri, Whole)].schema, pointer) # {}
  PROVE  LET from == index[Name(uri, Whole)]
             document == documents[from.record]
             root == Scope(document.schema, FallbackBase(from.record, document))
         IN  To(uri, AtPointer(pointer)) = index[Name(root, AtPointer(from.pointer \o pointer))]
<1> DEFINE fragment == AtPointer(pointer)
<1>1. fragment.kind = "pointer" /\ fragment.pointer = pointer
  BY NameParts
<1> HIDE DEF fragment
<1> DEFINE reference == [absolute |-> TRUE, uri |-> uri, fragment |-> fragment]
<1>2. ResolveUri(reference, uri) = uri /\ reference.fragment = fragment
  BY DEF ResolveUri
<1> HIDE DEF reference
<1>3. Name(uri, fragment) \notin DOMAIN index
  BY DEF fragment
<1>4. To(uri, fragment) = Resolve(reference, uri)
  BY DEF To, reference
<1> QED
  BY <1>1, <1>2, <1>3, <1>4, Zenon DEF Resolve, fragment

(* By a pointer from any enclosing resource: a name that is indexed directly*)
(* is one from the root, and any other is followed to the same location.    *)
LEMMA FoundByPointer ==
  ASSUME IndexInv, NEW n \in DOMAIN documents,
         NEW p \in PointersIn(documents[n].schema),
         NEW q \in PointersIn(documents[n].schema), IsResource(documents[n], q), IsPrefix(q, p)
  PROVE  To(ScopeAt(n, documents[n], q), AtPointer(SubSeq(p, Len(q) + 1, Len(p)))) =
           Home(n, documents[n], p)
<1> DEFINE d == documents[n]
           uri == ScopeAt(n, d, q)
           rest == SubSeq(p, Len(q) + 1, Len(p))
           direct == Name(uri, AtPointer(rest))
           whole == Name(uri, Whole)
           exact == Name(ScopeAt(n, d, <<>>), AtPointer(p))
<1>1. whole \in NamesAt(n, d, q) /\ exact \in NamesAt(n, d, p)
  BY NamesOf
<1>2. /\ whole \in DOMAIN index /\ index[whole] = Home(n, d, q)
      /\ exact \in DOMAIN index /\ index[exact] = Home(n, d, p)
  BY <1>1 DEF IndexInv
<1>3. IsList(p) /\ IsList(q) /\ IsList(rest) /\ q \o rest = p
  BY PointerFacts, PrefixFacts
<1>4. CASE direct \in DOMAIN index
  <2>1. PICK m, o : /\ m \in DOMAIN documents /\ o \in PointersIn(documents[m].schema)
                    /\ direct \in NamesAt(m, documents[m], o)
    BY <1>4 DEF IndexInv
  <2>2. ScopeAt(m, documents[m], <<>>) = uri /\ o = rest
    <3>1. direct.uri = uri /\ direct.fragment.kind = "pointer" /\ direct.fragment.pointer = rest
      <4> HIDE DEF uri, rest
      <4> QED
        BY NameParts
    <3>2. direct = Name(ScopeAt(m, documents[m], <<>>), AtPointer(o))
      <4>1. \A u : direct # Name(u, Whole)
        BY <3>1, NameParts
      <4>2. \A u, a : direct # Name(u, AtAnchor(a))
        BY <3>1, NameParts
      <4> HIDE DEF direct
      <4> QED
        BY <2>1, <4>1, <4>2, NamesOf
    <3> HIDE DEF direct
    <3> QED
      BY <3>1, <3>2, NameParts
  <2>3. whole \in NamesAt(m, documents[m], <<>>)
    BY <2>2, NamesOf DEF IsResource
  <2>4. <<>> \in PointersIn(documents[m].schema)
    BY RootFacts
  <2>5. n = m /\ q = <<>>
    BY <1>1, <2>1, <2>3, <2>4, OneHome
  <2>6. rest = p
    <3>1. PICK S : rest \in Seq(S)
      BY <1>3 DEF IsList
    <3> HIDE DEF rest
    <3>2. <<>> \o rest = rest
      BY <3>1
    <3> QED
      BY <1>3, <2>5, <3>2
  <2>7. direct = exact
    BY <2>2, <2>5, <2>6
  <2> QED
    BY <1>2, <1>4, <2>7, Direct
<1>5. CASE direct \notin DOMAIN index
  <2>1. Home(n, d, q).schema = SubschemaAt(d.schema, q) /\ Home(n, d, q).record = n
        /\ Home(n, d, q).pointer = q
    BY DEF Home
  <2>2. FollowPointer(SubschemaAt(d.schema, q), rest) = {SubschemaAt(d.schema, p)}
    <3>1. /\ FollowPointer(d.schema, q) = {SubschemaAt(d.schema, q)}
          /\ FollowPointer(d.schema, p) = {SubschemaAt(d.schema, p)}
      BY PointerFacts
    <3> HIDE DEF rest
    <3>2. FollowPointer(d.schema, q \o rest) = FollowPointer(SubschemaAt(d.schema, q), rest)
      <4>1. \A s, t : FollowPointer(s, q) = {t} => FollowPointer(s, q \o rest) = FollowPointer(t, rest)
        <5> SUFFICES ASSUME NEW s, NEW t, FollowPointer(s, q) = {t}
                     PROVE  FollowPointer(s, q \o rest) = FollowPointer(t, rest)
          OBVIOUS
        <5>1. IsList(q) /\ IsList(rest)
          BY <1>3
        <5> QED
          BY <5>1, FollowAfter
      <4> QED
        BY <3>1, <4>1
    <3> QED
      BY <1>3, <3>1, <3>2
  <2>3. ScopeAt(n, d, <<>>) = Scope(d.schema, FallbackBase(n, d))
    BY RootFacts
  <2>4. To(uri, AtPointer(rest)) = index[Name(ScopeAt(n, d, <<>>), AtPointer(q \o rest))]
    <3>1. FollowPointer(index[whole].schema, rest) # {}
      BY <1>2, <2>1, <2>2
    <3> HIDE DEF uri, rest
    <3>2. LET from == index[whole]
              document == documents[from.record]
              root == Scope(document.schema, FallbackBase(from.record, document))
          IN  To(uri, AtPointer(rest)) = index[Name(root, AtPointer(from.pointer \o rest))]
      BY <1>2, <1>5, <3>1, ByPointer
    <3> HIDE DEF whole
    <3> QED
      BY <1>2, <2>1, <2>3, <3>2
  <2> QED
    BY <1>2, <1>3, <2>4
<1> QED
  BY <1>4, <1>5

(* By its anchor in its own base.                                           *)
LEMMA FoundByAnchor ==
  ASSUME IndexInv, NEW n \in DOMAIN documents, NEW p \in PointersIn(documents[n].schema),
         Has(SubschemaAt(documents[n].schema, p), "anchor")
  PROVE  To(ScopeAt(n, documents[n], p), AtAnchor(SubschemaAt(documents[n].schema, p).anchor)) =
           Home(n, documents[n], p)
<1> DEFINE name == Name(ScopeAt(n, documents[n], p),
                        AtAnchor(SubschemaAt(documents[n].schema, p).anchor))
<1>1. name \in NamesAt(n, documents[n], p)
  BY NamesOf
<1>2. name \in DOMAIN index /\ index[name] = Home(n, documents[n], p)
  BY <1>1 DEF IndexInv
<1> QED
  BY <1>2, Direct

(* The invariant says what lookup needs.                                    *)
LEMMA HomeIsFound == IndexInv => NamesLeadHome
<1> SUFFICES ASSUME IndexInv PROVE NamesLeadHome
  OBVIOUS
<1>1. ASSUME NEW l \in Locations
      PROVE  LET home == [schema |-> SchemaAt(l), record |-> l[1], pointer |-> l[2],
                          base |-> OwnBase(l), parentBase |-> InheritedBase(l)]
             IN  /\ \A r \in Resources : Within(l, r) =>
                      To(OwnBase(r), AtPointer(SubSeq(l[2], Len(r[2]) + 1, Len(l[2])))) = home
                 /\ Has(SchemaAt(l), "anchor") =>
                      To(OwnBase(l), AtAnchor(SchemaAt(l).anchor)) = home
  <2>1. PICK n, p : /\ n \in DOMAIN documents /\ p \in PointersIn(documents[n].schema)
                    /\ l = <<n, p>>
    BY Places
  <2> DEFINE home == [schema |-> SchemaAt(l), record |-> l[1], pointer |-> l[2],
                      base |-> OwnBase(l), parentBase |-> InheritedBase(l)]
  <2>2. /\ SchemaAt(l) = SubschemaAt(documents[n].schema, p)
        /\ OwnBase(l) = ScopeAt(n, documents[n], p)
        /\ InheritedBase(l) = BaseAround(n, documents[n], p)
    BY <2>1, Places
  <2>3. l[1] = n /\ l[2] = p
    BY <2>1
  <2>4. home = Home(n, documents[n], p)
    BY <2>2, <2>3 DEF Home
  <2> HIDE DEF home
  <2>5. ASSUME NEW r \in Resources, Within(l, r)
        PROVE  To(OwnBase(r), AtPointer(SubSeq(l[2], Len(r[2]) + 1, Len(l[2])))) = home
    <3>1. PICK m, q : /\ m \in DOMAIN documents /\ q \in PointersIn(documents[m].schema)
                      /\ r = <<m, q>>
      <4>1. r \in Locations
        BY DEF Resources
      <4> QED
        BY <4>1, Places
    <3>2. r[1] = m /\ r[2] = q
      BY <3>1
    <3>3. m = n /\ IsPrefix(q, p)
      BY <2>3, <2>5, <3>2 DEF Within
    <3>4. IsResource(documents[n], q) /\ OwnBase(r) = ScopeAt(n, documents[n], q)
      BY <3>1, <3>3, Places
    <3> QED
      BY <2>1, <2>3, <2>4, <3>1, <3>2, <3>3, <3>4, FoundByPointer
  <2>6. Has(SchemaAt(l), "anchor") => To(OwnBase(l), AtAnchor(SchemaAt(l).anchor)) = home
    BY <2>1, <2>2, <2>4, FoundByAnchor
  <2> QED
    BY <2>5, <2>6 DEF home
<1>2. \A name \in DOMAIN index :
        /\ index[name].record \in DOMAIN documents
        /\ Named(name.uri, name.fragment) = {Location(index[name])}
  BY IndexedOnce
<1> QED
  BY <1>1, <1>2, Zenon DEF NamesLeadHome, To

(* SchemaResolver: for every collection of documents, of any depth and with *)
(* any $id, anchor and embedded resource in them, an indexed URI names the one*)
(* location that it means by definition, and a location is found, with the base*)
(* of its place, by its anchor and by a pointer from every resource around it.*)
THEOREM NamesReachHome == ResolverSpec => []NamesLeadHome
<1>1. ResolverSpec => []IndexInv
  BY IndexInvStarts, IndexInvKept, PTL DEF ResolverSpec
<1>2. IndexInv => NamesLeadHome
  BY HomeIsFound
<1> QED
  BY <1>1, <1>2, PTL
=============================================================================
