-------------------------- MODULE ExpiryTrackerProofs --------------------------
(***************************************************************************)
(* What holds of the expiry tracker for every set of advisories, warning    *)
(* window and number of issues, and for any number of edits, failures and   *)
(* interventions.                                                           *)
(***************************************************************************)
EXTENDS ExpiryTracker, WellFoundedInduction, TLAPS

(* evaluateAudit: a receipt names entries, those that it calls expired are,  *)
(* and one in force that is inside the window is among those it calls soon.  *)
Explains(r, at, window) ==
  /\ r \in Receipts
  /\ r.at = at
  /\ \A e \in r.expired : e[2] <= at
  /\ \A e \in r.applied : e[2] <= at + window * Day => e \in r.soon

LEMMA EvaluateFacts ==
  ASSUME NEW found \in SUBSET Advisories, NEW exceptions \in Ledgers, NEW at \in Times,
         NEW window \in Nat
  PROVE  Explains(Evaluate(found, exceptions, at, window), at, window)
<1> DEFINE exempt == {a \in found : exceptions[a] # None}
           expired == {a \in exempt : exceptions[a] <= at}
           soon == {a \in exempt \ expired : exceptions[a] - at <= window * Day}
           r == Evaluate(found, exceptions, at, window)
<1>1. window * Day \in Nat
  BY TimeAssumption
<1>2. \A a \in exempt : exceptions[a] \in Times
  BY DEF Ledgers
<1>3. Times \subseteq Nat
  BY BoundsAssumption DEF Times
<1>4. r = [status |-> IF exempt = found /\ expired = {} THEN "passed"
                      ELSE "stopped_for_evaluation",
           at |-> at,
           expired |-> {<<a, exceptions[a]>> : a \in expired},
           applied |-> {<<a, exceptions[a]>> : a \in exempt \ expired},
           soon |-> {<<a, exceptions[a]>> : a \in soon}]
  BY DEF Evaluate
<1>5. r \in Receipts
  <2>1. {<<a, exceptions[a]>> : a \in exempt} \subseteq Entries
    BY <1>2 DEF Entries
  <2>2. /\ {<<a, exceptions[a]>> : a \in expired} \subseteq Entries
        /\ {<<a, exceptions[a]>> : a \in exempt \ expired} \subseteq Entries
        /\ {<<a, exceptions[a]>> : a \in soon} \subseteq Entries
    BY <2>1
  <2> HIDE DEF exempt, expired, soon
  <2> QED BY <1>4, <2>2 DEF Receipts
<1>6. \A e \in r.expired : e[2] <= at
  BY <1>4
<1>7. ASSUME NEW e \in r.applied, e[2] <= at + window * Day
      PROVE  e \in r.soon
  <2>1. PICK a \in exempt \ expired : e = <<a, exceptions[a]>>
    BY <1>4
  <2>2. exceptions[a] - at <= window * Day
    BY <2>1, <1>1, <1>2, <1>3, <1>7
  <2>3. a \in soon
    BY <2>1, <2>2
  <2> QED BY <2>1, <2>3, <1>4
<1>8. r.at = at
  BY <1>4
<1> HIDE DEF r
<1>9. Explains(r, at, window)
  BY <1>5, <1>6, <1>7, <1>8 DEF Explains
<1> QED BY <1>9 DEF r

(* Every set of numbers that is not empty has a least and a greatest one.    *)
LEMMA Least ==
  ASSUME NEW S \in SUBSET Nat, S # {}
  PROVE  \E n \in S : \A k \in S : n <= k
<1>1. IsWellFoundedOn(OpToRel(<, Nat), Nat)
  BY NatLessThanWellFounded
<1>2. PICK n \in S : \A k \in S : <<k, n>> \notin OpToRel(<, Nat)
  BY <1>1, WFMin
<1>3. \A k \in S : ~(k < n)
  BY <1>2 DEF OpToRel
<1> QED BY <1>3

(* Oldest and Latest are numbers of the listing. *)
LEMMA Extremes ==
  ASSUME NEW numbers \in SUBSET Numbers, numbers # {}
  PROVE  Oldest(numbers) \in numbers /\ Latest(numbers) \in numbers
<1> DEFINE mirrored == {MaxIssues - n : n \in numbers}
<1>1. MaxIssues \in Nat /\ numbers \subseteq Nat /\ \A n \in numbers : n <= MaxIssues
  BY BoundsAssumption DEF Numbers
<1>2. \E n \in numbers : \A k \in numbers : n <= k
  BY <1>1, Least
<1>3. mirrored \subseteq Nat /\ mirrored # {}
  <2>1. \A n \in numbers : MaxIssues - n \in Nat
    BY <1>1
  <2> QED BY <2>1
<1>4. PICK m \in mirrored : \A k \in mirrored : m <= k
  BY <1>3, Least
<1>5. \E n \in numbers : \A k \in numbers : n >= k
  <2>1. PICK n \in numbers : m = MaxIssues - n
    OBVIOUS
  <2>2. \A k \in numbers : MaxIssues - n <= MaxIssues - k
    BY <1>4, <2>1
  <2> QED BY <2>2, <1>1
<1> QED BY <1>2, <1>5 DEF Oldest, Latest

(* closeOperations and planExpiryTrackerReconciliation: a plan consists of    *)
(* operations, about listed trackers unless they create one or the label; an  *)
(* alert has one that writes an issue, which is the only one that may create  *)
(* it, and only beside an empty listing; without an alert a tracker is closed *)
(* only if the audit passed.                                                  *)
Writes == {"create", "update", "reopen"}

Sound(plan, of, numbers) ==
  /\ plan \subseteq Operations
  /\ \A op \in plan : op.kind \notin {"label", "create"} => op.number \in numbers
  /\ Alert(of) # {} => \E op \in plan : op.kind \in Writes
  /\ \A op \in plan : op.kind = "create" => numbers = {} /\ op = Operation(1, "create", 0)
  /\ Alert(of) = {} /\ plan # {} => of.status = "passed"

LEMMA HeadOperations ==
  ASSUME NEW at \in 0 .. 2, NEW number \in Numbers \cup {0},
         NEW kind \in {"label", "create", "update", "reopen", "comment", "close"}
  PROVE  Operation(at, kind, number) \in Operations
<1>1. at \in 0 .. 2 * MaxIssues + 2
  BY BoundsAssumption
<1> QED BY <1>1 DEF Operation, Operations

LEMMA CloseFacts ==
  ASSUME NEW numbers \in SUBSET Numbers
  PROVE  /\ Close(numbers) \subseteq Operations
         /\ \A op \in Close(numbers) : op.kind \in {"comment", "close"} /\ op.number \in numbers
<1>1. \A n \in numbers : /\ 2 * n + 1 \in 0 .. 2 * MaxIssues + 2
                        /\ 2 * n + 2 \in 0 .. 2 * MaxIssues + 2
  BY BoundsAssumption DEF Numbers
<1> QED BY <1>1 DEF Close, Operation, Operations

LEMMA PlanFacts ==
  ASSUME NEW of \in Receipts, NEW numbers \in SUBSET Numbers,
         NEW listed \in [numbers -> {"open", "closed"}], NEW labelListed \in BOOLEAN
  PROVE  Sound(Plan(of, listed, labelListed), of, numbers)
<1> DEFINE plan == Plan(of, listed, labelListed)
           open == Listed(listed, "open")
           closed == Listed(listed, "closed")
<1>1. DOMAIN listed = numbers /\ open \subseteq numbers /\ closed \subseteq numbers
      /\ open \cup closed = numbers
  BY DEF Listed
<1>2. /\ Close(open) \subseteq Operations
      /\ \A op \in Close(open) : op.kind \in {"comment", "close"} /\ op.number \in open
  BY <1>1, CloseFacts
<1>3. ASSUME Alert(of) = {} PROVE Sound(plan, of, numbers)
  <2>1. plan = IF of.status = "passed" THEN Close(open) ELSE {}
    BY <1>3 DEF Plan, PlanClear
  <2> HIDE DEF plan, open, closed
  <2> QED BY <1>1, <1>2, <1>3, <2>1 DEF Operation, Sound
<1>4. ASSUME Alert(of) # {} PROVE Sound(plan, of, numbers)
  <2> DEFINE labels == IF ~labelListed /\ DOMAIN listed = {} THEN {Operation(0, "label", 0)} ELSE {}
  <2>1. labels \subseteq Operations /\ \A op \in labels : op.kind = "label"
    <3>1. Operation(0, "label", 0) \in Operations
      BY HeadOperations
    <3>2. Operation(0, "label", 0).kind = "label"
      BY DEF Operation
    <3> QED BY <3>1, <3>2
  <2>2. CASE open # {}
    <3> DEFINE n == Oldest(open)
               rest == Close(open \ {n})
    <3>1. n \in open
      BY <1>1, <2>2, Extremes
    <3>2. /\ rest \subseteq Operations
          /\ \A op \in rest : op.kind \in {"comment", "close"} /\ op.number \in open
      BY <1>1, CloseFacts
    <3>3. plan = labels \cup {Operation(1, "update", n), Operation(2, "comment", n)} \cup rest
      BY <1>4, <2>2 DEF Plan, PlanAlert
    <3>4. {Operation(1, "update", n), Operation(2, "comment", n)} \subseteq Operations
      <4>1. n \in Numbers
        BY <3>1, <1>1
      <4> QED BY <4>1, HeadOperations
    <3> HIDE DEF plan, open, closed, labels, n, rest
    <3> QED BY <1>1, <1>4, <2>1, <2>2, <3>1, <3>2, <3>3, <3>4 DEF Operation, Writes, Sound
  <2>3. CASE open = {} /\ closed # {}
    <3> DEFINE n == Latest(closed)
    <3>1. n \in closed
      BY <1>1, <2>3, Extremes
    <3>3. plan = labels \cup {Operation(1, "reopen", n), Operation(2, "comment", n)}
      BY <1>4, <2>3 DEF Plan, PlanAlert
    <3>4. {Operation(1, "reopen", n), Operation(2, "comment", n)} \subseteq Operations
      <4>1. n \in Numbers
        BY <3>1, <1>1
      <4> QED BY <4>1, HeadOperations
    <3> HIDE DEF plan, open, closed, labels, n
    <3> QED BY <1>1, <1>4, <2>1, <2>3, <3>1, <3>3, <3>4 DEF Operation, Writes, Sound
  <2>4. CASE open = {} /\ closed = {}
    <3>3. plan = labels \cup {Operation(1, "create", 0)}
      BY <1>4, <2>4 DEF Plan, PlanAlert
    <3>4. {Operation(1, "create", 0)} \subseteq Operations
      BY HeadOperations
    <3> HIDE DEF plan, open, closed, labels
    <3> QED BY <1>1, <1>4, <2>1, <2>4, <3>3, <3>4 DEF Operation, Writes, Sound
  <2> QED BY <2>2, <2>3, <2>4
<1> QED BY <1>3, <1>4

-----------------------------------------------------------------------------
(* Types.                                                                   *)

LEMMA ResetTypes ==
  /\ FailedReceipt \in Receipts
  /\ NoJob \in [window : Windows \cup {0, Window}, ledger : Ledgers]
  /\ NoListing \in [{} -> {"open", "closed"}]
  /\ NoIssue \in Issues
BY BoundsAssumption DEF FailedReceipt, Receipts, NoJob, Ledgers, Times, NoListing, NoIssue, Issues

LEMMA EndTypes ==
  ASSUME End
  PROVE  /\ pc' = "idle" /\ todo' = {} /\ receipt' \in Receipts
         /\ job' \in [window : Windows \cup {0, Window}, ledger : Ledgers]
         /\ \E numbers \in SUBSET Numbers : listing' \in [numbers -> {"open", "closed"}]
BY ResetTypes DEF End

LEMMA TypeInit == Init => TypeOK
<1> SUFFICES ASSUME Init PROVE TypeOK
  OBVIOUS
<1>1. 0 \in Times /\ 0 \in 0 .. MaxEdits /\ 0 \in 0 .. MaxPeople /\ 0 \in 0 .. MaxFailures
  BY BoundsAssumption DEF Times
<1>2. \E numbers \in SUBSET Numbers : listing \in [numbers -> {"open", "closed"}]
  <2>1. {} \in SUBSET Numbers /\ listing \in [{} -> {"open", "closed"}]
    BY ResetTypes DEF Init
  <2> QED BY <2>1
<1>3. issues \in [Numbers -> Issues]
  BY ResetTypes DEF Init
<1> QED BY <1>1, <1>2, <1>3, ResetTypes DEF Init, TypeOK

(* What a request does keeps the types of what it touches. *)
LEMMA PerformTypes ==
  ASSUME TypeOK, NEW op \in todo, Perform(op)
  PROVE  /\ issues' \in [Numbers -> Issues]
         /\ label' \in BOOLEAN /\ announced' \subseteq Entries
<1>1. Alert(receipt) \subseteq Entries
  BY DEF TypeOK, Receipts, Alert
<1>2. op.kind \notin {"label", "create"} => op.number \in Numbers
  BY DEF TypeOK
<1>3. CASE CreateLabel(op)
  BY <1>3 DEF CreateLabel, TypeOK
<1>4. CASE Create(op)
  BY <1>1, <1>4 DEF Create, TypeOK, Existing, Issues
<1>5. CASE Rewrite(op)
  BY <1>1, <1>2, <1>5 DEF Rewrite, TypeOK, Issues
<1>6. CASE Comment(op)
  BY <1>6 DEF Comment, TypeOK, tracker
<1>7. CASE CloseIssue(op)
  BY <1>2, <1>7 DEF CloseIssue, TypeOK, Issues
<1> QED BY <1>3, <1>4, <1>5, <1>6, <1>7 DEF Perform

LEMMA WindowType ==
  ASSUME NEW j \in [window : Windows \cup {0, Window}, ledger : Ledgers]
  PROVE  j.window \in Nat /\ j.ledger \in Ledgers
<1>1. j.window \in Windows \cup {0, Window}
  OBVIOUS
<1>2. Windows \cup {0, Window} \subseteq Nat
  BY TimeAssumption
<1> QED BY <1>1, <1>2

(* People may take the label or the marker off an issue, and put them back. *)
LEMMA MarkedIssues ==
  ASSUME NEW issue \in Issues
  PROVE  /\ [issue EXCEPT !.labelled = FALSE] \in Issues
         /\ [issue EXCEPT !.marker = FALSE] \in Issues
         /\ [issue EXCEPT !.labelled = TRUE, !.marker = TRUE] \in Issues
BY DEF Issues

LEMMA TypeStep == TypeOK /\ [Next]_vars => TypeOK'
<1> SUFFICES ASSUME TypeOK, [Next]_vars PROVE TypeOK'
  OBVIOUS
<1> USE DEF TypeOK, world, tracker, counts, run
<1>1. CASE Scheduled
  BY <1>1 DEF Scheduled, Begin
<1>2. CASE Dispatch
  <2>1. people' \in 0 .. MaxPeople
    BY <1>2, BoundsAssumption DEF Dispatch
  <2> QED BY <1>2, <2>1 DEF Dispatch, Begin
<1>3. CASE Audit
  <2>1. job.window \in Nat /\ job.ledger \in Ledgers
    BY WindowType
  <2>2. Evaluate(findings, job.ledger, now, job.window) \in Receipts
    BY <2>1, EvaluateFacts DEF Explains
  <2>3. receipt' \in Receipts
    BY <1>3, <2>2, ResetTypes DEF Audit
  <2> QED BY <1>3, <2>3, BoundsAssumption DEF Audit, Failing
<1>4. CASE ListIssues
  <2>1. Trackers \in SUBSET Numbers /\ \A n \in Trackers : issues[n].state \in {"open", "closed"}
    BY DEF Trackers, Existing, Issues
  <2>2. listing' \in [Trackers -> {"open", "closed"}]
    BY <1>4, <2>1 DEF ListIssues
  <2> QED BY <1>4, <2>1, <2>2 DEF ListIssues
<1>5. CASE ListLabels
  <2>1. PICK numbers \in SUBSET Numbers : listing \in [numbers -> {"open", "closed"}]
    OBVIOUS
  <2>2. Sound(Plan(receipt, listing, label), receipt, DOMAIN listing)
    BY <2>1, PlanFacts
  <2> QED BY <1>5, <2>2 DEF ListLabels, Sound
<1>6. CASE Execute
  <2>1. PICK op \in todo : /\ Perform(op)
                           /\ \/ /\ todo' = todo \ {op}
                                 /\ UNCHANGED <<pc, job, receipt, listing, failures>>
                              \/ End /\ Failing
    BY <1>6 DEF Execute
  <2>2. /\ issues' \in [Numbers -> Issues]
        /\ label' \in BOOLEAN /\ announced' \subseteq Entries
    BY <2>1, PerformTypes
  <2>3. CASE todo' = todo \ {op} /\ UNCHANGED <<pc, job, receipt, listing, failures>>
    BY <1>6, <2>2, <2>3 DEF Execute
  <2>4. CASE End /\ Failing
    BY <1>6, <2>2, <2>4, EndTypes, BoundsAssumption DEF Execute, Failing
  <2> QED BY <2>1, <2>3, <2>4
<1>7. CASE Refused
  BY <1>7, EndTypes DEF Refused
<1>8. CASE Finish
  <2>1. lastRun' \in [receipt : Receipts, window : Windows \cup {0, Window}]
    BY <1>8 DEF Finish
  <2> QED BY <1>8, <2>1, EndTypes DEF Finish
<1>9. CASE Abandon
  BY <1>9, EndTypes, BoundsAssumption DEF Abandon, Failing
<1>10. CASE Tick
  BY <1>10, BoundsAssumption DEF Tick, Times
<1>11. CASE Change
  <2>1. findings' \subseteq Advisories /\ ledger' \in Ledgers
    BY <1>11 DEF Change, Ledgers
  <2>2. edits' \in 0 .. MaxEdits
    BY <1>11, BoundsAssumption DEF Change
  <2> QED BY <1>11, <2>1, <2>2 DEF Change
<1>12. CASE PeopleToggle
  <2>1. issues' \in [Numbers -> Issues]
    BY <1>12 DEF PeopleToggle, Existing, Issues
  <2>2. people' \in 0 .. MaxPeople
    BY <1>12, BoundsAssumption DEF PeopleToggle, Act
  <2> QED BY <1>12, <2>1, <2>2 DEF PeopleToggle
<1>13. CASE PeopleHide
  <2>1. issues' \in [Numbers -> Issues]
    <3>1. CASE \E n \in Numbers : \/ issues' = [issues EXCEPT ![n] = [@ EXCEPT !.labelled = FALSE]]
                                  \/ issues' = [issues EXCEPT ![n] = [@ EXCEPT !.marker = FALSE]]
      <4>1. PICK n \in Numbers : \/ issues' = [issues EXCEPT ![n] = [@ EXCEPT !.labelled = FALSE]]
                                \/ issues' = [issues EXCEPT ![n] = [@ EXCEPT !.marker = FALSE]]
        BY <3>1
      <4>2. CASE issues' = [issues EXCEPT ![n] = [@ EXCEPT !.labelled = FALSE]]
        BY <4>2, MarkedIssues
      <4>3. CASE issues' = [issues EXCEPT ![n] = [@ EXCEPT !.marker = FALSE]]
        BY <4>3, MarkedIssues
      <4> QED BY <4>1, <4>2, <4>3
    <3>2. CASE issues' = [n \in Numbers |-> [issues[n] EXCEPT !.labelled = FALSE]]
      BY <3>2, MarkedIssues
    <3>3. Trackers \subseteq Numbers
      BY DEF Trackers, Existing
    <3>4. \/ \E n \in Trackers : \/ issues' = [issues EXCEPT ![n].labelled = FALSE]
                               \/ issues' = [issues EXCEPT ![n].marker = FALSE]
          \/ issues' = [n \in Numbers |-> [issues[n] EXCEPT !.labelled = FALSE]]
      BY <1>13 DEF PeopleHide
    <3> QED BY <3>1, <3>2, <3>3, <3>4
  <2>2. people' \in 0 .. MaxPeople
    BY <1>13, BoundsAssumption DEF PeopleHide, Act
  <2> QED BY <1>13, <2>1, <2>2 DEF PeopleHide
<1>14. CASE PeopleRestore
  <2>1. issues' \in [Numbers -> Issues]
    <3>1. PICK n \in Numbers :
                 issues' = [issues EXCEPT ![n] = [@ EXCEPT !.labelled = TRUE, !.marker = TRUE]]
      BY <1>14 DEF PeopleRestore, Existing
    <3> QED BY <3>1, MarkedIssues
  <2>2. people' \in 0 .. MaxPeople
    BY <1>14, BoundsAssumption DEF PeopleRestore, Act
  <2> QED BY <1>14, <2>1, <2>2 DEF PeopleRestore
<1>15. CASE PeopleLabel
  BY <1>15, BoundsAssumption DEF PeopleLabel, Act
<1>16. CASE UNCHANGED vars
  BY <1>16 DEF vars
<1> QED
  BY <1>1, <1>2, <1>3, <1>4, <1>5, <1>6, <1>7, <1>8, <1>9, <1>10, <1>11, <1>12, <1>13,
     <1>14, <1>15, <1>16 DEF Next, Steps

(* Every variable keeps its type: in particular an operation that is left is *)
(* about a tracker of the listing it was planned from.                       *)
THEOREM TypeCorrect == Spec => []TypeOK
BY TypeInit, TypeStep, PTL DEF Spec

-----------------------------------------------------------------------------
(* Safety.                                                                  *)

(* What a run knows.  Before its audit it has no receipt; a receipt says of  *)
(* its entries what evaluateAudit does.                                      *)
ReceiptInv ==
  /\ pc \in {"idle", "audit"} => receipt = FailedReceipt
  /\ \A e \in receipt.expired : e[2] <= receipt.at
  /\ \A e \in receipt.applied : e[2] <= receipt.at + job.window * Day => e \in receipt.soon

(* What is left of a plan: an alert has been written into an issue, or an    *)
(* operation is left that does; without an alert the audit passed.           *)
PlanInv ==
  pc = "execute" =>
    /\ (\A op \in todo : op.kind \notin Writes) => Alert(receipt) \subseteq announced
    /\ Alert(receipt) = {} /\ todo # {} => receipt.status = "passed"

(* After a complete run, all that expires inside its window is announced.    *)
LastRunInv ==
  lastRun # None =>
    \A e \in lastRun.receipt.applied :
      e[2] <= lastRun.receipt.at + lastRun.window * Day => e \in announced

(* While no issue is hidden every issue is listed, so that a run that is     *)
(* about to create one has seen that there is none.                          *)
OneInv ==
  ~hidden =>
    /\ Existing = Trackers
    /\ \A n, k \in Existing : n = k
    /\ pc = "labels" => DOMAIN listing = Existing
    /\ \A op \in todo : op.kind = "create" => Existing = {} /\ op = Operation(1, "create", 0)

(* An issue that was listed is there: issues are closed, never deleted.      *)
ListInv == DOMAIN listing \subseteq Existing

IInv == TypeOK /\ ListInv /\ ReceiptInv /\ PlanInv /\ LastRunInv /\ OneInv

LEMMA InvInit == Init => ListInv /\ ReceiptInv /\ PlanInv /\ LastRunInv /\ OneInv
BY NoneAssumption
  DEF Init, ListInv, NoListing, ReceiptInv, PlanInv, LastRunInv, OneInv, FailedReceipt, Existing, Trackers, NoIssue

(* Steps that leave the run and its results alone, and steps that end it. *)
LEMMA QuietStep ==
  ASSUME IInv, UNCHANGED <<run, lastRun, announced>>
  PROVE  ReceiptInv' /\ PlanInv' /\ LastRunInv'
BY DEF IInv, ReceiptInv, PlanInv, LastRunInv, run, Alert

LEMMA EndStep ==
  ASSUME IInv, End
  PROVE  ReceiptInv' /\ PlanInv' /\ todo' = {} /\ pc' = "idle"
BY DEF End, ReceiptInv, PlanInv, FailedReceipt

LEMMA SameIssues ==
  ASSUME IInv, UNCHANGED <<issues, hidden>>, todo' \subseteq todo, pc' # "labels"
  PROVE  OneInv'
BY DEF IInv, OneInv, Existing, Trackers

(* Requests keep every issue; one that does not create an issue keeps, as    *)
(* long as none is hidden, the trackers too.                                 *)
LEMMA PerformKeeps ==
  ASSUME IInv, NEW op \in todo, Perform(op)
  PROVE  /\ Existing \subseteq Existing'
         /\ ~hidden /\ op.kind # "create" => Existing' = Existing /\ Trackers' = Existing
<1>1. op.kind \notin {"label", "create"} => op.number \in Existing
  BY DEF IInv, TypeOK, ListInv
<1>2. ~hidden => Existing = Trackers
  BY DEF IInv, OneInv
<1>3. issues \in [Numbers -> Issues]
  BY DEF IInv, TypeOK
<1>4. CASE CreateLabel(op) \/ Comment(op)
  BY <1>2, <1>4 DEF CreateLabel, Comment, tracker, Existing, Trackers
<1>5. CASE Create(op)
  BY <1>3, <1>5 DEF Create, Existing
<1>6. CASE Rewrite(op)
  BY <1>1, <1>2, <1>3, <1>6 DEF Rewrite, Existing, Trackers, Issues
<1>7. CASE CloseIssue(op)
  BY <1>1, <1>2, <1>3, <1>7 DEF CloseIssue, Existing, Trackers, Issues
<1> QED BY <1>4, <1>5, <1>6, <1>7 DEF Perform

LEMMA InvStep == IInv /\ TypeOK' /\ [Next]_vars => IInv'
<1> SUFFICES ASSUME IInv, TypeOK', [Next]_vars PROVE IInv'
  OBVIOUS
<1>0. TypeOK
  BY DEF IInv
<1>1. ASSUME Scheduled \/ Dispatch PROVE IInv'
  <2>1. /\ pc = "idle" /\ pc' = "audit" /\ receipt' = receipt /\ todo' = todo
        /\ UNCHANGED <<issues, hidden, listing, lastRun, announced>>
    BY <1>1 DEF Scheduled, Dispatch, Begin, tracker
  <2>2. receipt = FailedReceipt
    BY <2>1 DEF IInv, ReceiptInv
  <2>3. ReceiptInv'
    BY <2>1, <2>2 DEF ReceiptInv, FailedReceipt
  <2>4. PlanInv' /\ LastRunInv' /\ ListInv'
    BY <2>1 DEF IInv, PlanInv, LastRunInv, ListInv, Existing
  <2> QED BY <2>1, <2>3, <2>4, SameIssues DEF IInv
<1>2. ASSUME Audit PROVE IInv'
  <2>1. /\ pc' = "issues"
        /\ UNCHANGED <<issues, hidden, job, listing, todo, lastRun, announced>>
    BY <1>2 DEF Audit, tracker
  <2>2. ReceiptInv'
    <3>1. CASE receipt' = FailedReceipt
      BY <2>1, <3>1 DEF ReceiptInv, FailedReceipt
    <3>2. CASE receipt' = Evaluate(findings, job.ledger, now, job.window)
      <4>1. job.window \in Nat /\ job.ledger \in Ledgers
        BY <1>0, WindowType DEF TypeOK
      <4>2. findings \in SUBSET Advisories /\ now \in Times
        BY <1>0 DEF TypeOK
      <4>3. /\ receipt'.at = now
            /\ \A e \in receipt'.expired : e[2] <= now
            /\ \A e \in receipt'.applied :
                 e[2] <= now + job.window * Day => e \in receipt'.soon
        <5>1. Explains(receipt', now, job.window)
          BY <3>2, <4>1, <4>2, EvaluateFacts
        <5> QED BY <5>1 DEF Explains
      <4> QED BY <2>1, <4>3 DEF ReceiptInv
    <3> QED BY <1>2, <3>1, <3>2 DEF Audit
  <2>3. PlanInv' /\ LastRunInv' /\ ListInv'
    BY <2>1 DEF IInv, PlanInv, LastRunInv, ListInv, Existing
  <2> QED BY <2>1, <2>2, <2>3, SameIssues DEF IInv
<1>3. ASSUME ListIssues PROVE IInv'
  <2>1. /\ pc' = "labels" /\ DOMAIN listing' = Trackers /\ pc = "issues"
        /\ UNCHANGED <<issues, hidden, job, receipt, todo, lastRun, announced>>
    BY <1>3 DEF ListIssues, tracker
  <2>2. ReceiptInv' /\ PlanInv' /\ LastRunInv'
    BY <2>1 DEF IInv, ReceiptInv, PlanInv, LastRunInv
  <2>3. ListInv' /\ OneInv'
    BY <2>1 DEF IInv, ListInv, OneInv, Existing, Trackers
  <2> QED BY <2>2, <2>3 DEF IInv
<1>4. ASSUME ListLabels PROVE IInv'
  <2>1. /\ pc = "labels" /\ pc' = "execute" /\ todo' = Plan(receipt, listing, label)
        /\ UNCHANGED <<issues, hidden, job, receipt, listing, lastRun, announced>>
    BY <1>4 DEF ListLabels, tracker
  <2>2. Sound(todo', receipt, DOMAIN listing)
    <3>1. PICK numbers \in SUBSET Numbers : listing \in [numbers -> {"open", "closed"}]
      BY <1>0 DEF TypeOK
    <3> QED BY <1>0, <2>1, <3>1, PlanFacts DEF TypeOK
  <2>3. ReceiptInv' /\ LastRunInv' /\ ListInv'
    BY <2>1 DEF IInv, ReceiptInv, LastRunInv, ListInv, Existing
  <2>4. PlanInv'
    <3>1. /\ Alert(receipt) # {} => \E op \in todo' : op.kind \in Writes
          /\ Alert(receipt) = {} /\ todo' # {} => receipt.status = "passed"
      BY <2>2 DEF Sound
    <3>2. Alert(receipt)' = Alert(receipt)
      BY <2>1 DEF Alert
    <3> QED BY <2>1, <3>1, <3>2 DEF PlanInv
  <2>5. OneInv'
    BY <2>1, <2>2 DEF IInv, OneInv, Sound, Existing, Trackers
  <2> QED BY <2>3, <2>4, <2>5 DEF IInv
<1>5. ASSUME Execute PROVE IInv'
  <2>1. PICK op \in todo : /\ Perform(op)
                           /\ \/ /\ todo' = todo \ {op}
                                 /\ UNCHANGED <<pc, job, receipt, listing, failures>>
                              \/ End /\ Failing
    BY <1>5 DEF Execute
  <2>2. pc = "execute" /\ UNCHANGED <<lastRun, hidden>>
    BY <1>5 DEF Execute
  <2>3. announced \subseteq announced' /\ (op.kind \in Writes => Alert(receipt) \subseteq announced')
    BY <2>1 DEF Perform, CreateLabel, Create, Rewrite, Comment, CloseIssue, Writes
  <2>4. LastRunInv'
    BY <2>2, <2>3 DEF IInv, LastRunInv
  <2>5. \/ todo' = todo \ {op} /\ UNCHANGED <<pc, job, receipt, listing>>
        \/ End
    BY <2>1
  <2>6. ListInv'
    BY <2>1, <2>5, PerformKeeps DEF IInv, ListInv, End, NoListing
  <2>7. ReceiptInv' /\ PlanInv'
    <3>1. CASE todo' = todo \ {op} /\ UNCHANGED <<pc, job, receipt, listing>>
      BY <2>3, <3>1 DEF IInv, ReceiptInv, PlanInv, Alert
    <3> QED BY <2>5, <3>1, EndStep
  <2>8. OneInv'
    <3> SUFFICES ASSUME ~hidden PROVE OneInv'
      BY <2>2 DEF OneInv
    <3>1. todo' \subseteq todo /\ pc' # "labels" /\ hidden' = hidden
      BY <2>2, <2>5, EndStep
    <3>2. CASE op.kind # "create"
      BY <2>1, <3>1, <3>2, PerformKeeps DEF IInv, OneInv
    <3>3. CASE op.kind = "create"
      <4>1. /\ Existing = {} /\ op = Operation(1, "create", 0)
            /\ \A other \in todo : other.kind = "create" => other = op
        BY <3>3 DEF IInv, OneInv
      <4>2. \A other \in todo' : other.kind # "create"
        BY <2>5, <4>1, EndStep
      <4>3. PICK n \in Numbers \ Existing :
              issues' = [issues EXCEPT ![n] = [state |-> "open", labelled |-> TRUE,
                                               marker |-> TRUE, body |-> Alert(receipt)]]
        BY <2>1, <3>3 DEF Perform, CreateLabel, Create, Rewrite, Comment, CloseIssue
      <4>4. issues \in [Numbers -> Issues]
        BY <1>0 DEF TypeOK
      <4>5. Existing' = {n} /\ Trackers' = {n}
        BY <4>1, <4>3, <4>4 DEF Existing, Trackers
      <4> QED BY <3>1, <4>2, <4>5 DEF OneInv
    <3> QED BY <3>2, <3>3
  <2> QED BY <2>4, <2>6, <2>7, <2>8 DEF IInv
<1>6. ASSUME Refused \/ Abandon PROVE IInv'
  <2>1. End /\ UNCHANGED <<issues, hidden, lastRun, announced>>
    BY <1>6 DEF Refused, Abandon, tracker
  <2>2. ListInv' /\ LastRunInv'
    BY <2>1 DEF IInv, ListInv, LastRunInv, End, NoListing, Existing
  <2> QED BY <2>1, <2>2, EndStep, SameIssues DEF IInv
<1>7. ASSUME Finish PROVE IInv'
  <2>1. /\ pc = "execute" /\ todo = {} /\ End /\ UNCHANGED <<issues, hidden, announced>>
        /\ lastRun' = [receipt |-> receipt, window |-> job.window]
    BY <1>7 DEF Finish, tracker
  <2>2. Alert(receipt) \subseteq announced
    BY <2>1 DEF IInv, PlanInv
  <2>3. LastRunInv'
    BY <2>1, <2>2 DEF IInv, LastRunInv, ReceiptInv, Alert
  <2>4. ListInv'
    BY <2>1 DEF ListInv, End, NoListing
  <2> QED BY <2>1, <2>3, <2>4, EndStep, SameIssues DEF IInv
<1>8. ASSUME Tick \/ Change \/ PeopleLabel \/ UNCHANGED vars PROVE IInv'
  <2>1. UNCHANGED <<issues, hidden, run, lastRun, announced>>
    BY <1>8 DEF Tick, Change, PeopleLabel, vars, tracker
  <2>2. ListInv' /\ OneInv'
    BY <2>1 DEF IInv, ListInv, OneInv, run, Existing, Trackers
  <2> QED BY <2>1, <2>2, QuietStep DEF IInv
<1>9. ASSUME PeopleToggle PROVE IInv'
  <2>1. UNCHANGED <<hidden, run, lastRun, announced>>
    BY <1>9 DEF PeopleToggle
  <2>2. issues \in [Numbers -> Issues]
    BY <1>0 DEF TypeOK
  <2>3. Existing' = Existing /\ Trackers' = Trackers
    BY <1>9, <2>2 DEF PeopleToggle, Existing, Trackers, Issues
  <2>4. ListInv' /\ OneInv'
    BY <2>1, <2>3 DEF IInv, ListInv, OneInv, run
  <2> QED BY <2>1, <2>4, QuietStep DEF IInv
<1>10. ASSUME PeopleHide PROVE IInv'
  <2>1. hidden' /\ UNCHANGED <<run, lastRun, announced>>
    BY <1>10 DEF PeopleHide
  <2>2. issues \in [Numbers -> Issues]
    BY <1>0 DEF TypeOK
  <2>3. Existing' = Existing
    BY <1>10, <2>2 DEF PeopleHide, Existing, Trackers, Issues
  <2>4. ListInv' /\ OneInv'
    BY <2>1, <2>3 DEF IInv, ListInv, OneInv, run
  <2> QED BY <2>1, <2>4, QuietStep DEF IInv
<1>11. ASSUME PeopleRestore PROVE IInv'
  <2>1. UNCHANGED <<hidden, run, lastRun, announced>>
    BY <1>11 DEF PeopleRestore
  <2>2. issues \in [Numbers -> Issues]
    BY <1>0 DEF TypeOK
  <2>3. Existing' = Existing
    BY <1>11, <2>2 DEF PeopleRestore, Existing, Issues
  <2>4. hidden
    BY <1>11 DEF PeopleRestore, IInv, OneInv
  <2>5. ListInv' /\ OneInv'
    BY <2>1, <2>3, <2>4 DEF IInv, ListInv, OneInv, run
  <2> QED BY <2>1, <2>5, QuietStep DEF IInv
<1> QED
  BY <1>1, <1>2, <1>3, <1>4, <1>5, <1>6, <1>7, <1>8, <1>9, <1>10, <1>11 DEF Next, Steps

THEOREM InvCorrect == Spec => []IInv
<1>1. Init => IInv
  BY TypeInit, InvInit DEF IInv
<1>2. IInv /\ [Next]_vars => IInv'
  BY TypeStep, InvStep DEF IInv
<1> QED BY <1>1, <1>2, PTL DEF Spec

(* planExpiryTrackerReconciliation: without hidden issues there is at most   *)
(* one tracker, after any number of failed requests and lost answers.        *)
THEOREM OneTrackerCorrect == Spec => []OneTracker
<1>1. IInv => OneTracker
  BY DEF IInv, OneInv, OneTracker
<1> QED BY <1>1, InvCorrect, PTL

(* evaluateAudit and the planner: an exception that expires within the       *)
(* window of a complete run that saw it in force has been announced.         *)
THEOREM ExpiryIsAnnouncedCorrect == Spec => []ExpiryIsAnnounced
<1>1. IInv => ExpiryIsAnnounced
  <2> SUFFICES ASSUME IInv, lastRun # None,
                      NEW e \in receipt.expired \cap lastRun.receipt.applied,
                      receipt.at <= lastRun.receipt.at + lastRun.window * Day
               PROVE  e \in announced
    BY DEF ExpiryIsAnnounced
  <2>1. e[2] <= receipt.at /\ e[2] \in Int /\ receipt.at \in Int /\ lastRun.receipt.at \in Int
    BY BoundsAssumption DEF IInv, ReceiptInv, TypeOK, Receipts, Entries, Times
  <2>2. lastRun.window * Day \in Int
    <3>1. lastRun.window \in Windows \cup {0, Window}
      BY DEF IInv, TypeOK
    <3>2. Windows \cup {0, Window} \subseteq Nat
      BY TimeAssumption
    <3>3. lastRun.window \in Nat
      BY <3>1, <3>2
    <3> QED BY <3>3, TimeAssumption
  <2>3. e[2] <= lastRun.receipt.at + lastRun.window * Day
    BY <2>1, <2>2
  <2> QED BY <2>3 DEF IInv, LastRunInv
<1> QED BY <1>1, InvCorrect, PTL

(* The planner: without an alert, only a run whose audit passed closes a     *)
(* tracker, so that an audit that could not be made closes none.             *)
THEOREM ResolvedOnlyWhenSeenCorrect == Spec => ResolvedOnlyWhenSeen
<1> DEFINE Closes(n) == issues[n].state = "open" /\ issues'[n].state = "closed" /\ people' = people
           Seen == Alert(receipt) # {} \/ receipt.status = "passed"
<1>1. ASSUME IInv, [Next]_vars, NEW n \in Numbers, Closes(n) PROVE Seen
  <2>1. issues' # issues
    BY <1>1
  <2>2. Execute
    BY <1>1, <2>1
      DEF Next, Steps, Scheduled, Dispatch, Begin, Audit, ListIssues, ListLabels, Refused, Finish,
          Abandon, Tick, Change, PeopleToggle, PeopleHide, PeopleRestore, PeopleLabel, Act, vars,
          tracker, IInv, TypeOK
  <2>3. pc = "execute" /\ todo # {}
    BY <2>2 DEF Execute
  <2> QED BY <1>1, <2>3 DEF IInv, PlanInv
<1>2. IInv /\ [Next]_vars =>
        [\A n \in Numbers :
           issues[n].state = "open" /\ issues'[n].state = "closed" /\ people' = people => Seen]_vars
  BY <1>1
<1> QED BY <1>2, InvCorrect, PTL DEF Spec, ResolvedOnlyWhenSeen

-----------------------------------------------------------------------------
(* What a run achieves that nobody interferes with.  AlertIsTracked and       *)
(* ClearIsClosed rest on it: it is their safety half.                         *)

Closing(op, n) == op.kind = "close" /\ op.number = n
Rewriting(op, n) == op.kind \in {"update", "reopen"} /\ op.number = n

ClearsAll ==
  receipt.status = "passed" =>
    /\ \A op \in todo : op.kind \in {"comment", "close"}
    /\ \A n \in OpenTrackers : \E op \in todo : Closing(op, n)
CreatesOne ==
  /\ Trackers = {} /\ Operation(1, "create", 0) \in todo
  /\ todo \subseteq {Operation(0, "label", 0), Operation(1, "create", 0)}
LeavesOne(n) ==
  /\ \A op \in todo : \/ op.kind = "comment" \/ Rewriting(op, n)
                      \/ op.kind = "close" /\ op.number # n
  /\ \A k \in OpenTrackers \ {n} : \E op \in todo : Closing(op, k)
  /\ issues[n].state = "open" \/ \E op \in todo : op.kind = "reopen"
  /\ issues[n].body = Alert(receipt) \/ \E op \in todo : Rewriting(op, n)

(* The listing is still true, and the operations that are left, executed on   *)
(* the issues as they are, lead where the plan was to lead.                   *)
OnCourse ==
  /\ pc = "labels" => listing = [n \in Trackers |-> issues[n].state]
  /\ pc = "execute" =>
       IF Alert(receipt) = {} THEN ClearsAll ELSE CreatesOne \/ \E n \in Trackers : LeavesOne(n)

Reached ==
  IF Alert(receipt) = {} THEN receipt.status = "passed" => OpenTrackers = {}
  ELSE \E n \in Numbers : OpenTrackers = {n} /\ issues[n].body = Alert(receipt)

(* A run that lists the trackers is on course, stays so until people touch    *)
(* the issues, and when it has executed its plan on course there is one open  *)
(* tracker with the alert, or none without an alert and after a pass.         *)
UndisturbedRunsConverge ==
  [][/\ pc = "issues" /\ pc' = "labels" => OnCourse'
     /\ OnCourse /\ people' = people => OnCourse'
     /\ Finish /\ OnCourse => Reached]_vars

LEMMA CloseCloses ==
  ASSUME NEW numbers \in SUBSET Numbers
  PROVE  /\ \A n \in numbers : \E op \in Close(numbers) : Closing(op, n)
         /\ \A op \in Close(numbers) : op.kind = "comment" \/ (op.kind = "close" /\ op.number \in numbers)
<1>1. \A n \in numbers : /\ Operation(2 * n + 2, "close", n) \in Close(numbers)
                         /\ Closing(Operation(2 * n + 2, "close", n), n)
  BY DEF Close, Operation, Closing
<1>2. \A op \in Close(numbers) : op.kind = "comment" \/ (op.kind = "close" /\ op.number \in numbers)
  BY DEF Close, Operation
<1> QED BY <1>1, <1>2

(* planExpiryTrackerReconciliation: the plan of a listing that is true.       *)
LEMMA PlanIsOnCourse ==
  ASSUME TypeOK, OnCourse, ListLabels
  PROVE  OnCourse'
<1> DEFINE open == OpenTrackers
           closed == Trackers \ OpenTrackers
           plan == todo'
<1>1. /\ pc = "labels" /\ pc' = "execute" /\ plan = Plan(receipt, listing, label)
      /\ issues' = issues /\ receipt' = receipt
  BY DEF ListLabels, tracker
<1>2. listing = [n \in Trackers |-> issues[n].state]
  BY <1>1 DEF OnCourse
<1>3. \A n \in Trackers : n \in Numbers /\ issues[n].state \in {"open", "closed"}
  BY DEF TypeOK, Trackers, Existing, Issues
<1>4. /\ Listed(listing, "open") = open /\ Listed(listing, "closed") = closed
      /\ DOMAIN listing = Trackers
  BY <1>2, <1>3 DEF Listed, OpenTrackers
<1>5. open \subseteq Trackers /\ open \in SUBSET Numbers /\ closed \in SUBSET Numbers
  BY <1>3 DEF OpenTrackers
<1>6. /\ Trackers' = Trackers /\ OpenTrackers' = open /\ Alert(receipt)' = Alert(receipt)
  BY <1>1 DEF Trackers, OpenTrackers, Existing, Alert
<1> HIDE DEF open, closed, plan
<1>7. ASSUME Alert(receipt) = {} PROVE ClearsAll'
  <2>1. receipt.status = "passed" => plan = Close(open)
    BY <1>1, <1>4, <1>7 DEF Plan, PlanClear
  <2>2. receipt.status = "passed" => /\ \A op \in plan : op.kind \in {"comment", "close"}
                                     /\ \A n \in open : \E op \in plan : Closing(op, n)
    BY <1>5, <2>1, CloseCloses
  <2> QED BY <1>1, <1>6, <2>2 DEF ClearsAll, Closing, plan
<1>8. ASSUME Alert(receipt) # {} PROVE CreatesOne' \/ \E n \in Trackers : LeavesOne(n)'
  <2>1. plan = PlanAlert(listing, label)
    BY <1>1, <1>8 DEF Plan
  <2>2. CASE Trackers = {}
    <3>1. plan = (IF ~label THEN {Operation(0, "label", 0)} ELSE {}) \cup {Operation(1, "create", 0)}
      BY <1>4, <1>5, <2>1, <2>2 DEF PlanAlert, closed
    <3> QED BY <1>6, <2>2, <3>1 DEF CreatesOne, plan
  <2>3. CASE open # {}
    <3> PICK n \in Numbers : n = Oldest(open)
      BY <1>5, <2>3, Extremes
    <3> DEFINE rest == Close(open \ {n})
    <3>1. n \in open
      BY <1>5, <2>3, Extremes
    <3>2. plan = {Operation(1, "update", n), Operation(2, "comment", n)} \cup rest
      BY <1>4, <1>5, <2>1, <2>3 DEF PlanAlert
    <3>3. /\ \A k \in open \ {n} : \E op \in rest : Closing(op, k)
          /\ \A op \in rest : op.kind = "comment" \/ (op.kind = "close" /\ op.number \in open \ {n})
      BY <1>5, CloseCloses
    <3>4. issues[n].state = "open"
      BY <3>1 DEF OpenTrackers, open
    <3>5. Rewriting(Operation(1, "update", n), n) /\ Operation(2, "comment", n).kind = "comment"
      BY DEF Rewriting, Operation
    <3> HIDE DEF rest
    <3>6. /\ \A op \in plan : \/ op.kind = "comment" \/ Rewriting(op, n)
                              \/ op.kind = "close" /\ op.number # n
          /\ \A k \in open \ {n} : \E op \in plan : Closing(op, k)
          /\ \E op \in plan : Rewriting(op, n)
      BY <3>2, <3>3, <3>5
    <3>7. LeavesOne(n)'
      BY <1>1, <1>6, <3>4, <3>6 DEF LeavesOne, Rewriting, Closing, plan
    <3> QED BY <1>5, <3>1, <3>7
  <2>4. CASE open = {} /\ closed # {}
    <3> PICK n \in Numbers : n = Latest(closed)
      BY <1>5, <2>4, Extremes
    <3>1. n \in closed
      BY <1>5, <2>4, Extremes
    <3>2. plan = {Operation(1, "reopen", n), Operation(2, "comment", n)}
      <4>1. Trackers # {}
        BY <3>1 DEF closed
      <4> QED BY <1>4, <2>1, <2>4, <4>1 DEF PlanAlert
    <3>3. /\ Rewriting(Operation(1, "reopen", n), n) /\ Operation(2, "comment", n).kind = "comment"
          /\ Operation(1, "reopen", n).kind = "reopen"
      BY DEF Rewriting, Operation
    <3>4. /\ \A op \in plan : op.kind = "comment" \/ Rewriting(op, n)
          /\ \E op \in plan : op.kind = "reopen" /\ Rewriting(op, n)
      BY <3>2, <3>3
    <3>5. LeavesOne(n)'
      BY <1>6, <2>4, <3>4 DEF LeavesOne, Rewriting, Closing, plan
    <3> QED BY <3>1, <3>5 DEF closed
  <2> QED BY <2>2, <2>3, <2>4, <1>5 DEF closed, open
<1> QED BY <1>1, <1>6, <1>7, <1>8 DEF OnCourse

(* What requests to close and to rewrite an issue do to the trackers.         *)
LEMMA CloseEffect ==
  ASSUME TypeOK, ListInv, NEW op \in todo, op.kind = "close", CloseIssue(op)
  PROVE  /\ Trackers' = Trackers /\ OpenTrackers' = OpenTrackers \ {op.number}
         /\ \A k \in Numbers : /\ issues'[k].body = issues[k].body
                               /\ k # op.number => issues'[k] = issues[k]
<1>1. op.number \in Existing
  BY DEF TypeOK, ListInv
<1>2. issues \in [Numbers -> Issues]
  BY DEF TypeOK
<1> QED BY <1>1, <1>2 DEF CloseIssue, Trackers, OpenTrackers, Existing, Issues

LEMMA RewriteEffect ==
  ASSUME TypeOK, NEW op, op.kind \in {"update", "reopen"}, op.number \in Trackers, Rewrite(op)
  PROVE  /\ Trackers' = Trackers /\ OpenTrackers' \subseteq OpenTrackers \cup {op.number}
         /\ issues'[op.number].body = Alert(receipt)
         /\ op.kind = "reopen" => issues'[op.number].state = "open"
         /\ op.kind = "update" => issues'[op.number].state = issues[op.number].state
<1>1. op.number \in Existing
  BY DEF Trackers
<1>2. issues \in [Numbers -> Issues]
  BY DEF TypeOK
<1> QED BY <1>1, <1>2 DEF Rewrite, Trackers, OpenTrackers, Existing, Issues

LEMMA PerformsOne ==
  ASSUME NEW op, Perform(op)
  PROVE  /\ op.kind = "close" => CloseIssue(op)
         /\ op.kind \in {"update", "reopen"} => Rewrite(op)
         /\ op.kind = "create" => Create(op)
         /\ op.kind \in {"label", "comment"} => issues' = issues
BY DEF Perform, CreateLabel, Create, Rewrite, Comment, CloseIssue, tracker

(* One operation of a plan brings it nearer to where it leads.                *)
LEMMA ExecuteIsOnCourse ==
  ASSUME IInv, OnCourse, pc = "execute", NEW op \in todo, First(op), Perform(op),
         todo' = todo \ {op}, UNCHANGED <<pc, receipt>>
  PROVE  OnCourse'
<1>1. TypeOK /\ ListInv
  BY DEF IInv
<1>2. Alert(receipt)' = Alert(receipt) /\ pc' = "execute"
  BY DEF Alert
<1>3. ASSUME issues' = issues
      PROVE  Trackers' = Trackers /\ OpenTrackers' = OpenTrackers
  BY <1>3 DEF Trackers, OpenTrackers, Existing
<1>4. ASSUME Alert(receipt) = {} PROVE ClearsAll'
  <2> SUFFICES ASSUME receipt.status = "passed" PROVE ClearsAll'
    BY DEF ClearsAll
  <2>1. /\ \A o \in todo : o.kind \in {"comment", "close"}
        /\ \A n \in OpenTrackers : \E o \in todo : Closing(o, n)
    BY <1>4 DEF OnCourse, ClearsAll
  <2>2. \A n \in OpenTrackers' : n \in OpenTrackers /\ ~Closing(op, n)
    <3>1. CASE op.kind = "comment"
      BY <1>3, <3>1, PerformsOne DEF Closing
    <3>2. CASE op.kind = "close"
      BY <1>1, <3>2, PerformsOne, CloseEffect DEF Closing
    <3> QED BY <2>1, <3>1, <3>2
  <2>3. /\ \A o \in todo' : o.kind \in {"comment", "close"}
        /\ \A n \in OpenTrackers' : \E o \in todo' : Closing(o, n)
    BY <2>1, <2>2
  <2> QED BY <2>3 DEF ClearsAll, Closing
<1>5. ASSUME CreatesOne PROVE CreatesOne' \/ \E n \in Trackers' : LeavesOne(n)'
  <2>1. op = Operation(0, "label", 0) \/ op = Operation(1, "create", 0)
    BY <1>5 DEF CreatesOne
  <2>2. CASE op = Operation(0, "label", 0)
    <3>1. op.kind = "label" /\ op # Operation(1, "create", 0)
      BY <2>2 DEF Operation
    <3>2. Trackers' = Trackers
      BY <1>3, <3>1, PerformsOne
    <3> QED BY <1>5, <3>1, <3>2 DEF CreatesOne
  <2>3. CASE op = Operation(1, "create", 0)
    <3>1. op.kind = "create" /\ op.at = 1 /\ Operation(0, "label", 0).at = 0
      BY <2>3 DEF Operation
    <3>2. Operation(0, "label", 0) \notin todo
      BY <3>1 DEF First
    <3>3. todo' = {}
      BY <1>5, <2>3, <3>2 DEF CreatesOne
    <3>4. PICK n \in Numbers \ Existing :
            issues' = [issues EXCEPT ![n] = [state |-> "open", labelled |-> TRUE, marker |-> TRUE,
                                             body |-> Alert(receipt)]]
      BY <3>1, PerformsOne DEF Create
    <3>5. issues \in [Numbers -> Issues] /\ Trackers = {}
      BY <1>1, <1>5 DEF TypeOK, CreatesOne
    <3>6. issues'[n].state = "open" /\ issues'[n].body = Alert(receipt)
      BY <3>4, <3>5
    <3>7. Trackers' = {n}
      BY <3>4, <3>5 DEF Trackers, Existing
    <3>8. OpenTrackers' \subseteq {n}
      BY <3>7 DEF OpenTrackers
    <3> QED BY <1>2, <3>3, <3>6, <3>7, <3>8 DEF LeavesOne
  <2> QED BY <2>1, <2>2, <2>3
<1>6. ASSUME NEW n \in Trackers, LeavesOne(n) PROVE n \in Trackers' /\ LeavesOne(n)'
  <2>1. /\ \A o \in todo : o.kind = "comment" \/ Rewriting(o, n) \/ (o.kind = "close" /\ o.number # n)
        /\ \A k \in OpenTrackers \ {n} : \E o \in todo : Closing(o, k)
        /\ issues[n].state = "open" \/ \E o \in todo : o.kind = "reopen"
        /\ issues[n].body = Alert(receipt) \/ \E o \in todo : Rewriting(o, n)
    BY <1>6 DEF LeavesOne
  <2>2. n \in Numbers
    BY DEF Trackers, Existing
  <2>3. /\ Trackers' = Trackers
        /\ \A k \in OpenTrackers' \ {n} : k \in OpenTrackers /\ ~Closing(op, k)
        /\ issues'[n].state = "open" \/ \E o \in todo' : o.kind = "reopen"
        /\ issues'[n].body = Alert(receipt) \/ \E o \in todo' : Rewriting(o, n)
    <3>1. CASE op.kind = "comment"
      BY <1>3, <2>1, <3>1, PerformsOne DEF Closing, Rewriting
    <3>2. CASE op.kind = "close" /\ op.number # n
      BY <1>1, <2>1, <2>2, <3>2, PerformsOne, CloseEffect DEF Closing, Rewriting
    <3>3. CASE Rewriting(op, n)
      <4>1. op.kind \in {"update", "reopen"} /\ op.number = n /\ Rewrite(op)
        BY <3>3, PerformsOne DEF Rewriting
      <4>2. /\ Trackers' = Trackers /\ OpenTrackers' \subseteq OpenTrackers \cup {n}
            /\ issues'[n].body = Alert(receipt)
            /\ op.kind = "reopen" => issues'[n].state = "open"
            /\ op.kind = "update" => issues'[n].state = issues[n].state
        BY <1>1, <4>1, RewriteEffect
      <4> QED BY <2>1, <4>1, <4>2 DEF Closing
    <3> QED BY <2>1, <3>1, <3>2, <3>3
  <2>4. /\ \A o \in todo' : o.kind = "comment" \/ Rewriting(o, n) \/ (o.kind = "close" /\ o.number # n)
        /\ \A k \in OpenTrackers' \ {n} : \E o \in todo' : Closing(o, k)
    BY <2>1, <2>3
  <2> QED BY <1>2, <2>3, <2>4 DEF LeavesOne, Closing, Rewriting
<1> QED BY <1>2, <1>4, <1>5, <1>6 DEF OnCourse

(* A run that is on course and has nothing left to do has arrived.            *)
LEMMA CourseIsRun ==
  ASSUME TypeOK, OnCourse, pc = "execute", todo = {}
  PROVE  Reached
<1>1. CASE Alert(receipt) = {}
  BY <1>1 DEF OnCourse, ClearsAll, Reached
<1>2. CASE Alert(receipt) # {}
  <2>1. PICK n \in Trackers : LeavesOne(n)
    BY <1>2 DEF OnCourse, CreatesOne
  <2>2. issues[n].state = "open" /\ issues[n].body = Alert(receipt) /\ OpenTrackers \subseteq {n}
    BY <2>1 DEF LeavesOne
  <2>3. n \in OpenTrackers /\ n \in Numbers
    BY <2>2 DEF OpenTrackers, Trackers, Existing
  <2> QED BY <1>2, <2>2, <2>3 DEF Reached
<1> QED BY <1>1, <1>2

(* The safety half of AlertIsTracked and ClearIsClosed: what a complete run   *)
(* that nobody interferes with achieves, whatever it found, and although the  *)
(* findings, the ledger and the time go on while it runs.                     *)
THEOREM RunsConverge == Spec => UndisturbedRunsConverge
<1>1. ASSUME IInv, [Next]_vars, pc = "issues", pc' = "labels" PROVE OnCourse'
  <2>1. ListIssues
    BY <1>1 DEF Next, Steps, Scheduled, Dispatch, Begin, Audit, ListLabels, Execute, Refused, Finish,
         Abandon, End, Tick, Change, PeopleToggle, PeopleHide, PeopleRestore, PeopleLabel, vars, run
  <2>2. issues' = issues /\ listing' = [n \in Trackers |-> issues[n].state]
    BY <2>1 DEF ListIssues, tracker
  <2>3. Trackers' = Trackers
    BY <2>2 DEF Trackers, Existing
  <2> QED BY <1>1, <2>2, <2>3 DEF OnCourse
<1>2. ASSUME IInv, [Next]_vars, OnCourse, people' = people PROVE OnCourse'
  <2>1. CASE ListLabels
    BY <1>2, <2>1, PlanIsOnCourse DEF IInv
  <2>2. CASE Execute
    <3>1. PICK op \in todo : /\ First(op) /\ Perform(op)
                             /\ \/ todo' = todo \ {op} /\ UNCHANGED <<pc, receipt>>
                                \/ pc' = "idle"
      BY <2>2 DEF Execute, End
    <3>2. pc = "execute"
      BY <2>2 DEF Execute
    <3>3. CASE pc' = "idle"
      BY <3>3 DEF OnCourse
    <3> QED BY <1>2, <3>1, <3>2, <3>3, ExecuteIsOnCourse
  <2>3. CASE ListIssues
    BY <1>1, <1>2, <2>3 DEF ListIssues
  <2>4. CASE pc' \notin {"labels", "execute"}
    BY <2>4 DEF OnCourse
  <2>5. CASE UNCHANGED <<issues, pc, receipt, listing, todo>>
    BY <1>2, <2>5 DEF OnCourse, ClearsAll, CreatesOne, LeavesOne, Closing, Rewriting, Trackers,
         OpenTrackers, Existing, Alert
  <2>6. \/ ListLabels \/ Execute \/ ListIssues \/ pc' \notin {"labels", "execute"}
        \/ UNCHANGED <<issues, pc, receipt, listing, todo>>
    <3>1. /\ Act => people' # people
          /\ Scheduled \/ Dispatch \/ Audit \/ Refused \/ Finish \/ Abandon =>
               pc' \notin {"labels", "execute"}
      BY <1>2 DEF Act, IInv, TypeOK, Scheduled, Dispatch, Begin, Audit, Refused, Finish, Abandon, End
    <3> QED BY <1>2, <3>1 DEF Next, Steps, Tick, Change, PeopleToggle, PeopleHide, PeopleRestore,
              PeopleLabel, vars, run, tracker
  <2> QED BY <2>1, <2>2, <2>3, <2>4, <2>5, <2>6
<1>3. ASSUME IInv, Finish, OnCourse PROVE Reached
  BY <1>3, CourseIsRun DEF Finish, IInv
<1>4. IInv /\ [Next]_vars =>
        [/\ pc = "issues" /\ pc' = "labels" => OnCourse'
         /\ OnCourse /\ people' = people => OnCourse'
         /\ Finish /\ OnCourse => Reached]_vars
  BY <1>1, <1>2, <1>3
<1> QED BY <1>4, InvCorrect, PTL DEF Spec, UndisturbedRunsConverge
=============================================================================
