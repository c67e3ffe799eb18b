----------------------------- MODULE ExpiryTracker -----------------------------
(***************************************************************************)
(* The issue that tracks npm advisory exceptions which have expired or are  *)
(* about to (npm-audit-policy.mjs, npm-audit-expiry-tracker.mjs and the     *)
(* scheduled workflow that runs them): daily runs that audit, list issues   *)
(* and labels, plan and execute REST operations one by one; a registry and  *)
(* a ledger of exceptions that change; people who close, reopen, hide and   *)
(* restore issues in between; requests that fail, and answers that are lost.*)
(*                                                                          *)
(* Runs are serialized by the workflow's concurrency group.  An audit finds *)
(* a set of advisories of enforced severity; an entry is an advisory with   *)
(* the expiry of its exception.  The text of an issue is the entries it     *)
(* names; comments are not kept, but the requests that post them can fail.  *)
(***************************************************************************)
EXTENDS Integers, FiniteSets

CONSTANTS
  Advisories,  \* advisories with the package path they reach
  None,        \* no exception, no run yet
  Day,         \* instants in a day
  Window,      \* warning window of the schedule, in days
  Windows,     \* windows that people dispatch a run with
  MaxTime,     \* bound on time
  MaxIssues,   \* bound on issues
  MaxEdits,    \* bound on changes of the findings and the ledger
  MaxPeople,   \* bound on what people do to issues, labels and runs
  MaxFailures  \* bound on failed audits, requests and runs

ASSUME TimeAssumption == Day \in Nat \ {0} /\ Window \in Nat /\ Windows \subseteq Nat
ASSUME BoundsAssumption == {MaxTime, MaxIssues, MaxEdits, MaxPeople, MaxFailures} \subseteq Nat
ASSUME NoneAssumption == None \notin Nat

VARIABLES
  now,        \* the clock
  findings,   \* advisories that an audit finds
  ledger,     \* expiry of the exception for each advisory, None without one
  issues,     \* issues that have been trackers, by number
  label,      \* whether the repository has the label
  pc,         \* step of the current run
  job,        \* its window, and the ledger it checked out
  receipt,    \* its audit receipt
  listing,    \* its listing of trackers: number to state
  todo,       \* its planned operations that are not executed yet
  lastRun,    \* window and receipt of the last run that executed its whole plan
  announced,  \* entries that have been written into an issue
  hidden,     \* whether people ever took the label or the marker off an issue
  edits, people, failures

world == <<now, findings, ledger>>
tracker == <<issues, label>>
run == <<pc, job, receipt, listing, todo>>
counts == <<edits, people, failures>>
vars == <<world, tracker, run, lastRun, announced, hidden, counts>>

Times == 0 .. MaxTime
Numbers == 1 .. MaxIssues
Entries == Advisories \X Times
Ledgers == [Advisories -> Times \cup {None}]

-----------------------------------------------------------------------------
(* The audit policy.                                                        *)

(* Mutant of Evaluate: an exception is soon only strictly inside the window. *)
EvaluateStrictly(found, exceptions, at, window) ==
  LET exempt  == {a \in found : exceptions[a] # None}
      expired == {a \in exempt : exceptions[a] <= at}
      soon    == {a \in exempt \ expired : exceptions[a] - at < window * Day}
      With(as) == {<<a, exceptions[a]>> : a \in as}
  IN  [status  |-> IF exempt = found /\ expired = {} THEN "passed" ELSE "stopped_for_evaluation",
       at      |-> at,
       expired |-> With(expired),
       applied |-> With(exempt \ expired),
       soon    |-> With(soon)]

(* evaluateAudit: every finding needs an exception that has not expired.    *)
Evaluate(found, exceptions, at, window) ==
  LET exempt  == {a \in found : exceptions[a] # None}
      expired == {a \in exempt : exceptions[a] <= at}
      soon    == {a \in exempt \ expired : exceptions[a] - at <= window * Day}
      With(as) == {<<a, exceptions[a]>> : a \in as}
  IN  [status  |-> IF exempt = found /\ expired = {} THEN "passed" ELSE "stopped_for_evaluation",
       at      |-> at,
       expired |-> With(expired),
       applied |-> With(exempt \ expired),
       soon    |-> With(soon)]

(* An audit that could not be made says nothing of any exception.           *)
FailedReceipt == [status |-> "failed", at |-> 0, expired |-> {}, applied |-> {}, soon |-> {}]

(* buildExceptionExpiryAlert: what the alert names; no alert without any.   *)
Alert(of) == of.expired \cup of.soon

-----------------------------------------------------------------------------
(* The planner.  Operations are executed by ascending place.                *)

Operation(at, kind, number) == [at |-> at, kind |-> kind, number |-> number]

(* closeOperations: the comment first. *)
Close(numbers) ==
  {Operation(2 * n + 1, "comment", n) : n \in numbers}
    \cup {Operation(2 * n + 2, "close", n) : n \in numbers}

Listed(listed, state) == {n \in DOMAIN listed : listed[n] = state}
Oldest(numbers) == CHOOSE n \in numbers : \A k \in numbers : n <= k
Latest(numbers) == CHOOSE n \in numbers : \A k \in numbers : n >= k

(* Mutant of PlanClear: the outcome of the gate is not asked for. *)
PlanClearUngated(of, listed) == Close(Listed(listed, "open"))

(* Mutant of PlanClear: a closed tracker is taken to mean that all are. *)
PlanClearOnce(of, listed) ==
  IF of.status = "passed" /\ Listed(listed, "closed") = {}
  THEN Close(Listed(listed, "open")) ELSE {}

(* Without an alert: every open tracker is closed, if the gate passed. *)
PlanClear(of, listed) ==
  IF of.status = "passed" THEN Close(Listed(listed, "open")) ELSE {}

(* Mutant of PlanAlert: a closed tracker is forgotten. *)
PlanAlertAnew(listed, labelListed) ==
  LET open == Listed(listed, "open") IN
  (IF ~labelListed /\ DOMAIN listed = {} THEN {Operation(0, "label", 0)} ELSE {})
  \cup
  IF open # {}
  THEN {Operation(1, "update", Oldest(open)), Operation(2, "comment", Oldest(open))}
         \cup Close(open \ {Oldest(open)})
  ELSE {Operation(1, "create", 0)}

(* With one: update the oldest open tracker and close the others, reopen the *)
(* latest one when all are closed, create one when there is none.            *)
PlanAlert(listed, labelListed) ==
  LET open   == Listed(listed, "open")
      closed == Listed(listed, "closed")
  IN  (IF ~labelListed /\ DOMAIN listed = {} THEN {Operation(0, "label", 0)} ELSE {})
      \cup
      IF open # {}
      THEN {Operation(1, "update", Oldest(open)), Operation(2, "comment", Oldest(open))}
             \cup Close(open \ {Oldest(open)})
      ELSE IF closed # {}
           THEN {Operation(1, "reopen", Latest(closed)), Operation(2, "comment", Latest(closed))}
           ELSE {Operation(1, "create", 0)}

(* planExpiryTrackerReconciliation. *)
Plan(of, listed, labelListed) ==
  IF Alert(of) = {} THEN PlanClear(of, listed) ELSE PlanAlert(listed, labelListed)

-----------------------------------------------------------------------------
(* A run of the workflow.                                                   *)

NoIssue == [state |-> "none", labelled |-> FALSE, marker |-> FALSE, body |-> {}]
NoJob == [window |-> 0, ledger |-> [a \in Advisories |-> None]]
NoListing == [n \in {} |-> "open"]

Existing == {n \in Numbers : issues[n].state # "none"}
Trackers == {n \in Existing : issues[n].labelled /\ issues[n].marker}
OpenTrackers == {n \in Trackers : issues[n].state = "open"}

Init ==
  /\ now = 0 /\ findings \in SUBSET Advisories /\ ledger \in Ledgers
  /\ issues = [n \in Numbers |-> NoIssue] /\ label = FALSE
  /\ pc = "idle" /\ job = NoJob /\ receipt = FailedReceipt /\ listing = NoListing /\ todo = {}
  /\ lastRun = None /\ announced = {} /\ hidden = FALSE
  /\ edits = 0 /\ people = 0 /\ failures = 0

(* The run ends; nothing of it is left but the issues. *)
End ==
  /\ pc' = "idle" /\ job' = NoJob /\ receipt' = FailedReceipt
  /\ listing' = NoListing /\ todo' = {}

Failing == failures < MaxFailures /\ failures' = failures + 1

(* A run starts from the head of the default branch. *)
Begin(window) ==
  /\ pc = "idle"
  /\ pc' = "audit"
  /\ job' = [window |-> window, ledger |-> ledger]
  /\ UNCHANGED <<world, tracker, receipt, listing, todo, lastRun, announced, hidden,
                 edits, failures>>

Scheduled == Begin(Window) /\ UNCHANGED people

Dispatch ==
  /\ people < MaxPeople /\ people' = people + 1
  /\ \E window \in Windows : Begin(window)

(* The audit passes, stops or cannot be made; the run goes on in each case. *)
Audit ==
  /\ pc = "audit"
  /\ pc' = "issues"
  /\ \/ /\ receipt' = Evaluate(findings, job.ledger, now, job.window)
        /\ UNCHANGED failures
     \/ receipt' = FailedReceipt /\ Failing
  /\ UNCHANGED <<world, tracker, job, listing, todo, lastRun, announced, hidden, edits, people>>

(* selectExpiryTrackers of the listing: label, marker and no pull request. *)
ListIssues ==
  /\ pc = "issues"
  /\ pc' = "labels"
  /\ listing' = [n \in Trackers |-> issues[n].state]
  /\ UNCHANGED <<world, tracker, job, receipt, todo, lastRun, announced, hidden, counts>>

(* The labels are listed, and the planner is run on both listings. *)
ListLabels ==
  /\ pc = "labels"
  /\ pc' = "execute"
  /\ todo' = Plan(receipt, listing, label)
  /\ UNCHANGED <<world, tracker, job, receipt, listing, lastRun, announced, hidden, counts>>

(* What a request does.  A label that is there already cannot be created. *)
CreateLabel(op) ==
  /\ op.kind = "label" /\ ~label
  /\ label' = TRUE
  /\ UNCHANGED <<issues, announced>>

Create(op) ==
  /\ op.kind = "create"
  /\ \E n \in Numbers \ Existing :
       /\ \A k \in Numbers \ Existing : n <= k
       /\ issues' = [issues EXCEPT ![n] = [state |-> "open", labelled |-> TRUE, marker |-> TRUE,
                                            body |-> Alert(receipt)]]
  /\ label' = TRUE
  /\ announced' = announced \cup Alert(receipt)

(* Mutant of Rewrite: a reopened issue gets its text and not its state. *)
RewriteText(op) ==
  /\ op.kind \in {"update", "reopen"}
  /\ issues' = [issues EXCEPT ![op.number].body = Alert(receipt), ![op.number].marker = TRUE]
  /\ announced' = announced \cup Alert(receipt)
  /\ UNCHANGED label

(* PATCH of title, body and, for a reopened issue, the state: the new body   *)
(* has the marker; the label is left as it is.                               *)
Rewrite(op) ==
  /\ op.kind \in {"update", "reopen"}
  /\ issues' = [issues EXCEPT ![op.number].body = Alert(receipt), ![op.number].marker = TRUE,
                              ![op.number].state = IF op.kind = "reopen" THEN "open" ELSE @]
  /\ announced' = announced \cup Alert(receipt)
  /\ UNCHANGED label

Comment(op) ==
  /\ op.kind = "comment"
  /\ UNCHANGED <<tracker, announced>>

CloseIssue(op) ==
  /\ op.kind = "close"
  /\ issues' = [issues EXCEPT ![op.number].state = "closed"]
  /\ UNCHANGED <<label, announced>>

Perform(op) ==
  CreateLabel(op) \/ Create(op) \/ Rewrite(op) \/ Comment(op) \/ CloseIssue(op)

(* Operations are executed in the order they were planned in. *)
First(op) == \A other \in todo : op.at <= other.at

(* The next operation is executed; its answer may be lost, which ends the    *)
(* run as a refusal does.                                                    *)
Execute ==
  /\ pc = "execute"
  /\ \E op \in todo :
       /\ First(op)
       /\ Perform(op)
       /\ \/ todo' = todo \ {op} /\ UNCHANGED <<pc, job, receipt, listing, failures>>
          \/ End /\ Failing
  /\ UNCHANGED <<world, lastRun, hidden, edits, people>>

(* A label that is already there is refused, and the run stops at it. *)
Refused ==
  /\ pc = "execute"
  /\ \E op \in todo : op.kind = "label" /\ label
  /\ End
  /\ UNCHANGED <<world, tracker, lastRun, announced, hidden, counts>>

Finish ==
  /\ pc = "execute" /\ todo = {}
  /\ End
  /\ lastRun' = [receipt |-> receipt, window |-> job.window]
  /\ UNCHANGED <<world, tracker, announced, hidden, counts>>

(* A request fails, the runner dies or the run times out. *)
Abandon ==
  /\ pc # "idle"
  /\ End /\ Failing
  /\ UNCHANGED <<world, tracker, lastRun, announced, hidden, edits, people>>

-----------------------------------------------------------------------------
(* The world and the people.                                                *)

Tick ==
  /\ now < MaxTime
  /\ now' = now + 1
  /\ UNCHANGED <<findings, ledger, tracker, run, lastRun, announced, hidden, counts>>

(* An advisory is published or fixed, an exception added, renewed or removed. *)
Change ==
  /\ edits < MaxEdits /\ edits' = edits + 1
  /\ \E a \in Advisories :
       \/ /\ findings' = IF a \in findings THEN findings \ {a} ELSE findings \cup {a}
          /\ UNCHANGED ledger
       \/ /\ \E expiry \in Times \cup {None} : ledger' = [ledger EXCEPT ![a] = expiry]
          /\ UNCHANGED findings
  /\ UNCHANGED <<now, tracker, run, lastRun, announced, hidden, people, failures>>

Act == people < MaxPeople /\ people' = people + 1

PeopleToggle ==
  /\ Act
  /\ \E n \in Existing :
       issues' = [issues EXCEPT ![n].state = IF @ = "open" THEN "closed" ELSE "open"]
  /\ UNCHANGED <<world, label, run, lastRun, announced, hidden, edits, failures>>

(* The label or the marker is taken off an issue, or the label is deleted. *)
PeopleHide ==
  /\ Act
  /\ \/ /\ \E n \in Trackers :
             \/ issues' = [issues EXCEPT ![n].labelled = FALSE]
             \/ issues' = [issues EXCEPT ![n].marker = FALSE]
        /\ UNCHANGED label
     \/ /\ label /\ label' = FALSE
        /\ issues' = [n \in Numbers |-> [issues[n] EXCEPT !.labelled = FALSE]]
  /\ hidden' = TRUE
  /\ UNCHANGED <<world, run, lastRun, announced, edits, failures>>

PeopleRestore ==
  /\ Act
  /\ \E n \in Existing \ Trackers :
       issues' = [issues EXCEPT ![n].labelled = TRUE, ![n].marker = TRUE]
  /\ label' = TRUE
  /\ UNCHANGED <<world, run, lastRun, announced, hidden, edits, failures>>

(* The label is created by hand. *)
PeopleLabel ==
  /\ Act
  /\ ~label /\ label' = TRUE
  /\ UNCHANGED <<world, issues, run, lastRun, announced, hidden, edits, failures>>

-----------------------------------------------------------------------------
Steps == Scheduled \/ Audit \/ ListIssues \/ ListLabels \/ Execute \/ Refused \/ Finish

Next ==
  \/ Steps \/ Dispatch \/ Abandon
  \/ Tick \/ Change
  \/ PeopleToggle \/ PeopleHide \/ PeopleRestore \/ PeopleLabel

Spec == Init /\ [][Next]_vars

(* The schedule keeps starting runs, and a run that is not cut off goes on.  *)
FairSpec == Spec /\ WF_vars(Steps)

-----------------------------------------------------------------------------
(* Properties.                                                              *)

Receipts ==
  [status : {"passed", "stopped_for_evaluation", "failed"}, at : Times,
   expired : SUBSET Entries, applied : SUBSET Entries, soon : SUBSET Entries]

Issues ==
  [state : {"none", "open", "closed"}, labelled : BOOLEAN, marker : BOOLEAN,
   body : SUBSET Entries]

Operations ==
  [at : 0 .. 2 * MaxIssues + 2, number : Numbers \cup {0},
   kind : {"label", "create", "update", "reopen", "comment", "close"}]

(* Every variable has its type; only a run that executes has operations      *)
(* left, only label and create are about no issue, and they come alone.      *)
TypeOK ==
  /\ now \in Times /\ findings \subseteq Advisories /\ ledger \in Ledgers
  /\ issues \in [Numbers -> Issues]
  /\ label \in BOOLEAN
  /\ pc \in {"idle", "audit", "issues", "labels", "execute"}
  /\ job \in [window : Windows \cup {0, Window}, ledger : Ledgers]
  /\ receipt \in Receipts
  /\ \E numbers \in SUBSET Numbers : listing \in [numbers -> {"open", "closed"}]
  /\ todo \subseteq Operations /\ (todo # {} => pc = "execute")
  /\ \A op \in todo : op.kind \notin {"label", "create"} => op.number \in DOMAIN listing
  /\ lastRun \in [receipt : Receipts, window : Windows \cup {0, Window}] \cup {None}
  /\ announced \subseteq Entries /\ hidden \in BOOLEAN
  /\ edits \in 0 .. MaxEdits /\ people \in 0 .. MaxPeople /\ failures \in 0 .. MaxFailures

(* planExpiryTrackerReconciliation: as long as nobody takes the label or the *)
(* marker off an issue there is one tracker at most, although a run that     *)
(* created it may never have got the answer.                                 *)
OneTracker == ~hidden => \A n, k \in Existing : n = k

(* An exception that was in force at a run whose plan was executed, and that *)
(* a later run within that run's warning window finds expired, has been      *)
(* written into an issue before.                                             *)
ExpiryIsAnnounced ==
  lastRun # None =>
    \A entry \in receipt.expired \cap lastRun.receipt.applied :
      receipt.at <= lastRun.receipt.at + lastRun.window * Day => entry \in announced

(* A run that raises no alert closes a tracker only if its audit passed: one *)
(* that could not be made names no exception either.                         *)
ResolvedOnlyWhenSeen ==
  [][\A n \in Numbers :
       issues[n].state = "open" /\ issues'[n].state = "closed" /\ people' = people =>
         Alert(receipt) # {} \/ receipt.status = "passed"]_vars

Current == Evaluate(findings, ledger, now, Window)

(* Once there is an alert that does not go away there is, sooner or later,   *)
(* exactly one open tracker and it names what the alert names, whatever      *)
(* people and half-executed plans have left.                                 *)
AlertIsTracked ==
  <>[](Alert(Current) # {}) => <>[](\E n \in Numbers : OpenTrackers = {n}
                                                     /\ issues[n].body = Alert(Current))

(* Once the audit passes and no exception expires soon, every tracker is     *)
(* closed sooner or later.                                                   *)
ClearIsClosed ==
  <>[](Alert(Current) = {} /\ Current.status = "passed") => <>[](OpenTrackers = {})
=============================================================================
