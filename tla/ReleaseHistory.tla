---------------------------- MODULE ReleaseHistory ----------------------------
(***************************************************************************)
(* Releases of one generated projection, each compared with the one before  *)
(* it: the Protobuf, WIT and OpenAPI compatibility gates and the receipts   *)
(* they create.  A projection whose comparison passes is the next baseline, *)
(* as the documents of the gates ask of the fleet; the first release stands *)
(* for any that clients may still use.                                      *)
(***************************************************************************)
EXTENDS Rules, Integers, FiniteSets

CONSTANTS
  Gates,         \* subset of {"protobuf", "wit", "openapi"}
  Projections,   \* Projections[g]: those that may be proposed to gate g
  FieldNumbers, EnumNumbers,       \* of Protobuf
  Arity, MaxItems, MaxBudget,      \* of WIT
  Folded,        \* Folded[n]: name n in lower case
  Limits         \* values of maxFindings

ASSUME GatesAssumption == Gates \subseteq {"protobuf", "wit", "openapi"}
ASSUME LimitsAssumption == Limits \subseteq Nat \ {0}

Protobuf == INSTANCE ProtobufCompatibility
Wit == INSTANCE WitCompatibility
OpenApi == INSTANCE OpenApiCompatibility

(* A normalized projection is a finite document and has nothing but the      *)
(* fields that are compared: exactKeys of each gate refuses any other key.   *)
HasJust(fields, items) == \A i \in items : i = [f \in fields |-> i[f]]
ASSUME ProtobufAssumption ==
  \A p \in Projections["protobuf"] :
    /\ p # Nothing /\ IsFiniteSet(p.messages) /\ IsFiniteSet(p.enums) /\ IsFiniteSet(p.services)
    /\ \A h \in p.messages \cup p.enums :
         IsFiniteSet(h.items) /\ IsFiniteSet(h.reservedNumbers) /\ IsFiniteSet(h.reservedNames)
    /\ \A m \in p.messages : HasJust({"name", "number"} \cup Protobuf!FieldKeys, m.items)
    /\ \A e \in p.enums : HasJust({"name", "number"}, e.items)
    /\ \A s \in p.services :
         IsFiniteSet(s.methods) /\ HasJust({"name"} \cup Protobuf!MethodKeys, s.methods)
ASSUME WitAssumption ==
  \A p \in Projections["wit"] :
    /\ p # Nothing /\ IsFiniteSet(p.interfaces) /\ IsFiniteSet(p.worlds)
    /\ \A i \in p.interfaces : IsFiniteSet(i.types) /\ IsFiniteSet(i.functions)
    /\ \A w \in p.worlds : IsFiniteSet(w.imports) /\ IsFiniteSet(w.exports)
ASSUME OpenApiAssumption ==
  \A p \in Projections["openapi"] :
    /\ p # Nothing /\ IsFiniteSet(p)
    /\ \A o \in p : IsFiniteSet(o.parameters) /\ IsFiniteSet(o.responses)
                    /\ HasJust({"status", "schemaRef"}, o.responses)

VARIABLES
  gate, mode, limit,   \* which gate, and its options
  first,      \* an early release
  baseline,   \* the latest one
  compared    \* the receipt of the latest comparison, Nothing before

releases == <<gate, mode, limit, first, baseline, compared>>

-----------------------------------------------------------------------------
Accepted(p) ==
  CASE gate = "protobuf" -> Protobuf!Accepted(p)
    [] gate = "wit" -> Wit!Accepted(p)
    [] OTHER -> OpenApi!Accepted(p)
Findings(p, q) ==
  CASE gate = "protobuf" -> Protobuf!Findings(p, q)
    [] gate = "wit" -> Wit!Findings(p, q, mode)
    [] OTHER -> OpenApi!Findings(p, q)

\* Mutant: Protobuf retains no more than it shows.
RetainedExactly(total) == IF gate = "openapi" THEN total ELSE Least(total, limit)

(* What is shown, what is counted and when evidence is said to be missing:   *)
(* Protobuf retains one finding more than it shows and counts what it shows; *)
(* the others count all.  WIT pushes no more than it shows.                  *)
Retained(total) ==
  CASE gate = "protobuf" -> Least(total, limit + 1)
    [] gate = "wit" -> Least(total, limit)
    [] OTHER -> total
Shown(total) == Least(Retained(total), limit)
Counted(total) == IF gate = "protobuf" THEN Shown(total) ELSE total
Truncated(total) == IF gate = "wit" THEN total > Shown(total) ELSE Retained(total) > limit

Compared(p, q) ==
  LET total == Cardinality(Findings(p, q)) IN
  [status |-> IF total = 0 THEN "passed" ELSE "stopped_for_evaluation",
   admissible |-> total = 0, baseline |-> p, current |-> q,
   count |-> Counted(total), shown |-> Shown(total), truncated |-> Truncated(total),
   failure |-> IF total = 0 THEN Nothing ELSE "breaking-change-detected"]
(* A projection that cannot be read or normalized has no digest.             *)
Failed(p, q) ==
  [status |-> "failed", admissible |-> FALSE, baseline |-> p, current |-> q,
   count |-> 0, shown |-> 0, truncated |-> FALSE, failure |-> "verification-failed"]

HistoryInit ==
  /\ gate \in Gates /\ limit \in Limits
  /\ mode \in IF gate = "wit" THEN {"consumer", "strict"} ELSE {"strict"}
  /\ first \in {p \in Projections[gate] : Accepted(p)}
  /\ baseline = first
  /\ compared = Nothing

Propose(p) ==
  /\ Accepted(p)
  /\ compared' = Compared(baseline, p)
  /\ baseline' = IF compared'.status = "passed" THEN p ELSE baseline
  /\ UNCHANGED <<gate, mode, limit, first>>

(* OpenAPI has no failed receipt: createOpenApiCompatibilityReceipt throws.  *)
ProposeRefused(p) ==
  /\ ~Accepted(p)
  /\ gate # "openapi"
  /\ compared' = Failed(baseline, Nothing)
  /\ UNCHANGED <<gate, mode, limit, first, baseline>>

HistoryNext == \E p \in Projections[gate] : Propose(p) \/ ProposeRefused(p)
HistorySpec == HistoryInit /\ [][HistoryNext]_releases

-----------------------------------------------------------------------------
(* What clients of a release rely on, whatever the gate looks at.            *)

(* A message of an old writer: every number and every name means what it did *)
(* or nothing, and every method is called as it was.                         *)
SameOrGone(old, new) ==
  \A i \in old, j \in new : (i.number = j.number \/ i.name = j.name) => i = j
Decodes(old, new) ==
  /\ new.package = old.package
  /\ \A kind \in {"messages", "enums"} : \A h \in old[kind] :
       \E k \in new[kind] : k.name = h.name /\ SameOrGone(h.items, k.items)
  /\ \A s \in old.services : \E t \in new.services : t.name = s.name /\ s.methods \subseteq t.methods

(* A component built against an old world: it finds what it used, its host   *)
(* need not provide more; in strict mode a component that provided the old   *)
(* world provides the new one.                                               *)
Instantiates(old, new) ==
  /\ \A i \in old.interfaces : \E j \in new.interfaces :
       /\ j.name = i.name /\ i.types \subseteq j.types /\ i.functions \subseteq j.functions
       /\ mode = "strict" => j.functions = i.functions
  /\ \A w \in old.worlds : \E v \in new.worlds :
       /\ v.name = w.name /\ w.exports \subseteq v.exports /\ v.imports \subseteq w.imports
       /\ mode = "strict" => v.exports = w.exports

(* A request of an old client is accepted and every response it was told of  *)
(* is still told.  Parameters are the same up to the case of their names.    *)
Slot(x) == <<x.in, Folded[x.name], x.schemaRef>>
Slots(xs) == {Slot(x) : x \in xs}
Required(xs) == {x \in xs : x.required}
Accepts(old, new) ==
  \A o \in old : \E n \in new :
    /\ n.operationId = o.operationId /\ n.method = o.method /\ n.path = o.path
    /\ Slots(o.parameters) \subseteq Slots(n.parameters)
    /\ Slots(Required(n.parameters)) \subseteq Slots(Required(o.parameters))
    /\ n.requestBody = Nothing => o.requestBody = Nothing
    /\ n.requestBody # Nothing /\ o.requestBody # Nothing =>
         n.requestBody.schemaRef = o.requestBody.schemaRef
    /\ n.requestBody # Nothing /\ n.requestBody.required =>
         o.requestBody # Nothing /\ o.requestBody.required
    /\ o.responses \subseteq n.responses

(* compareProtobufCompatibility, compareWitCompatibility and                 *)
(* compareOpenApiCompatibility look at two neighbouring releases; a client   *)
(* of any earlier release is served by the latest one, also when parts were  *)
(* removed, reserved and proposed again on the way.                          *)
OldClientsAreServed ==
  CASE gate = "protobuf" -> Decodes(first, baseline)
    [] gate = "wit" -> Instantiates(first, baseline)
    [] OTHER -> Accepts(first, baseline)

(* What a writer publishes: safeReceipt of Protobuf, validReceipt of WIT;    *)
(* OpenAPI receipts have no writer.                                          *)
Consistent(r) ==
  /\ r.admissible = (r.status = "passed")
  /\ r.status \in {"passed", "stopped_for_evaluation"} => Nothing \notin {r.baseline, r.current}
  /\ r.status = "stopped_for_evaluation" =>
       r.failure = "breaking-change-detected" /\ r.count # 0
  /\ r.status # "stopped_for_evaluation" =>
       /\ r.count = 0 /\ r.shown = 0 /\ ~r.truncated
       /\ r.failure = IF r.status = "passed" THEN Nothing ELSE "verification-failed"
SafeReceipt(r) == Consistent(r) /\ r.count = r.shown
ValidReceipt(r) ==
  /\ Consistent(r)
  /\ r.status = "stopped_for_evaluation" => r.shown # 0
  /\ IF r.truncated THEN r.count > r.shown ELSE r.count = r.shown
Publishable(r) ==
  CASE gate = "protobuf" -> SafeReceipt(r)
    [] gate = "wit" -> ValidReceipt(r)
    [] OTHER -> Consistent(r)

(* createProtobufCompatibilityReceipt and its likes: a receipt says          *)
(* truncated exactly when it leaves findings out, shows as many as it may,   *)
(* passes exactly when there are none, and is one that its writer publishes. *)
ReceiptsTellAll ==
  compared # Nothing =>
    /\ Publishable(compared)
    /\ compared.status # "failed" =>
         LET total == Cardinality(Findings(compared.baseline, compared.current)) IN
         /\ compared.admissible <=> total = 0
         /\ compared.truncated <=> compared.shown < total
         /\ compared.shown < total => compared.shown = limit

(* docs/openapi-compatibility.md: "removing an existing parameter" stops     *)
(* promotion.  Names of query parameters are told apart by case.             *)
QueryParametersStay ==
  gate = "openapi" =>
    \A o \in first : \E n \in baseline :
      /\ n.operationId = o.operationId
      /\ \A x \in o.parameters : x.in = "query" => \E y \in n.parameters : y.name = x.name
=============================================================================
