------------------------- MODULE OpenApiCompatibility -------------------------
(***************************************************************************)
(* compareOpenApiCompatibility: what of the operations of a baseline a      *)
(* current projection may not change.  Operations, parameters and responses *)
(* are sets of records; parameters are matched by location and by name in   *)
(* lower case, wherever they are.  Nothing is an absent body or behavior.    *)
(***************************************************************************)
EXTENDS Rules

CONSTANT Folded  \* Folded[n]: parameter name n in lower case

ParameterKey(x) == <<x.in, Folded[x.name]>>
StatusOf(x) == x.status
OperationOf(x) == x.operationId
RouteOf(x) == <<x.method, x.path>>
Unique(items, Key(_)) == \A i, j \in items : Key(i) = Key(j) => i = j
Pairs(before, after, Key(_)) == {pair \in before \X after : Key(pair[1]) = Key(pair[2])}
Only(before, after, Key(_)) == {b \in before : \A a \in after : Key(a) # Key(b)}
Findings1(rule, items, Key(_)) == {<<rule, Key(i)>> : i \in items}

(* normalizeOpenApiProjection refuses anything else.                         *)
Accepted(operations) ==
  /\ Unique(operations, OperationOf) /\ Unique(operations, RouteOf)
  /\ \A o \in operations :
       /\ Unique(o.parameters, ParameterKey)
       /\ \A x \in o.parameters : x.in = "path" => x.required
       /\ o.responses # {} /\ Unique(o.responses, StatusOf)

ParameterFindings(before, after) ==
  LET kept == Pairs(before, after, ParameterKey) IN
  Findings1("parameter-removed", Only(before, after, ParameterKey), ParameterKey)
  \cup Findings1("parameter-schema-changed",
         {k[1] : k \in {x \in kept : x[1].schemaRef # x[2].schemaRef}}, ParameterKey)
  \cup Findings1("parameter-became-required",
         {k[1] : k \in {x \in kept : ~x[1].required /\ x[2].required}}, ParameterKey)
  \cup Findings1("required-parameter-added",
         {x \in Only(after, before, ParameterKey) : x.required}, ParameterKey)

BodyFindings(b, a) ==
  IF b = Nothing
  THEN IF a = Nothing THEN {} ELSE Breaks(<<"required-request-body-added">>, a.required)
  ELSE IF a = Nothing THEN {<<"request-body-removed">>}
  ELSE Breaks(<<"request-body-schema-changed">>, b.schemaRef # a.schemaRef)
       \cup Breaks(<<"request-body-became-required">>, ~b.required /\ a.required)

ResponseFindings(before, after) ==
  Findings1("response-removed", Only(before, after, StatusOf), StatusOf)
  \cup Findings1("response-schema-changed",
         {k[1] : k \in {x \in Pairs(before, after, StatusOf) : x[1].schemaRef # x[2].schemaRef}},
         StatusOf)

OperationFindings(b, a) ==
  Breaks(<<"route-changed">>, RouteOf(b) # RouteOf(a))
  \cup ParameterFindings(b.parameters, a.parameters)
  \cup BodyFindings(b.requestBody, a.requestBody)
  \cup ResponseFindings(b.responses, a.responses)
  \cup Breaks(<<"behavior-changed">>, b.behavior # a.behavior)

Findings(baseline, current) ==
  Findings1("operation-removed", Only(baseline, current, OperationOf), OperationOf)
  \cup UNION {{<<OperationOf(o[1]), f>> : f \in OperationFindings(o[1], o[2])} :
              o \in Pairs(baseline, current, OperationOf)}
=============================================================================
