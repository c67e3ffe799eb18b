--------------------------- MODULE MCReleaseHistory ---------------------------
(* Small instances of ReleaseHistory for TLC: projections that differ in one *)
(* message, enum, service, interface, world or operation.                    *)
EXTENDS ReleaseHistory, TLC

MCFolded == ("x" :> "x") @@ ("X" :> "x") @@ ("y" :> "y") @@ ("f" :> "f") @@ ("F" :> "f")

\* Protobuf: two field names, two numbers and one that is out of range.
PlainField == [type |-> "t", cardinality |-> "singular", presence |-> "implicit",
          oneof |-> Nothing, jsonName |-> Nothing]
Field(name, number, attributes) == attributes @@ [name |-> name, number |-> number]
FieldAttributes == {PlainField, [PlainField EXCEPT !.type = "u"], [PlainField EXCEPT !.oneof = "o"],
               [PlainField EXCEPT !.cardinality = "repeated", !.presence = "explicit"]}
ItemSets(values) ==
  LET plain == CHOOSE v \in values : v.name = "x" /\ v.number = 2 IN
  {{}} \cup {{v} : v \in values} \cup {{plain, [plain EXCEPT !.name = "y", !.number = n]} : n \in 1..2}
Holders(values) ==
  {{}} \cup {{[name |-> "M", items |-> i, reservedNumbers |-> n, reservedNames |-> r]} :
               i \in ItemSets(values), n \in {{}, {1}, {1, 2}}, r \in {{}, {"x"}, {"x", "y"}}}
FieldSet == {Field("x", 1, a) : a \in FieldAttributes}
          \cup {Field("x", 2, PlainField), Field("x", 3, PlainField), Field("y", 1, PlainField)}
EnumValues == {[name |-> "x", number |-> 1], [name |-> "x", number |-> 2], [name |-> "y", number |-> 1]}
AMethod == [name |-> "x", inputType |-> "t", outputType |-> "t", clientStreaming |-> FALSE,
           serverStreaming |-> FALSE, errorModel |-> Nothing]
ServiceSets == {{}, {[name |-> "S", methods |-> {}]}}
            \cup {{[name |-> "S", methods |-> {m}]} :
                    m \in {AMethod, [AMethod EXCEPT !.outputType = "u", !.serverStreaming = TRUE]}}
Unreleased == [package |-> "p", messages |-> {}, enums |-> {}, services |-> {}]
MCProtobuf ==
  {Unreleased, [Unreleased EXCEPT !.package = "q"]}
  \cup {[Unreleased EXCEPT !.messages = m] : m \in Holders(FieldSet)}
  \cup {[Unreleased EXCEPT !.enums = e] : e \in Holders(EnumValues)}
  \cup {[Unreleased EXCEPT !.services = s] : s \in ServiceSets}

\* WIT: an interface of types and functions, a world of imports and exports.
Typed(n, value) == [name |-> n, shape |-> value]
Fn(n, value) == [name |-> n, signature |-> value]
Versions == {[major |-> 1, minor |-> m, patch |-> 0, prerelease |-> p] : m \in 0..1, p \in BOOLEAN}
            \cup {[major |-> 0, minor |-> m, patch |-> p, prerelease |-> FALSE] :
                    m \in 0..1, p \in 0..1}
Bare(v) == [package |-> "p", version |-> v, interfaces |-> {}, worlds |-> {}]
Stable == [major |-> 1, minor |-> 0, patch |-> 0, prerelease |-> FALSE]
BindingSets == {{}, {Typed("x", 1)}, {Typed("x", 2)}, {Typed("y", 1)}, {Typed("x", 1), Typed("y", 1)},
             {Typed("x", 1), Typed("X", 1)}}
Functions1 == {{}, {Fn("f", "s")}, {Fn("f", "t")}, {Fn("f", "s"), Fn("y", "s")}}
MCWit ==
  {Bare(v) : v \in Versions}
  \cup {[Bare(Stable) EXCEPT !.worlds = {[name |-> "x", imports |-> i, exports |-> e]}] :
          i \in BindingSets, e \in BindingSets}
  \cup {[Bare(Stable) EXCEPT !.interfaces = {[name |-> "x", types |-> t, functions |-> f]}] :
          t \in BindingSets, f \in Functions1}
MCArity == "s" :> 1 @@ "t" :> 2

\* OpenAPI: one operation with up to two parameters, a body and two responses.
Query(name, required, ref) ==
  [name |-> name, in |-> "query", required |-> required, schemaRef |-> ref]
ParameterSets ==
  {{}, {Query("x", TRUE, 1), Query("X", TRUE, 1)}, {[Query("x", FALSE, 1) EXCEPT !.in = "path"]},
   {Query("x", FALSE, 1), Query("y", FALSE, 1)}}
  \cup {{Query(n, r, 1)} : n \in {"x", "X", "y"}, r \in BOOLEAN}
  \cup {{Query("x", r, 2)} : r \in BOOLEAN}
BodySet == {Nothing} \cup [required : BOOLEAN, schemaRef : 1..2]
Told == {{}, {[status |-> "200", schemaRef |-> 1]}, {[status |-> "200", schemaRef |-> 2]},
         {[status |-> "200", schemaRef |-> 1], [status |-> "404", schemaRef |-> Nothing]}}
AnOperation(method, parameters, body, responses, behavior) ==
  [operationId |-> "o", method |-> method, path |-> "/", parameters |-> parameters,
   requestBody |-> body, responses |-> responses, behavior |-> behavior]
OkResponse == {[status |-> "200", schemaRef |-> 1]}
MCOpenApi ==
  {{}} \cup {{AnOperation("GET", p, b, OkResponse, Nothing)} : p \in ParameterSets, b \in {Nothing, [required |-> TRUE, schemaRef |-> 1]}}
  \cup {{AnOperation("POST", {}, b, r, Nothing)} : b \in BodySet, r \in Told}
  \cup {{AnOperation("POST", {}, Nothing, OkResponse, "spec")},
        {AnOperation("POST", {}, Nothing, OkResponse, Nothing), [AnOperation("GET", {}, Nothing, OkResponse, Nothing)
           EXCEPT !.operationId = "p"]}}

MCProjections == [protobuf |-> MCProtobuf, wit |-> MCWit, openapi |-> MCOpenApi]
=============================================================================
