------------------------- MODULE ReleaseHistoryProofs -------------------------
(***************************************************************************)
(* What the compatibility gates promise about two neighbouring releases     *)
(* holds of any two: proofs about ReleaseHistory, for every set of          *)
(* projections and every history.                                           *)
(***************************************************************************)
EXTENDS ReleaseHistory, FiniteSetTheorems, TLAPS

-----------------------------------------------------------------------------
(* A comparison without findings keeps what clients of the baseline use.     *)

(* compareOpenApiCompatibility: without findings every parameter of the      *)
(* baseline keeps its slot, and none of the current ones is newly required.  *)
LEMMA ParametersKept ==
  ASSUME NEW before, NEW after, OpenApi!ParameterFindings(before, after) = {}
  PROVE  /\ Slots(before) \subseteq Slots(after)
         /\ Slots(Required(after)) \subseteq Slots(Required(before))
<1> DEFINE Key(x) == <<x.in, Folded[x.name]>>
           Kept == {pair \in before \X after : Key(pair[1]) = Key(pair[2])}
           Removed == {b \in before : \A a \in after : Key(a) # Key(b)}
           Changed == {x \in Kept : x[1].schemaRef # x[2].schemaRef}
           Stricter == {x \in Kept : ~x[1].required /\ x[2].required}
           Added == {a \in after : \A b \in before : Key(b) # Key(a)}
           Demanded == {x \in Added : x.required}
<1>1. OpenApi!ParameterFindings(before, after) =
        {<<"parameter-removed", Key(i)>> : i \in Removed}
        \cup {<<"parameter-schema-changed", Key(i)>> : i \in {k[1] : k \in Changed}}
        \cup {<<"parameter-became-required", Key(i)>> : i \in {k[1] : k \in Stricter}}
        \cup {<<"required-parameter-added", Key(i)>> : i \in Demanded}
  BY Zenon DEF OpenApi!ParameterFindings, OpenApi!Findings1, OpenApi!Pairs, OpenApi!Only, OpenApi!ParameterKey
<1>2. Removed = {} /\ Changed = {} /\ Stricter = {} /\ Demanded = {}
  <2> HIDE DEF Removed, Changed, Stricter, Demanded, Key
  <2> QED
    BY <1>1
<1>3. \A b \in before : \E a \in after : Key(a) = Key(b)
  BY <1>2
<1>4. ASSUME NEW b \in before, NEW a \in after, Key(b) = Key(a)
      PROVE  b.schemaRef = a.schemaRef /\ (a.required => b.required)
  <2>1. <<b, a>> \in Kept
    BY <1>4
  <2> HIDE DEF Kept
  <2> QED
    BY <1>2, <2>1
<1>5. \A a \in after : a.required => \E b \in before : Key(b) = Key(a)
  BY <1>2
<1>6. ASSUME NEW b \in before, NEW a \in after, Key(b) = Key(a)
      PROVE  Slot(b) = Slot(a)
  BY <1>4, <1>6 DEF Slot
<1>7. Slots(before) \subseteq Slots(after)
  BY <1>3, <1>6 DEF Slots
<1>8. Slots(Required(after)) \subseteq Slots(Required(before))
  BY <1>4, <1>5, <1>6 DEF Slots, Required
<1> QED
  BY <1>7, <1>8

(* Bodies are served alike.                                                   *)
LEMMA BodyKept ==
  ASSUME NEW b, NEW a, OpenApi!BodyFindings(b, a) = {}
  PROVE  /\ a = Nothing => b = Nothing
         /\ a # Nothing /\ b # Nothing => a.schemaRef = b.schemaRef
         /\ a # Nothing /\ a.required => b # Nothing /\ b.required
<1>1. CASE b = Nothing
  BY <1>1, Zenon DEF OpenApi!BodyFindings, OpenApi!Breaks
<1>2. CASE b # Nothing /\ a = Nothing
  BY <1>2, Zenon DEF OpenApi!BodyFindings
<1>3. CASE b # Nothing /\ a # Nothing
  <2>1. /\ OpenApi!Breaks(<<"request-body-schema-changed">>, b.schemaRef # a.schemaRef) = {}
        /\ OpenApi!Breaks(<<"request-body-became-required">>, ~b.required /\ a.required) = {}
    BY <1>3, Zenon DEF OpenApi!BodyFindings
  <2>2. b.schemaRef = a.schemaRef
    BY <2>1, Zenon DEF OpenApi!Breaks
  <2>3. a.required => b.required
    BY <2>1, Zenon DEF OpenApi!Breaks
  <2> QED
    BY <1>3, <2>2, <2>3, Zenon
<1> QED
  BY <1>1, <1>2, <1>3, Zenon

(* Every response of the baseline stays.                                      *)
LEMMA ResponsesKept ==
  ASSUME NEW before, NEW after, OpenApi!ResponseFindings(before, after) = {},
         HasJust({"status", "schemaRef"}, before), HasJust({"status", "schemaRef"}, after)
  PROVE  before \subseteq after
<1> DEFINE Kept == {pair \in before \X after : pair[1].status = pair[2].status}
           Removed == {b \in before : \A a \in after : a.status # b.status}
           Changed == {x \in Kept : x[1].schemaRef # x[2].schemaRef}
<1>1. OpenApi!ResponseFindings(before, after) =
        {<<"response-removed", i.status>> : i \in Removed}
        \cup {<<"response-schema-changed", i.status>> : i \in {k[1] : k \in Changed}}
  BY Zenon DEF OpenApi!ResponseFindings, OpenApi!Findings1, OpenApi!Pairs, OpenApi!Only,
     OpenApi!StatusOf
<1>2. Removed = {} /\ Changed = {}
  <2> HIDE DEF Removed, Changed
  <2> QED
    BY <1>1
<1>3. ASSUME NEW b \in before, NEW a \in after, a.status = b.status
      PROVE  b = a
  <2>1. <<b, a>> \in Kept
    BY <1>3
  <2>2. b.schemaRef = a.schemaRef
    <3> HIDE DEF Kept
    <3> QED
      BY <1>2, <2>1
  <2>3. /\ b = [f \in {"status", "schemaRef"} |-> b[f]]
        /\ a = [f \in {"status", "schemaRef"} |-> a[f]]
    BY DEF HasJust
  <2>4. \A f \in {"status", "schemaRef"} : a[f] = b[f]
    BY <1>3, <2>2
  <2> QED
    BY <2>3, <2>4
<1> QED
  BY <1>2, <1>3

(* One operation of an old client in a release, as Accepts has it.            *)
Serves(n, o) ==
  /\ n.operationId = o.operationId /\ n.method = o.method /\ n.path = o.path
  /\ Slots(o.parameters) \subseteq Slots(n.parameters)
  /\ Slots(Required(n.parameters)) \subseteq Slots(Required(o.parameters))
  /\ n.requestBody = Nothing => o.requestBody = Nothing
  /\ n.requestBody # Nothing /\ o.requestBody # Nothing =>
       n.requestBody.schemaRef = o.requestBody.schemaRef
  /\ n.requestBody # Nothing /\ n.requestBody.required =>
       o.requestBody # Nothing /\ o.requestBody.required
  /\ o.responses \subseteq n.responses

LEMMA ServesIsTransitive ==
  ASSUME NEW o, NEW m, NEW n, Serves(m, o), Serves(n, m)
  PROVE  Serves(n, o)
<1>1. /\ Slots(o.parameters) \subseteq Slots(n.parameters)
      /\ Slots(Required(n.parameters)) \subseteq Slots(Required(o.parameters))
      /\ o.responses \subseteq n.responses
  <2> HIDE DEF Slots, Required
  <2> QED
    BY DEF Serves
<1>2. n.operationId = o.operationId /\ n.method = o.method /\ n.path = o.path
  BY Zenon DEF Serves
<1>3. n.requestBody = Nothing => o.requestBody = Nothing
  BY Zenon DEF Serves
<1>4. n.requestBody # Nothing /\ o.requestBody # Nothing =>
        n.requestBody.schemaRef = o.requestBody.schemaRef
  BY Zenon DEF Serves
<1>5. n.requestBody # Nothing /\ n.requestBody.required =>
        o.requestBody # Nothing /\ o.requestBody.required
  BY Zenon DEF Serves
<1> QED
  BY <1>1, <1>2, <1>3, <1>4, <1>5, Zenon DEF Serves

LEMMA OperationKept ==
  ASSUME NEW b, NEW a, b.operationId = a.operationId, OpenApi!OperationFindings(b, a) = {},
         HasJust({"status", "schemaRef"}, b.responses),
         HasJust({"status", "schemaRef"}, a.responses)
  PROVE  Serves(a, b)
<1>1. /\ OpenApi!ParameterFindings(b.parameters, a.parameters) = {}
      /\ OpenApi!BodyFindings(b.requestBody, a.requestBody) = {}
      /\ OpenApi!ResponseFindings(b.responses, a.responses) = {}
      /\ OpenApi!Breaks(<<"route-changed">>, OpenApi!RouteOf(b) # OpenApi!RouteOf(a)) = {}
  BY Zenon DEF OpenApi!OperationFindings
<1>2. b.method = a.method /\ b.path = a.path
  <2>1. OpenApi!RouteOf(b) = OpenApi!RouteOf(a)
    BY <1>1, Zenon DEF OpenApi!Breaks
  <2> QED
    BY <2>1 DEF OpenApi!RouteOf
<1> QED
  BY <1>1, <1>2, ParametersKept, BodyKept, ResponsesKept, Zenon DEF Serves

(* compareOpenApiCompatibility: without findings a current projection serves  *)
(* what the baseline serves.                                                  *)
LEMMA OpenApiStep ==
  ASSUME NEW p \in Projections["openapi"], NEW q \in Projections["openapi"],
         OpenApi!Findings(p, q) = {}
  PROVE  \A o \in p : \E n \in q : Serves(n, o)
<1> DEFINE Kept == {pair \in p \X q : pair[1].operationId = pair[2].operationId}
           Removed == {b \in p : \A a \in q : a.operationId # b.operationId}
           Broken(o) == OpenApi!OperationFindings(o[1], o[2])
<1>1. OpenApi!Findings(p, q) =
        {<<"operation-removed", i.operationId>> : i \in Removed}
        \cup UNION {{<<o[1].operationId, f>> : f \in Broken(o)} : o \in Kept}
  BY Zenon DEF OpenApi!Findings, OpenApi!Findings1, OpenApi!Pairs, OpenApi!Only,
     OpenApi!OperationOf
<1>2. Removed = {} /\ \A o \in Kept : Broken(o) = {}
  <2> HIDE DEF Removed, Kept, Broken
  <2>1. Removed = {}
    BY <1>1, ZenonT(60)
  <2>2. ASSUME NEW o \in Kept, NEW f \in Broken(o) PROVE FALSE
    <3> DEFINE Told == {<<o[1].operationId, g>> : g \in Broken(o)}
    <3>1. <<o[1].operationId, f>> \in Told
      BY Zenon
    <3>2. Told \subseteq OpenApi!Findings(p, q)
      <4> HIDE DEF Told
      <4>1. Told \in {{<<x[1].operationId, g>> : g \in Broken(x)} : x \in Kept}
        BY Zenon DEF Told
      <4> QED
        BY <1>1, <4>1, Zenon
    <3> QED
      BY <3>1, <3>2, Zenon
  <2> QED
    BY <2>1, <2>2
<1>3. SUFFICES ASSUME NEW o \in p PROVE \E n \in q : Serves(n, o)
  OBVIOUS
<1>4. PICK n \in q : n.operationId = o.operationId
  BY <1>2
<1>5. <<o, n>> \in Kept
  BY <1>4
<1>6. OpenApi!OperationFindings(o, n) = {}
  <2> HIDE DEF Kept
  <2> QED
    BY <1>2, <1>5
<1> QED
  BY <1>4, <1>6, OperationKept, OpenApiAssumption

-----------------------------------------------------------------------------
(* compareWitCompatibility.                                                   *)
LEMMA WitNamed ==
  ASSUME NEW items, NEW name, Wit!Has(items, name)
  PROVE  Wit!Named(items, name) \in items /\ Wit!Named(items, name).name = name
BY DEF Wit!Has, Wit!Named

(* Without removals and changes all that was there is there.                  *)
LEMMA WitKept ==
  ASSUME NEW before, NEW after, NEW removed, NEW changed,
         Wit!Gone(removed, before, after) = {}, Wit!Changed(changed, before, after) = {}
  PROVE  before \subseteq after
<1>1. SUFFICES ASSUME NEW b \in before PROVE b \in after
  OBVIOUS
<1>2. Wit!Has(after, b.name)
  BY DEF Wit!Gone
<1>3. Wit!Named(after, b.name) = b
  BY <1>2 DEF Wit!Changed, Wit!Both
<1> QED
  BY <1>2, <1>3, WitNamed

(* Without additions and changes all that is there was there, where names are *)
(* unique.                                                                    *)
LEMMA WitNothingNew ==
  ASSUME NEW before, NEW after, NEW added, NEW changed,
         Wit!Gone(added, after, before) = {}, Wit!Changed(changed, before, after) = {},
         Wit!UniqueNames(after)
  PROVE  after \subseteq before
<1>1. SUFFICES ASSUME NEW a \in after PROVE a \in before
  OBVIOUS
<1>2. PICK b \in before : b.name = a.name
  BY ZenonT(60) DEF Wit!Gone, Wit!Has
<1>3. Wit!Has(after, b.name)
  BY <1>2 DEF Wit!Has
<1>4. Wit!Named(after, b.name) = b
  BY <1>3 DEF Wit!Changed, Wit!Both
<1>5. b \in after
  BY <1>3, <1>4, WitNamed
<1> QED
  BY <1>2, <1>5 DEF Wit!UniqueNames

(* One interface and one world of an old component in a release.              *)
Offers(j, i) ==
  /\ j.name = i.name /\ i.types \subseteq j.types /\ i.functions \subseteq j.functions
  /\ mode = "strict" => j.functions = i.functions
Hosts(v, w) ==
  /\ v.name = w.name /\ w.exports \subseteq v.exports /\ v.imports \subseteq w.imports
  /\ mode = "strict" => v.exports = w.exports

LEMMA InterfaceKept ==
  ASSUME NEW b, NEW a, a.name = b.name, Wit!UniqueNames(a.functions),
         Wit!InterfaceFindings(b, a, mode = "strict") = {}
  PROVE  Offers(a, b)
<1>1. /\ Wit!Gone("type-removed", b.types, a.types) = {}
      /\ Wit!Changed("type-changed", b.types, a.types) = {}
      /\ Wit!Gone("function-removed", b.functions, a.functions) = {}
      /\ Wit!Changed("function-signature-changed", b.functions, a.functions) = {}
      /\ mode = "strict" => Wit!Gone("function-added", a.functions, b.functions) = {}
  BY Zenon DEF Wit!InterfaceFindings
<1>2. b.types \subseteq a.types /\ b.functions \subseteq a.functions
  BY <1>1, WitKept
<1>3. mode = "strict" => a.functions \subseteq b.functions
  BY <1>1, WitNothingNew
<1> QED
  BY <1>2, <1>3 DEF Offers

LEMMA WorldKept ==
  ASSUME NEW b, NEW a, a.name = b.name, Wit!UniqueNames(a.imports), Wit!UniqueNames(a.exports),
         Wit!WorldFindings(b, a, mode = "strict") = {}
  PROVE  Hosts(a, b)
<1>1. /\ Wit!Gone("world-export-removed", b.exports, a.exports) = {}
      /\ Wit!Changed("world-export-changed", b.exports, a.exports) = {}
      /\ Wit!Gone("world-import-added", a.imports, b.imports) = {}
      /\ Wit!Changed("world-import-changed", b.imports, a.imports) = {}
      /\ mode = "strict" => Wit!Gone("world-export-added", a.exports, b.exports) = {}
  BY Zenon DEF Wit!WorldFindings
<1>2. b.exports \subseteq a.exports /\ a.imports \subseteq b.imports
  BY <1>1, WitKept, WitNothingNew
<1>3. mode = "strict" => a.exports \subseteq b.exports
  BY <1>1, WitNothingNew
<1> QED
  BY <1>2, <1>3 DEF Hosts

(* compareWitCompatibility: without findings a current projection offers and  *)
(* hosts what the baseline does.                                              *)
LEMMA WitStep ==
  ASSUME NEW p, NEW q, Wit!Accepted(q), Wit!Findings(p, q, mode) = {}
  PROVE  Instantiates(p, q)
<1> DEFINE Named(i) == Wit!Named(q.interfaces, i.name)
           Here(w) == Wit!Named(q.worlds, w.name)
           Broken(i) == Wit!InterfaceFindings(i, Named(i), mode = "strict")
           Closed(w) == Wit!WorldFindings(w, Here(w), mode = "strict")
           Interfaces == UNION {Wit!Within("interface", Broken(b), b.name) :
                                  b \in Wit!Both(p.interfaces, q.interfaces)}
           Worlds == UNION {Wit!Within("world", Closed(b), b.name) :
                              b \in Wit!Both(p.worlds, q.worlds)}
<1>1. /\ Wit!Gone("interface-removed", p.interfaces, q.interfaces) = {}
      /\ Wit!Gone("world-removed", p.worlds, q.worlds) = {}
      /\ Interfaces = {}
      /\ Worlds = {}
  <2>1. Wit!Findings(p, q, mode) =
          Wit!Breaks(<<"package-identity-changed">>,
                     p.package # q.package \/ Wit!Line(p.version) # Wit!Line(q.version))
          \cup Wit!Gone("interface-removed", p.interfaces, q.interfaces)
          \cup Wit!Gone("world-removed", p.worlds, q.worlds)
          \cup Interfaces \cup Worlds
    BY Zenon DEF Wit!Findings
  <2> HIDE DEF Interfaces, Worlds
  <2> QED
    BY <2>1
<1>2. \A i \in Wit!Both(p.interfaces, q.interfaces) : Broken(i) = {}
  <2> SUFFICES ASSUME NEW i \in Wit!Both(p.interfaces, q.interfaces), NEW f \in Broken(i)
               PROVE  FALSE
    OBVIOUS
  <2> HIDE DEF Broken
  <2>1. <<"interface", i.name, f>> \in Wit!Within("interface", Broken(i), i.name)
    BY DEF Wit!Within
  <2> QED
    BY <1>1, <2>1, Zenon
<1>3. \A w \in Wit!Both(p.worlds, q.worlds) : Closed(w) = {}
  <2> SUFFICES ASSUME NEW w \in Wit!Both(p.worlds, q.worlds), NEW f \in Closed(w)
               PROVE  FALSE
    OBVIOUS
  <2> HIDE DEF Closed
  <2>1. <<"world", w.name, f>> \in Wit!Within("world", Closed(w), w.name)
    BY DEF Wit!Within
  <2> QED
    BY <1>1, <2>1, Zenon
<1>4. ASSUME NEW i \in p.interfaces PROVE \E j \in q.interfaces : Offers(j, i)
  <2>1. Wit!Has(q.interfaces, i.name)
    BY <1>1, ZenonT(60) DEF Wit!Gone
  <2>2. Named(i) \in q.interfaces /\ Named(i).name = i.name
    BY <2>1, WitNamed
  <2>3. Wit!UniqueNames(Named(i).functions)
    BY <2>2 DEF Wit!Accepted, Wit!Collections
  <2>4. Broken(i) = {}
    BY <1>2, <2>1 DEF Wit!Both
  <2> QED
    BY <2>2, <2>3, <2>4, InterfaceKept
<1>5. ASSUME NEW w \in p.worlds PROVE \E v \in q.worlds : Hosts(v, w)
  <2>1. Wit!Has(q.worlds, w.name)
    BY <1>1, ZenonT(60) DEF Wit!Gone
  <2>2. Here(w) \in q.worlds /\ Here(w).name = w.name
    BY <2>1, WitNamed
  <2>3. Wit!UniqueNames(Here(w).imports) /\ Wit!UniqueNames(Here(w).exports)
    BY <2>2 DEF Wit!Accepted, Wit!Collections
  <2>4. Closed(w) = {}
    BY <1>3, <2>1 DEF Wit!Both
  <2> QED
    BY <2>2, <2>3, <2>4, WorldKept
<1> QED
  BY <1>4, <1>5 DEF Instantiates, Offers, Hosts

LEMMA InstantiatesIsTransitive ==
  ASSUME NEW o, NEW m, NEW n, Instantiates(o, m), Instantiates(m, n)
  PROVE  Instantiates(o, n)
<1>1. ASSUME NEW i \in o.interfaces PROVE \E j \in n.interfaces : Offers(j, i)
  <2>1. PICK k \in m.interfaces : Offers(k, i)
    BY DEF Instantiates, Offers
  <2>2. PICK j \in n.interfaces : Offers(j, k)
    BY DEF Instantiates, Offers
  <2> QED
    BY <2>1, <2>2 DEF Offers
<1>2. ASSUME NEW w \in o.worlds PROVE \E v \in n.worlds : Hosts(v, w)
  <2>1. PICK k \in m.worlds : Hosts(k, w)
    BY DEF Instantiates, Hosts
  <2>2. PICK v \in n.worlds : Hosts(v, k)
    BY DEF Instantiates, Hosts
  <2> QED
    BY <2>1, <2>2 DEF Hosts
<1> QED
  BY <1>1, <1>2 DEF Instantiates, Offers, Hosts

-----------------------------------------------------------------------------
(* compareProtobufCompatibility.                                              *)
LEMMA ProtobufNamed ==
  ASSUME NEW items, NEW name, Protobuf!Has(items, name)
  PROVE  Protobuf!Named(items, name) \in items /\ Protobuf!Named(items, name).name = name
BY DEF Protobuf!Has, Protobuf!Named

(* What a release must remember of an item of an earlier one: it has it, or   *)
(* it reserves both its number and its name.  This, other than SameOrGone, is *)
(* kept by every step: what is gone stays reserved.                           *)
Remembers(k, i) ==
  i \in k.items \/ (i.number \in k.reservedNumbers /\ i.name \in k.reservedNames)

LEMMA ReservationsKept ==
  ASSUME NEW b, NEW a, Protobuf!ReservationFindings(b, a) = {}
  PROVE  b.reservedNumbers \subseteq a.reservedNumbers /\ b.reservedNames \subseteq a.reservedNames
<1>1. /\ {<<"number-unreserved", b.name, n>> : n \in b.reservedNumbers \ a.reservedNumbers} = {}
      /\ {<<"name-unreserved", b.name, n>> : n \in b.reservedNames \ a.reservedNames} = {}
  BY DEF Protobuf!ReservationFindings
<1> QED
  BY <1>1

LEMMA ItemKept ==
  ASSUME NEW i, NEW a, NEW keys, Protobuf!ItemRules(i, a, keys) = {},
         i = [f \in {"name", "number"} \cup keys |-> i[f]],
         HasJust({"name", "number"} \cup keys, a.items)
  PROVE  Remembers(a, i)
<1> DEFINE byNumber == {x \in a.items : x.number = i.number}
           byName == {x \in a.items : x.name = i.name}
<1>1. CASE byNumber \cup byName = {}
  <2>1. Protobuf!Breaks("removal-not-reserved",
          i.number \notin a.reservedNumbers \/ i.name \notin a.reservedNames) = {}
    BY <1>1, Zenon DEF Protobuf!ItemRules
  <2> QED
    BY <2>1 DEF Remembers, Protobuf!Breaks
<1>2. CASE byNumber \cup byName # {}
  <2> DEFINE moved == \E x \in byName : x.number # i.number
             reused == \E x \in byNumber : x.name # i.name
             changed == {k \in keys : \E x \in byNumber \cap byName : x[k] # i[k]}
  <2>1. Protobuf!ItemRules(i, a, keys) =
          Protobuf!Breaks("number-changed", moved) \cup Protobuf!Breaks("number-reused", reused)
          \cup changed
    BY <1>2, Zenon DEF Protobuf!ItemRules
  <2>2. ~moved /\ ~reused /\ changed = {}
    <3> HIDE DEF moved, reused, changed
    <3> QED
      BY <2>1, Zenon DEF Protobuf!Breaks
  <2>3. PICK x \in byNumber \cap byName : TRUE
    BY <1>2, <2>2
  <2>4. x.name = i.name /\ x.number = i.number /\ x \in a.items
    BY <2>3
  <2>5. \A k \in keys : x[k] = i[k]
    BY <2>2, <2>3
  <2>6. x = [f \in {"name", "number"} \cup keys |-> x[f]]
    BY <2>4 DEF HasJust
  <2>7. x = i
    BY <2>4, <2>5, <2>6
  <2> QED
    BY <2>4, <2>7 DEF Remembers
<1> QED
  BY <1>1, <1>2

(* A message or enum of the baseline that a current projection still has.     *)
LEMMA HolderKept ==
  ASSUME NEW b, NEW a, NEW keys, Protobuf!PartFindings(b, a, keys) = {},
         HasJust({"name", "number"} \cup keys, b.items),
         HasJust({"name", "number"} \cup keys, a.items),
         NEW i, Remembers(b, i)
  PROVE  Remembers(a, i)
<1> DEFINE rules == UNION {{<<rule, b.name, j.name>> : rule \in Protobuf!ItemRules(j, a, keys)} :
                             j \in b.items}
<1>1. Protobuf!ReservationFindings(b, a) = {} /\ rules = {}
  <2>1. Protobuf!PartFindings(b, a, keys) = Protobuf!ReservationFindings(b, a) \cup rules
    BY Zenon DEF Protobuf!PartFindings
  <2> HIDE DEF rules
  <2> QED
    BY <2>1
<1>2. CASE i \in b.items
  <2>1. ASSUME NEW rule \in Protobuf!ItemRules(i, a, keys) PROVE FALSE
    <3> DEFINE told == {<<r, b.name, i.name>> : r \in Protobuf!ItemRules(i, a, keys)}
    <3>1. <<rule, b.name, i.name>> \in told
      BY Zenon
    <3>2. told \subseteq rules
      BY <1>2, Zenon
    <3> QED
      BY <1>1, <3>1, <3>2, Zenon
  <2>2. i = [f \in {"name", "number"} \cup keys |-> i[f]]
    BY <1>2 DEF HasJust
  <2> QED
    BY <2>1, <2>2, ItemKept
<1>3. CASE i \notin b.items
  BY <1>1, <1>3, ReservationsKept DEF Remembers
<1> QED
  BY <1>2, <1>3

(* k takes over from h: it remembers whatever h does.                         *)
TakesOver(k, h) == k.name = h.name /\ \A i : Remembers(h, i) => Remembers(k, i)

(* All messages, or all enums.                                                *)
LEMMA HoldersKept ==
  ASSUME NEW before, NEW after, NEW keys, Protobuf!HolderFindings(before, after, keys) = {},
         \A h \in before : HasJust({"name", "number"} \cup keys, h.items),
         \A h \in after : HasJust({"name", "number"} \cup keys, h.items),
         NEW b \in before
  PROVE  \E a \in after : TakesOver(a, b)
<1> DEFINE parts == UNION {Protobuf!PartFindings(h, Protobuf!Named(after, h.name), keys) :
                             h \in Protobuf!Surviving(before, after)}
           a == Protobuf!Named(after, b.name)
<1>1. Protobuf!Gone(before, after) = {} /\ parts = {}
  <2>1. Protobuf!HolderFindings(before, after, keys) = Protobuf!Gone(before, after) \cup parts
    BY Zenon DEF Protobuf!HolderFindings
  <2> HIDE DEF parts
  <2> QED
    BY <2>1
<1>2. Protobuf!Has(after, b.name)
  BY <1>1 DEF Protobuf!Gone
<1>3. a \in after /\ a.name = b.name
  BY <1>2, ProtobufNamed
<1>4. b \in Protobuf!Surviving(before, after)
  BY <1>2 DEF Protobuf!Surviving
<1>5. Protobuf!PartFindings(b, a, keys) = {}
  BY <1>1, <1>4, Zenon
<1>6. \A i : Remembers(b, i) => Remembers(a, i)
  <2> HIDE DEF a
  <2> QED
    BY <1>3, <1>5, HolderKept
<1> QED
  BY <1>3, <1>6 DEF TakesOver

(* Every method of the baseline stays as it was.                              *)
LEMMA MethodsKept ==
  ASSUME NEW b, NEW a, Protobuf!MethodFindings(b, a) = {},
         HasJust({"name"} \cup Protobuf!MethodKeys, b.methods),
         HasJust({"name"} \cup Protobuf!MethodKeys, a.methods)
  PROVE  b.methods \subseteq a.methods
<1> DEFINE other(m) == {key \in Protobuf!MethodKeys :
                          Protobuf!Named(a.methods, m.name)[key] # m[key]}
           gone == {m \in b.methods : ~Protobuf!Has(a.methods, m.name)}
           told(m) == {<<k, b.name, m.name>> : k \in other(m)}
           changed == UNION {told(m) : m \in Protobuf!Surviving(b.methods, a.methods)}
<1>1. Protobuf!MethodFindings(b, a) =
        {<<"method-removed", b.name, m.name>> : m \in gone} \cup changed
  BY Zenon DEF Protobuf!MethodFindings
<1>2. gone = {} /\ changed = {}
  <2> HIDE DEF gone, changed
  <2> QED
    BY <1>1
<1>3. SUFFICES ASSUME NEW m \in b.methods PROVE m \in a.methods
  OBVIOUS
<1>4. Protobuf!Has(a.methods, m.name)
  BY <1>2
<1> DEFINE n == Protobuf!Named(a.methods, m.name)
<1>5. n \in a.methods /\ n.name = m.name
  BY <1>4, ProtobufNamed
<1>6. told(m) = {}
  BY <1>2, <1>4, ZenonT(60) DEF Protobuf!Surviving
<1>7. other(m) = {}
  <2> HIDE DEF other
  <2> QED
    BY <1>6
<1>8. /\ m = [f \in {"name"} \cup Protobuf!MethodKeys |-> m[f]]
      /\ n = [f \in {"name"} \cup Protobuf!MethodKeys |-> n[f]]
  BY <1>5 DEF HasJust
<1>9. \A f \in {"name"} \cup Protobuf!MethodKeys : n[f] = m[f]
  BY <1>5, <1>7
<1>10. n = m
  <2> HIDE DEF n
  <2> QED
    BY <1>8, <1>9
<1> QED
  BY <1>5, <1>10

-----------------------------------------------------------------------------
(* A comparison of two documents has finitely many findings.                  *)
LEMMA FiniteImage ==
  ASSUME NEW S, IsFiniteSet(S), NEW f
  PROVE  IsFiniteSet({f[x] : x \in S})
<1> DEFINE T == {f[x] : x \in S}
           g == [x \in S |-> f[x]]
<1>1. g \in Surjection(S, T)
  BY DEF Surjection
<1> QED
  BY <1>1, FS_Surjection

LEMMA FiniteFamily ==
  ASSUME NEW S, IsFiniteSet(S), NEW f, \A x \in S : IsFiniteSet(f[x])
  PROVE  IsFiniteSet(UNION {f[x] : x \in S})
BY FiniteImage, FS_UNION

(* The shapes of findings: a rule, a subject and a member of a finite set.    *)
About(a, S) == {<<a, x>> : x \in S}
Tagged(a, b, S) == {<<a, b, x>> : x \in S}
TaggedBy(S, a, b) == {<<x, a, b>> : x \in S}
AboutNames(a, S) == {<<a, x.name>> : x \in S}
TaggedNames(a, b, S) == {<<a, b, x.name>> : x \in S}
LEMMA FiniteTags ==
  ASSUME NEW S, IsFiniteSet(S), NEW a, NEW b
  PROVE  /\ IsFiniteSet(About(a, S)) /\ IsFiniteSet(Tagged(a, b, S))
         /\ IsFiniteSet(TaggedBy(S, a, b)) /\ IsFiniteSet(AboutNames(a, S))
         /\ IsFiniteSet(TaggedNames(a, b, S))
<1> DEFINE f == [x \in S |-> <<a, x>>]
           g == [x \in S |-> <<a, b, x>>]
           h == [x \in S |-> <<x, a, b>>]
           k == [x \in S |-> <<a, x.name>>]
           l == [x \in S |-> <<a, b, x.name>>]
<1>1. /\ {f[x] : x \in S} = About(a, S) /\ {g[x] : x \in S} = Tagged(a, b, S)
      /\ {h[x] : x \in S} = TaggedBy(S, a, b) /\ {k[x] : x \in S} = AboutNames(a, S)
      /\ {l[x] : x \in S} = TaggedNames(a, b, S)
  BY DEF About, Tagged, TaggedBy, AboutNames, TaggedNames
<1> HIDE DEF f, g, h, k, l
<1>2. /\ IsFiniteSet({f[x] : x \in S}) /\ IsFiniteSet({g[x] : x \in S})
      /\ IsFiniteSet({h[x] : x \in S}) /\ IsFiniteSet({k[x] : x \in S})
      /\ IsFiniteSet({l[x] : x \in S})
  BY FiniteImage
<1> QED
  BY <1>1, <1>2

LEMMA FiveFinite ==
  ASSUME NEW a, NEW b, NEW c, NEW d, NEW e
  PROVE  IsFiniteSet({a, b, c, d, e})
<1> DEFINE A == {a}
           B == {b}
           C == {c}
           D == {d}
           E == {e}
<1>1. {a, b, c, d, e} = A \cup B \cup C \cup D \cup E
  OBVIOUS
<1>2. IsFiniteSet(A) /\ IsFiniteSet(B) /\ IsFiniteSet(C) /\ IsFiniteSet(D) /\ IsFiniteSet(E)
  BY FS_Singleton
<1>3. IsFiniteSet(A \cup B)
  BY <1>2, FS_Union, Zenon
<1>4. IsFiniteSet(A \cup B \cup C)
  BY <1>2, <1>3, FS_Union, Zenon
<1>5. IsFiniteSet(A \cup B \cup C \cup D)
  BY <1>2, <1>4, FS_Union, Zenon
<1>6. IsFiniteSet(A \cup B \cup C \cup D \cup E)
  BY <1>2, <1>5, FS_Union, Zenon
<1> QED
  BY <1>1, <1>6, Zenon

LEMMA FiniteBreaks ==
  ASSUME NEW rule, NEW broken
  PROVE  /\ IsFiniteSet(Breaks(rule, broken)) /\ IsFiniteSet(Protobuf!Breaks(rule, broken))
         /\ IsFiniteSet(Wit!Breaks(rule, broken)) /\ IsFiniteSet(OpenApi!Breaks(rule, broken))
BY FS_EmptySet, FS_Singleton, Zenon DEF Breaks, Protobuf!Breaks, Wit!Breaks, OpenApi!Breaks

LEMMA WitPartsFinite ==
  ASSUME NEW rule, NEW before, NEW after, IsFiniteSet(before)
  PROVE  IsFiniteSet(Wit!Gone(rule, before, after)) /\ IsFiniteSet(Wit!Changed(rule, before, after))
<1> DEFINE gone == {x \in before : ~Wit!Has(after, x.name)}
           changed == {x \in Wit!Both(before, after) : Wit!Named(after, x.name) # x}
<1>1. IsFiniteSet(gone) /\ IsFiniteSet(changed)
  BY FS_Subset DEF Wit!Both
<1> HIDE DEF gone, changed
<1>2. IsFiniteSet(AboutNames(rule, gone)) /\ IsFiniteSet(AboutNames(rule, changed))
  BY <1>1, FiniteTags
<1> QED
  BY <1>2 DEF Wit!Gone, Wit!Changed, gone, changed, AboutNames

LEMMA WithinFinite ==
  ASSUME NEW kind, NEW findings, NEW name, IsFiniteSet(findings)
  PROVE  IsFiniteSet(Wit!Within(kind, findings, name))
<1>1. IsFiniteSet(Tagged(kind, name, findings))
  BY FiniteTags
<1> QED
  BY <1>1 DEF Wit!Within, Tagged

LEMMA WitFinite ==
  ASSUME NEW p \in Projections["wit"], NEW q \in Projections["wit"]
  PROVE  IsFiniteSet(Wit!Findings(p, q, mode))
<1> DEFINE Interface(b) == Wit!Named(q.interfaces, b.name)
           World(b) == Wit!Named(q.worlds, b.name)
           kept == Wit!Both(p.interfaces, q.interfaces)
           hosted == Wit!Both(p.worlds, q.worlds)
           f == [b \in kept |->
                  Wit!Within("interface", Wit!InterfaceFindings(b, Interface(b), mode = "strict"), b.name)]
           g == [b \in hosted |->
                  Wit!Within("world", Wit!WorldFindings(b, World(b), mode = "strict"), b.name)]
<1>1. IsFiniteSet(p.interfaces) /\ IsFiniteSet(p.worlds)
  BY WitAssumption
<1>2. kept \subseteq p.interfaces /\ hosted \subseteq p.worlds
  BY DEF Wit!Both
<1>3. IsFiniteSet(kept) /\ IsFiniteSet(hosted)
  BY <1>1, <1>2, FS_Subset
<1>4. ASSUME NEW b \in kept PROVE IsFiniteSet(f[b])
  <2> DEFINE a == Interface(b)
             broken == Wit!InterfaceFindings(b, a, mode = "strict")
  <2>1. a \in q.interfaces
    BY WitNamed DEF Wit!Both
  <2>2. /\ IsFiniteSet(b.types) /\ IsFiniteSet(b.functions) /\ IsFiniteSet(a.functions)
    BY <1>2, <2>1, WitAssumption
  <2> HIDE DEF a
  <2>3. IsFiniteSet(broken)
    BY <2>2, WitPartsFinite, FS_Union, FS_EmptySet DEF Wit!InterfaceFindings
  <2> HIDE DEF broken
  <2>4. IsFiniteSet(Wit!Within("interface", broken, b.name))
    BY <2>3, WithinFinite
  <2> QED
    BY <2>4 DEF broken, a
<1>5. ASSUME NEW b \in hosted PROVE IsFiniteSet(g[b])
  <2> DEFINE a == World(b)
             broken == Wit!WorldFindings(b, a, mode = "strict")
  <2>1. a \in q.worlds
    BY WitNamed DEF Wit!Both
  <2>2. /\ IsFiniteSet(b.imports) /\ IsFiniteSet(b.exports)
        /\ IsFiniteSet(a.imports) /\ IsFiniteSet(a.exports)
    BY <1>2, <2>1, WitAssumption
  <2> HIDE DEF a
  <2>3. IsFiniteSet(broken)
    BY <2>2, WitPartsFinite, FS_Union, FS_EmptySet DEF Wit!WorldFindings
  <2> HIDE DEF broken
  <2>4. IsFiniteSet(Wit!Within("world", broken, b.name))
    BY <2>3, WithinFinite
  <2> QED
    BY <2>4 DEF broken, a
<1> DEFINE F == UNION {f[b] : b \in kept}
           G == UNION {g[b] : b \in hosted}
<1>6. IsFiniteSet(F) /\ IsFiniteSet(G)
  <2> HIDE DEF f, g, kept, hosted
  <2> QED
    BY <1>3, <1>4, <1>5, FiniteFamily
<1> DEFINE A == Wit!Breaks(<<"package-identity-changed">>,
                           p.package # q.package \/ Wit!Line(p.version) # Wit!Line(q.version))
           B == Wit!Gone("interface-removed", p.interfaces, q.interfaces)
           C == Wit!Gone("world-removed", p.worlds, q.worlds)
<1>7. Wit!Findings(p, q, mode) = A \cup B \cup C \cup F \cup G
  BY ZenonT(60) DEF Wit!Findings
<1>8. IsFiniteSet(A) /\ IsFiniteSet(B) /\ IsFiniteSet(C)
  BY <1>1, WitPartsFinite, FiniteBreaks, Zenon
<1> HIDE DEF A, B, C, F, G
<1> QED
  BY <1>6, <1>7, <1>8, FS_Union

(* The same for OpenAPI.                                                      *)
LEMMA KeysFinite ==
  ASSUME NEW S, IsFiniteSet(S), NEW rule
  PROVE  /\ IsFiniteSet({k[1] : k \in S})
         /\ IsFiniteSet({<<rule, <<x.in, Folded[x.name]>>>> : x \in S})
         /\ IsFiniteSet({<<rule, x.status>> : x \in S})
         /\ IsFiniteSet({<<rule, x.operationId>> : x \in S})
<1> DEFINE f == [x \in S |-> x[1]]
           g == [x \in S |-> <<rule, <<x.in, Folded[x.name]>>>>]
           h == [x \in S |-> <<rule, x.status>>]
           k == [x \in S |-> <<rule, x.operationId>>]
<1>1. /\ {f[x] : x \in S} = {x[1] : x \in S}
      /\ {g[x] : x \in S} = {<<rule, <<x.in, Folded[x.name]>>>> : x \in S}
      /\ {h[x] : x \in S} = {<<rule, x.status>> : x \in S}
      /\ {k[x] : x \in S} = {<<rule, x.operationId>> : x \in S}
  OBVIOUS
<1> HIDE DEF f, g, h, k
<1>2. /\ IsFiniteSet({f[x] : x \in S}) /\ IsFiniteSet({g[x] : x \in S})
      /\ IsFiniteSet({h[x] : x \in S}) /\ IsFiniteSet({k[x] : x \in S})
  BY FiniteImage
<1> QED
  BY <1>1, <1>2

LEMMA ParametersFinite ==
  ASSUME NEW before, NEW after, IsFiniteSet(before), IsFiniteSet(after)
  PROVE  IsFiniteSet(OpenApi!ParameterFindings(before, after))
<1> DEFINE Key(x) == <<x.in, Folded[x.name]>>
           Kept == {pair \in before \X after : Key(pair[1]) = Key(pair[2])}
           Removed == {b \in before : \A a \in after : Key(a) # Key(b)}
           Changed == {x \in Kept : x[1].schemaRef # x[2].schemaRef}
           Stricter == {x \in Kept : ~x[1].required /\ x[2].required}
           Demanded == {x \in {a \in after : \A b \in before : Key(b) # Key(a)} : x.required}
           Told(rule, S) == {<<rule, Key(i)>> : i \in S}
<1>1. OpenApi!ParameterFindings(before, after) =
        Told("parameter-removed", Removed)
        \cup Told("parameter-schema-changed", {k[1] : k \in Changed})
        \cup Told("parameter-became-required", {k[1] : k \in Stricter})
        \cup Told("required-parameter-added", Demanded)
  BY Zenon DEF OpenApi!ParameterFindings, OpenApi!Findings1, OpenApi!Pairs, OpenApi!Only, OpenApi!ParameterKey
<1>2. /\ Removed \in SUBSET before /\ Demanded \in SUBSET after
      /\ Changed \in SUBSET (before \X after) /\ Stricter \in SUBSET (before \X after)
  BY Zenon
<1> HIDE DEF Removed, Changed, Stricter, Demanded
<1>3. /\ IsFiniteSet(Removed) /\ IsFiniteSet(Demanded)
      /\ IsFiniteSet(Changed) /\ IsFiniteSet(Stricter)
  BY <1>2, FS_Subset, FS_Product
<1>4. IsFiniteSet({k[1] : k \in Changed}) /\ IsFiniteSet({k[1] : k \in Stricter})
  BY <1>3, KeysFinite
<1>5. ASSUME NEW rule, NEW S, IsFiniteSet(S) PROVE IsFiniteSet(Told(rule, S))
  BY <1>5, KeysFinite
<1> HIDE DEF Told
<1> QED
  BY <1>1, <1>3, <1>4, <1>5, FS_Union, ZenonT(60)

LEMMA ResponsesFinite ==
  ASSUME NEW before, NEW after, IsFiniteSet(before), IsFiniteSet(after)
  PROVE  IsFiniteSet(OpenApi!ResponseFindings(before, after))
<1> DEFINE Kept == {pair \in before \X after : pair[1].status = pair[2].status}
           Removed == {b \in before : \A a \in after : a.status # b.status}
           Changed == {x \in Kept : x[1].schemaRef # x[2].schemaRef}
           Told(rule, S) == {<<rule, i.status>> : i \in S}
<1>1. OpenApi!ResponseFindings(before, after) =
        Told("response-removed", Removed)
        \cup Told("response-schema-changed", {k[1] : k \in Changed})
  BY Zenon DEF OpenApi!ResponseFindings, OpenApi!Findings1, OpenApi!Pairs, OpenApi!Only,
     OpenApi!StatusOf
<1>2. Removed \in SUBSET before /\ Changed \in SUBSET (before \X after)
  BY Zenon
<1> HIDE DEF Removed, Changed
<1>3. IsFiniteSet(Removed) /\ IsFiniteSet(Changed)
  BY <1>2, FS_Subset, FS_Product
<1>4. IsFiniteSet({k[1] : k \in Changed})
  BY <1>3, KeysFinite
<1>5. ASSUME NEW rule, NEW S, IsFiniteSet(S) PROVE IsFiniteSet(Told(rule, S))
  BY <1>5, KeysFinite
<1> HIDE DEF Told
<1> QED
  BY <1>1, <1>3, <1>4, <1>5, FS_Union

LEMMA OpenApiFinite ==
  ASSUME NEW p \in Projections["openapi"], NEW q \in Projections["openapi"]
  PROVE  IsFiniteSet(OpenApi!Findings(p, q))
<1> DEFINE Kept == {pair \in p \X q : pair[1].operationId = pair[2].operationId}
           Removed == {b \in p : \A a \in q : a.operationId # b.operationId}
           Broken(o) == OpenApi!OperationFindings(o[1], o[2])
           told(o) == {<<o[1].operationId, g>> : g \in Broken(o)}
           f == [o \in Kept |-> told(o)]
           Family == UNION {f[o] : o \in Kept}
           Gone == {<<"operation-removed", i.operationId>> : i \in Removed}
<1>1. OpenApi!Findings(p, q) = Gone \cup Family
  <2>1. OpenApi!Findings(p, q) =
          Gone \cup UNION {told(o) : o \in Kept}
    BY Zenon DEF OpenApi!Findings, OpenApi!Findings1, OpenApi!Pairs, OpenApi!Only,
       OpenApi!OperationOf
  <2>2. {f[o] : o \in Kept} = {told(o) : o \in Kept}
    <3> HIDE DEF Kept, told
    <3> QED
      OBVIOUS
  <2> QED
    BY <2>1, <2>2, Zenon
<1>2. Removed \in SUBSET p /\ Kept \in SUBSET (p \X q)
  BY Zenon
<1>3. IsFiniteSet(p) /\ IsFiniteSet(q)
  BY OpenApiAssumption
<1>4. IsFiniteSet(Removed) /\ IsFiniteSet(Kept)
  BY <1>2, <1>3, FS_Subset, FS_Product
<1>5. IsFiniteSet(Gone)
  <2> HIDE DEF Removed
  <2> QED
    BY <1>4, KeysFinite, ZenonT(60)
<1>6. ASSUME NEW o \in Kept PROVE IsFiniteSet(f[o])
  <2> DEFINE b == o[1]
             a == o[2]
             broken == OpenApi!OperationFindings(b, a)
  <2>1. b \in p /\ a \in q
    OBVIOUS
  <2>2. /\ IsFiniteSet(b.parameters) /\ IsFiniteSet(a.parameters)
        /\ IsFiniteSet(b.responses) /\ IsFiniteSet(a.responses)
    BY <2>1, OpenApiAssumption
  <2> HIDE DEF b, a
  <2>3. IsFiniteSet(OpenApi!BodyFindings(b.requestBody, a.requestBody))
    <3> DEFINE x == b.requestBody
               y == a.requestBody
    <3>1. CASE x = Nothing /\ y = Nothing
      BY <3>1, FS_EmptySet, Zenon DEF OpenApi!BodyFindings
    <3>2. CASE x = Nothing /\ y # Nothing
      BY <3>2, FiniteBreaks, Zenon DEF OpenApi!BodyFindings
    <3>3. CASE x # Nothing /\ y = Nothing
      BY <3>3, FS_Singleton, Zenon DEF OpenApi!BodyFindings
    <3>4. CASE x # Nothing /\ y # Nothing
      BY <3>4, FiniteBreaks, FS_Union, Zenon DEF OpenApi!BodyFindings
    <3> QED
      BY <3>1, <3>2, <3>3, <3>4, Zenon
  <2>4. IsFiniteSet(broken)
    <3> DEFINE A == OpenApi!Breaks(<<"route-changed">>, OpenApi!RouteOf(b) # OpenApi!RouteOf(a))
               B == OpenApi!ParameterFindings(b.parameters, a.parameters)
               C == OpenApi!BodyFindings(b.requestBody, a.requestBody)
               D == OpenApi!ResponseFindings(b.responses, a.responses)
               E == OpenApi!Breaks(<<"behavior-changed">>, b.behavior # a.behavior)
    <3>1. broken = A \cup B \cup C \cup D \cup E
      BY DEF OpenApi!OperationFindings
    <3>2. /\ IsFiniteSet(A) /\ IsFiniteSet(B) /\ IsFiniteSet(C) /\ IsFiniteSet(D)
          /\ IsFiniteSet(E)
      BY <2>2, <2>3, ParametersFinite, ResponsesFinite, FiniteBreaks, Zenon
    <3> HIDE DEF A, B, C, D, E, broken
    <3> QED
      BY <3>1, <3>2, FS_Union
  <2> DEFINE id == b.operationId
  <2>5. IsFiniteSet(About(id, broken))
    <3> HIDE DEF broken, id
    <3> QED
      BY <2>4, FiniteTags
  <2>6. f[o] = About(id, broken)
    BY Zenon DEF a, b, About
  <2> QED
    BY <2>5, <2>6
<1>7. IsFiniteSet(Family)
  <2> HIDE DEF f, Kept
  <2> QED
    BY <1>4, <1>6, FiniteFamily
<1> HIDE DEF Gone, Family
<1> QED
  BY <1>1, <1>5, <1>7, FS_Union

(* And for Protobuf.                                                          *)
LEMMA ReservationsFinite ==
  ASSUME NEW b, NEW a, IsFiniteSet(b.reservedNumbers), IsFiniteSet(b.reservedNames),
         IsFiniteSet(a.items)
  PROVE  IsFiniteSet(Protobuf!ReservationFindings(b, a))
<1> DEFINE A == b.reservedNumbers \ a.reservedNumbers
           B == b.reservedNames \ a.reservedNames
           C == {x \in a.items : x.number \in b.reservedNumbers}
           D == {x \in a.items : x.name \in b.reservedNames}
           n == b.name
           U == Tagged("number-unreserved", n, A)
           V == Tagged("name-unreserved", n, B)
           X == TaggedNames("reserved-number-reused", n, C)
           Y == TaggedNames("reserved-name-reused", n, D)
<1>1. Protobuf!ReservationFindings(b, a) = U \cup V \cup X \cup Y
  BY DEF Protobuf!ReservationFindings, Tagged, TaggedNames
<1>2. IsFiniteSet(A) /\ IsFiniteSet(B) /\ IsFiniteSet(C) /\ IsFiniteSet(D)
  BY FS_Subset
<1> HIDE DEF A, B, C, D, n
<1>3. IsFiniteSet(U) /\ IsFiniteSet(V) /\ IsFiniteSet(X) /\ IsFiniteSet(Y)
  BY <1>2, FiniteTags
<1> HIDE DEF U, V, X, Y
<1> QED
  BY <1>1, <1>3, FS_Union

LEMMA ItemRulesFinite ==
  ASSUME NEW i, NEW a, NEW keys, IsFiniteSet(keys)
  PROVE  IsFiniteSet(Protobuf!ItemRules(i, a, keys))
<1> DEFINE byNumber == {x \in a.items : x.number = i.number}
           byName == {x \in a.items : x.name = i.name}
           moved == \E x \in byName : x.number # i.number
           reused == \E x \in byNumber : x.name # i.name
           changed == {k \in keys : \E x \in byNumber \cap byName : x[k] # i[k]}
<1>1. CASE byNumber \cup byName = {}
  <2>1. Protobuf!ItemRules(i, a, keys) =
          Protobuf!Breaks("removal-not-reserved",
            i.number \notin a.reservedNumbers \/ i.name \notin a.reservedNames)
    BY <1>1, Zenon DEF Protobuf!ItemRules
  <2> QED
    BY <2>1, FiniteBreaks, Zenon
<1>2. CASE byNumber \cup byName # {}
  <2>1. Protobuf!ItemRules(i, a, keys) =
          Protobuf!Breaks("number-changed", moved) \cup Protobuf!Breaks("number-reused", reused)
          \cup changed
    BY <1>2, Zenon DEF Protobuf!ItemRules
  <2>2. IsFiniteSet(changed)
    BY FS_Subset
  <2>3. /\ IsFiniteSet(Protobuf!Breaks("number-changed", moved))
        /\ IsFiniteSet(Protobuf!Breaks("number-reused", reused))
    BY FiniteBreaks, Zenon
  <2> HIDE DEF moved, reused, changed
  <2> QED
    BY <2>1, <2>2, <2>3, FS_Union
<1> QED
  BY <1>1, <1>2

LEMMA HoldersFinite ==
  ASSUME NEW before, NEW after, NEW keys, IsFiniteSet(keys), IsFiniteSet(before),
         \A h \in before \cup after :
           IsFiniteSet(h.items) /\ IsFiniteSet(h.reservedNumbers) /\ IsFiniteSet(h.reservedNames)
  PROVE  IsFiniteSet(Protobuf!HolderFindings(before, after, keys))
<1> DEFINE gone == {x \in before : ~Protobuf!Has(after, x.name)}
           kept == Protobuf!Surviving(before, after)
           parts(b) == Protobuf!PartFindings(b, Protobuf!Named(after, b.name), keys)
           f == [b \in kept |-> parts(b)]
           Gone == AboutNames("removed", gone)
           Family == UNION {f[b] : b \in kept}
<1>1. Protobuf!HolderFindings(before, after, keys) = Gone \cup Family
  <2>1. Protobuf!HolderFindings(before, after, keys) = Gone \cup UNION {parts(b) : b \in kept}
    BY Zenon DEF Protobuf!HolderFindings, Protobuf!Gone, AboutNames
  <2>2. {f[b] : b \in kept} = {parts(b) : b \in kept}
    <3> HIDE DEF kept, parts
    <3> QED
      OBVIOUS
  <2> QED
    BY <2>1, <2>2, Zenon
<1>2. IsFiniteSet(gone) /\ IsFiniteSet(kept)
  BY FS_Subset DEF Protobuf!Surviving
<1>3. IsFiniteSet(Gone)
  <2> HIDE DEF gone
  <2> QED
    BY <1>2, FiniteTags
<1>4. ASSUME NEW b \in kept PROVE IsFiniteSet(f[b])
  <2> DEFINE a == Protobuf!Named(after, b.name)
  <2>1. b \in before /\ a \in after
    BY ProtobufNamed DEF Protobuf!Surviving
  <2>2. /\ IsFiniteSet(b.items) /\ IsFiniteSet(b.reservedNumbers)
        /\ IsFiniteSet(b.reservedNames) /\ IsFiniteSet(a.items)
    BY <2>1
  <2> HIDE DEF a
  <2> DEFINE rules(i) == Protobuf!ItemRules(i, a, keys)
             told(i) == {<<rule, b.name, i.name>> : rule \in rules(i)}
             g == [i \in b.items |-> told(i)]
             Items == UNION {g[i] : i \in b.items}
  <2>3. ASSUME NEW i \in b.items PROVE IsFiniteSet(g[i])
    <3>1. IsFiniteSet(rules(i))
      BY ItemRulesFinite
    <3>2. g[i] = TaggedBy(rules(i), b.name, i.name)
      BY Zenon DEF TaggedBy
    <3> HIDE DEF rules
    <3> QED
      BY <3>1, <3>2, FiniteTags
  <2>4. IsFiniteSet(Items)
    <3> HIDE DEF g
    <3> QED
      BY <2>2, <2>3, FiniteFamily, ZenonT(60)
  <2>5. Protobuf!PartFindings(b, a, keys) = Protobuf!ReservationFindings(b, a) \cup Items
    <3>1. Protobuf!PartFindings(b, a, keys) = Protobuf!ReservationFindings(b, a)
            \cup UNION {told(i) : i \in b.items}
      BY Zenon DEF Protobuf!PartFindings
    <3>2. {g[i] : i \in b.items} = {told(i) : i \in b.items}
      <4> HIDE DEF told
      <4> QED
        OBVIOUS
    <3> QED
      BY <3>1, <3>2, Zenon
  <2>6. IsFiniteSet(Protobuf!PartFindings(b, a, keys))
    <3> HIDE DEF Items
    <3> QED
      BY <2>2, <2>4, <2>5, ReservationsFinite, FS_Union
  <2> QED
    BY <2>6 DEF a
<1>5. IsFiniteSet(Family)
  <2> HIDE DEF f, kept
  <2> QED
    BY <1>2, <1>4, FiniteFamily, ZenonT(60)
<1> HIDE DEF Gone, Family
<1> QED
  BY <1>1, <1>3, <1>5, FS_Union

LEMMA MethodsFinite ==
  ASSUME NEW b, NEW a, IsFiniteSet(b.methods)
  PROVE  IsFiniteSet(Protobuf!MethodFindings(b, a))
<1> DEFINE other(m) == {key \in Protobuf!MethodKeys :
                          Protobuf!Named(a.methods, m.name)[key] # m[key]}
           gone == {m \in b.methods : ~Protobuf!Has(a.methods, m.name)}
           kept == Protobuf!Surviving(b.methods, a.methods)
           told(m) == {<<k, b.name, m.name>> : k \in other(m)}
           f == [m \in kept |-> told(m)]
           Family == UNION {f[m] : m \in kept}
           Gone == TaggedNames("method-removed", b.name, gone)
<1>1. Protobuf!MethodFindings(b, a) = Gone \cup Family
  <2>1. Protobuf!MethodFindings(b, a) =
          Gone \cup UNION {told(m) : m \in kept}
    BY Zenon DEF Protobuf!MethodFindings, TaggedNames
  <2>2. {f[m] : m \in kept} = {told(m) : m \in kept}
    <3> HIDE DEF kept, told
    <3> QED
      OBVIOUS
  <2> QED
    BY <2>1, <2>2, Zenon
<1>2. IsFiniteSet(gone) /\ IsFiniteSet(kept)
  BY FS_Subset DEF Protobuf!Surviving
<1>3. IsFiniteSet(Gone)
  <2> HIDE DEF gone
  <2> QED
    BY <1>2, FiniteTags
<1>4. IsFiniteSet(Protobuf!MethodKeys)
  BY FiveFinite DEF Protobuf!MethodKeys
<1>5. ASSUME NEW m \in kept PROVE IsFiniteSet(f[m])
  <2>1. IsFiniteSet(other(m))
    BY <1>4, FS_Subset
  <2>2. f[m] = TaggedBy(other(m), b.name, m.name)
    BY Zenon DEF TaggedBy
  <2> HIDE DEF other
  <2> QED
    BY <2>1, <2>2, FiniteTags
<1>6. IsFiniteSet(Family)
  <2> HIDE DEF f, kept
  <2> QED
    BY <1>2, <1>5, FiniteFamily
<1> HIDE DEF Gone, Family
<1> QED
  BY <1>1, <1>3, <1>6, FS_Union

LEMMA OfFinite ==
  ASSUME NEW kind, NEW findings, IsFiniteSet(findings)
  PROVE  IsFiniteSet(Protobuf!Of(kind, findings))
<1>1. IsFiniteSet(About(kind, findings))
  BY FiniteTags
<1> QED
  BY <1>1 DEF About, Protobuf!Of

LEMMA ServicesFinite ==
  ASSUME NEW before, NEW after, IsFiniteSet(before), \A s \in before : IsFiniteSet(s.methods)
  PROVE  IsFiniteSet(Protobuf!ServiceFindings(before, after))
<1> DEFINE gone == {x \in before : ~Protobuf!Has(after, x.name)}
           kept == Protobuf!Surviving(before, after)
           parts(b) == Protobuf!MethodFindings(b, Protobuf!Named(after, b.name))
           f == [b \in kept |-> parts(b)]
           Gone == AboutNames("removed", gone)
           Family == UNION {f[b] : b \in kept}
<1>1. Protobuf!ServiceFindings(before, after) = Gone \cup Family
  <2>1. Protobuf!ServiceFindings(before, after) = Gone \cup UNION {parts(b) : b \in kept}
    BY Zenon DEF Protobuf!ServiceFindings, Protobuf!Gone, AboutNames
  <2>2. {f[b] : b \in kept} = {parts(b) : b \in kept}
    <3> HIDE DEF kept, parts
    <3> QED
      OBVIOUS
  <2> QED
    BY <2>1, <2>2, Zenon
<1>2. IsFiniteSet(gone) /\ IsFiniteSet(kept) /\ kept \subseteq before
  BY FS_Subset DEF Protobuf!Surviving
<1>3. IsFiniteSet(Gone)
  <2> HIDE DEF gone
  <2> QED
    BY <1>2, FiniteTags
<1>4. ASSUME NEW b \in kept PROVE IsFiniteSet(f[b])
  BY <1>2, MethodsFinite
<1>5. IsFiniteSet(Family)
  <2> HIDE DEF f, kept
  <2> QED
    BY <1>2, <1>4, FiniteFamily
<1> HIDE DEF Gone, Family
<1> QED
  BY <1>1, <1>3, <1>5, FS_Union

LEMMA ProtobufFinite ==
  ASSUME NEW p \in Projections["protobuf"], NEW q \in Projections["protobuf"]
  PROVE  IsFiniteSet(Protobuf!Findings(p, q))
<1> DEFINE A == Protobuf!Breaks("changed", p.package # q.package)
           B == Protobuf!HolderFindings(p.messages, q.messages, Protobuf!FieldKeys)
           C == Protobuf!HolderFindings(p.enums, q.enums, {})
           D == Protobuf!ServiceFindings(p.services, q.services)
<1>1. Protobuf!Findings(p, q) = Protobuf!Of("package", A) \cup Protobuf!Of("message", B)
                                \cup Protobuf!Of("enum", C) \cup Protobuf!Of("service", D)
  BY DEF Protobuf!Findings
<1>2. IsFiniteSet(A)
  BY FiniteBreaks, Zenon
<1>3. IsFiniteSet(B)
  <2>1. IsFiniteSet(Protobuf!FieldKeys)
    BY FiveFinite DEF Protobuf!FieldKeys
  <2> QED
    BY <2>1, HoldersFinite, ProtobufAssumption
<1>4. IsFiniteSet(C)
  BY FS_EmptySet, HoldersFinite, ProtobufAssumption
<1>5. IsFiniteSet(D)
  BY ServicesFinite, ProtobufAssumption
<1>6. /\ IsFiniteSet(Protobuf!Of("package", A)) /\ IsFiniteSet(Protobuf!Of("message", B))
      /\ IsFiniteSet(Protobuf!Of("enum", C)) /\ IsFiniteSet(Protobuf!Of("service", D))
  <2> HIDE DEF A, B, C, D
  <2> QED
    BY <1>2, <1>3, <1>4, <1>5, OfFinite
<1> QED
  BY <1>1, <1>6, FS_Union, ZenonT(60)

-----------------------------------------------------------------------------
(* The invariant: releases are accepted projections of the gate, and the      *)
(* latest one still does for clients what the first did.                      *)

(* What the first release had is there or remembered.                         *)
Recalls(old, new) ==
  /\ new.package = old.package
  /\ \A kind \in {"messages", "enums"} : \A h \in old[kind] :
       \E k \in new[kind] : k.name = h.name /\ \A i \in h.items : Remembers(k, i)
  /\ \A s \in old.services : \E t \in new.services : t.name = s.name /\ s.methods \subseteq t.methods

Served ==
  CASE gate = "protobuf" -> Recalls(first, baseline)
    [] gate = "wit" -> Instantiates(first, baseline)
    [] OTHER -> \A o \in first : \E n \in baseline : Serves(n, o)

HistoryTyped ==
  /\ gate \in Gates /\ limit \in Limits
  /\ first \in Projections[gate] /\ baseline \in Projections[gate]
  /\ Accepted(first) /\ Accepted(baseline)

LEMMA SubjectsKept ==
  ASSUME NEW p \in Projections["protobuf"], NEW q \in Projections["protobuf"],
         Protobuf!Findings(p, q) = {}
  PROVE  /\ q.package = p.package
         /\ Protobuf!HolderFindings(p.messages, q.messages, Protobuf!FieldKeys) = {}
         /\ Protobuf!HolderFindings(p.enums, q.enums, {}) = {}
         /\ Protobuf!ServiceFindings(p.services, q.services) = {}
<1> DEFINE A == Protobuf!Breaks("changed", p.package # q.package)
           B == Protobuf!HolderFindings(p.messages, q.messages, Protobuf!FieldKeys)
           C == Protobuf!HolderFindings(p.enums, q.enums, {})
           D == Protobuf!ServiceFindings(p.services, q.services)
<1>1. Protobuf!Findings(p, q) = Protobuf!Of("package", A) \cup Protobuf!Of("message", B)
                                \cup Protobuf!Of("enum", C) \cup Protobuf!Of("service", D)
  BY DEF Protobuf!Findings
<1>2. A = {} /\ B = {} /\ C = {} /\ D = {}
  <2> HIDE DEF A, B, C, D
  <2> QED
    BY <1>1 DEF Protobuf!Of
<1>3. q.package = p.package
  BY <1>2, Zenon DEF Protobuf!Breaks
<1> QED
  BY <1>2, <1>3

Widens(t, s) == t.name = s.name /\ s.methods \subseteq t.methods
LEMMA ServicesKept ==
  ASSUME NEW before, NEW after, Protobuf!ServiceFindings(before, after) = {},
         \A s \in before \cup after : HasJust({"name"} \cup Protobuf!MethodKeys, s.methods),
         NEW s \in before
  PROVE  \E t \in after : Widens(t, s)
<1> DEFINE parts == UNION {Protobuf!MethodFindings(h, Protobuf!Named(after, h.name)) :
                             h \in Protobuf!Surviving(before, after)}
           t == Protobuf!Named(after, s.name)
<1>1. Protobuf!Gone(before, after) = {} /\ parts = {}
  <2>1. Protobuf!ServiceFindings(before, after) = Protobuf!Gone(before, after) \cup parts
    BY Zenon DEF Protobuf!ServiceFindings
  <2> HIDE DEF parts
  <2> QED
    BY <2>1
<1>2. Protobuf!Has(after, s.name)
  BY <1>1 DEF Protobuf!Gone
<1>3. t \in after /\ t.name = s.name
  BY <1>2, ProtobufNamed
<1>4. s \in Protobuf!Surviving(before, after)
  BY <1>2 DEF Protobuf!Surviving
<1>5. Protobuf!MethodFindings(s, t) = {}
  BY <1>1, <1>4, Zenon
<1>6. s.methods \subseteq t.methods
  <2> HIDE DEF t
  <2> QED
    BY <1>3, <1>5, MethodsKept
<1> QED
  BY <1>3, <1>6 DEF Widens

(* A release without findings recalls whatever the one before it recalled.    *)
LEMMA RecallsStep ==
  ASSUME NEW o, NEW p \in Projections["protobuf"], NEW q \in Projections["protobuf"],
         Protobuf!Findings(p, q) = {}, Recalls(o, p)
  PROVE  Recalls(o, q)
<1>1. /\ q.package = p.package
      /\ Protobuf!HolderFindings(p.messages, q.messages, Protobuf!FieldKeys) = {}
      /\ Protobuf!HolderFindings(p.enums, q.enums, {}) = {}
      /\ Protobuf!ServiceFindings(p.services, q.services) = {}
  BY SubjectsKept
<1>2. q.package = o.package
  BY <1>1 DEF Recalls
<1>3. ASSUME NEW h \in o.messages
      PROVE  \E k \in q.messages : k.name = h.name /\ \A i \in h.items : Remembers(k, i)
  <2>1. PICK j \in p.messages : j.name = h.name /\ \A i \in h.items : Remembers(j, i)
    BY DEF Recalls
  <2>2. \E k \in q.messages : TakesOver(k, j)
    <3>1. /\ \A m \in p.messages : HasJust({"name", "number"} \cup Protobuf!FieldKeys, m.items)
          /\ \A m \in q.messages : HasJust({"name", "number"} \cup Protobuf!FieldKeys, m.items)
      BY ProtobufAssumption
    <3> QED
      BY <1>1, <2>1, <3>1, HoldersKept, Zenon
  <2> QED
    BY <2>1, <2>2 DEF TakesOver
<1>4. ASSUME NEW h \in o.enums
      PROVE  \E k \in q.enums : k.name = h.name /\ \A i \in h.items : Remembers(k, i)
  <2>1. PICK j \in p.enums : j.name = h.name /\ \A i \in h.items : Remembers(j, i)
    BY DEF Recalls
  <2>2. {"name", "number"} \cup {} = {"name", "number"}
    OBVIOUS
  <2>3. \E k \in q.enums : TakesOver(k, j)
    <3>1. /\ \A e \in p.enums : HasJust({"name", "number"} \cup {}, e.items)
          /\ \A e \in q.enums : HasJust({"name", "number"} \cup {}, e.items)
      BY <2>2, ProtobufAssumption
    <3> QED
      BY <1>1, <2>1, <3>1, HoldersKept, ZenonT(60)
  <2> QED
    BY <2>1, <2>3 DEF TakesOver
<1>5. ASSUME NEW s \in o.services
      PROVE  \E t \in q.services : t.name = s.name /\ s.methods \subseteq t.methods
  <2>1. PICK r \in p.services : r.name = s.name /\ s.methods \subseteq r.methods
    BY DEF Recalls
  <2>2. \E t \in q.services : Widens(t, r)
    <3>1. \A x \in p.services \cup q.services :
            HasJust({"name"} \cup Protobuf!MethodKeys, x.methods)
      BY ProtobufAssumption
    <3> QED
      BY <1>1, <2>1, <3>1, ServicesKept, Zenon
  <2> QED
    BY <2>1, <2>2 DEF Widens
<1> QED
  BY <1>2, <1>3, <1>4, <1>5 DEF Recalls

(* And what is recalled decodes: a reserved number or name has no new item.   *)
LEMMA RecallsDecodes ==
  ASSUME NEW o, NEW p, Recalls(o, p), Protobuf!Accepted(p)
  PROVE  Decodes(o, p)
<1>1. ASSUME NEW kind \in {"messages", "enums"}, NEW h \in o[kind]
      PROVE  \E k \in p[kind] : k.name = h.name /\ SameOrGone(h.items, k.items)
  <2>1. PICK k \in p[kind] : k.name = h.name /\ \A i \in h.items : Remembers(k, i)
    BY DEF Recalls
  <2>2. /\ Protobuf!Unique(k.items, "name") /\ Protobuf!Unique(k.items, "number")
        /\ \A i \in k.items : i.number \notin k.reservedNumbers /\ i.name \notin k.reservedNames
    BY <2>1 DEF Protobuf!Accepted, Protobuf!PartsAccepted
  <2>3. SameOrGone(h.items, k.items)
    BY <2>1, <2>2 DEF SameOrGone, Remembers, Protobuf!Unique
  <2> QED
    BY <2>1, <2>3
<1> QED
  BY <1>1 DEF Decodes, Recalls

-----------------------------------------------------------------------------
LEMMA FindingsFinite ==
  ASSUME gate \in Gates, NEW p \in Projections[gate], NEW q \in Projections[gate]
  PROVE  IsFiniteSet(Findings(p, q))
<1>1. CASE gate = "protobuf"
  BY <1>1, ProtobufFinite, Zenon DEF Findings
<1>2. CASE gate = "wit"
  BY <1>2, WitFinite, Zenon DEF Findings
<1>3. CASE gate = "openapi"
  BY <1>3, OpenApiFinite, Zenon DEF Findings
<1> QED
  BY <1>1, <1>2, <1>3, GatesAssumption

(* A receipt passes exactly when the comparison has no finding.               *)
LEMMA PassedMeansNoFinding ==
  ASSUME gate \in Gates, NEW p \in Projections[gate], NEW q \in Projections[gate]
  PROVE  Compared(p, q).status = "passed" <=> Findings(p, q) = {}
<1>1. Cardinality(Findings(p, q)) = 0 <=> Findings(p, q) = {}
  BY FindingsFinite, FS_EmptySet
<1> QED
  BY <1>1 DEF Compared

LEMMA InitServed ==
  ASSUME HistoryInit
  PROVE  HistoryTyped /\ Served
<1>1. HistoryTyped
  BY DEF HistoryInit, HistoryTyped
<1>2. baseline = first
  BY DEF HistoryInit
<1>3. ASSUME gate = "protobuf" PROVE Served
  <2>1. Recalls(first, first)
    BY DEF Recalls, Remembers
  <2>2. Recalls(first, baseline)
    BY <1>2, <2>1
  <2> QED
    BY <1>3, <2>2, Zenon DEF Served
<1>4. ASSUME gate = "wit" PROVE Served
  <2>1. Instantiates(first, first)
    BY DEF Instantiates
  <2>2. Instantiates(first, baseline)
    BY <1>2, <2>1
  <2> QED
    BY <1>4, <2>2, Zenon DEF Served
<1>5. ASSUME gate = "openapi" PROVE Served
  <2>1. \A o \in first : Serves(o, o)
    BY Zenon DEF Serves
  <2>2. \A o \in first : \E n \in baseline : Serves(n, o)
    BY <1>2, <2>1, Zenon
  <2> QED
    BY <1>5, <2>2, Zenon DEF Served
<1> QED
  BY <1>1, <1>3, <1>4, <1>5, GatesAssumption DEF HistoryTyped

(* A projection that passes serves those whom the baseline serves.            *)
LEMMA PassServes ==
  ASSUME HistoryTyped, Served, NEW p \in Projections[gate], Accepted(p), Findings(baseline, p) = {}
  PROVE  CASE gate = "protobuf" -> Recalls(first, p)
           [] gate = "wit" -> Instantiates(first, p)
           [] OTHER -> \A o \in first : \E n \in p : Serves(n, o)
<1>1. CASE gate = "protobuf"
  BY <1>1, RecallsStep, Zenon DEF HistoryTyped, Served, Findings
<1>2. CASE gate = "wit"
  <2>1. Instantiates(first, baseline)
    BY <1>2, Zenon DEF Served
  <2>2. Instantiates(baseline, p)
    BY <1>2, WitStep, Zenon DEF Findings, Accepted
  <2> QED
    BY <1>2, <2>1, <2>2, InstantiatesIsTransitive
<1>3. CASE gate = "openapi"
  <2>1. \A o \in first : \E n \in baseline : Serves(n, o)
    BY <1>3, Zenon DEF Served
  <2>2. \A o \in baseline : \E n \in p : Serves(n, o)
    BY <1>3, OpenApiStep, Zenon DEF Findings, HistoryTyped
  <2>3. \A o \in first : \E n \in p : Serves(n, o)
    BY <2>1, <2>2, ServesIsTransitive, Zenon
  <2> QED
    BY <1>3, <2>3, Zenon
<1> QED
  BY <1>1, <1>2, <1>3, GatesAssumption DEF HistoryTyped

LEMMA NextServed ==
  ASSUME HistoryTyped, Served, [HistoryNext]_releases
  PROVE  HistoryTyped' /\ Served'
<1>1. ASSUME NEW p \in Projections[gate], Propose(p), Findings(baseline, p) = {}
      PROVE  HistoryTyped' /\ Served'
  <2>1. gate' = gate /\ mode' = mode /\ limit' = limit /\ first' = first /\ baseline' = p
    BY <1>1, PassedMeansNoFinding DEF Propose, HistoryTyped
  <2>2. HistoryTyped'
    BY <1>1, <2>1 DEF HistoryTyped, Accepted, Propose
  <2>3. Accepted(p)
    BY <1>1 DEF Propose
  <2>4. ASSUME gate = "protobuf" PROVE Served'
    <3>1. Recalls(first, p)
      BY <1>1, <2>3, <2>4, PassServes, Zenon
    <3>2. Recalls(first, baseline)'
      BY <2>1, <3>1
    <3> QED
      BY <2>1, <2>4, <3>2, Zenon DEF Served
  <2>5. ASSUME gate = "wit" PROVE Served'
    <3>1. Instantiates(first, p)
      BY <1>1, <2>3, <2>5, PassServes, Zenon
    <3>2. Instantiates(first, baseline)'
      BY <2>1, <3>1 DEF Instantiates
    <3> QED
      BY <2>1, <2>5, <3>2, Zenon DEF Served
  <2>6. ASSUME gate = "openapi" PROVE Served'
    <3>1. \A o \in first : \E n \in p : Serves(n, o)
      BY <1>1, <2>3, <2>6, PassServes, Zenon
    <3>2. (\A o \in first : \E n \in baseline : Serves(n, o))'
      BY <2>1, <3>1
    <3> QED
      BY <2>1, <2>6, <3>2, Zenon DEF Served
  <2> QED
    BY <2>2, <2>4, <2>5, <2>6, GatesAssumption DEF HistoryTyped
<1>2. ASSUME UNCHANGED <<gate, mode, limit, first, baseline>>
      PROVE  HistoryTyped' /\ Served'
  BY <1>2 DEF HistoryTyped, Served, Accepted, Instantiates
<1>3. ASSUME NEW p \in Projections[gate], Propose(p), Findings(baseline, p) # {}
      PROVE  HistoryTyped' /\ Served'
  <2>1. UNCHANGED <<gate, mode, limit, first, baseline>>
    BY <1>3, PassedMeansNoFinding DEF Propose, HistoryTyped
  <2> QED
    BY <2>1, <1>2
<1>4. ASSUME NEW p \in Projections[gate], ProposeRefused(p)
      PROVE  HistoryTyped' /\ Served'
  BY <1>2, <1>4 DEF ProposeRefused
<1>5. CASE UNCHANGED releases
  BY <1>2, <1>5 DEF releases
<1> QED
  BY <1>1, <1>3, <1>4, <1>5 DEF HistoryNext

LEMMA ServedHolds == HistorySpec => [](HistoryTyped /\ Served)
BY InitServed, NextServed, PTL DEF HistorySpec

(* The gates compare neighbours; clients of any release are served by any     *)
(* later one, for every history of projections and every gate.                *)
THEOREM OldClientsServed == HistorySpec => []OldClientsAreServed
<1>1. HistoryTyped /\ Served => OldClientsAreServed
  <2> SUFFICES ASSUME HistoryTyped, Served PROVE OldClientsAreServed
    OBVIOUS
  <2>1. CASE gate = "protobuf"
    <3>1. Decodes(first, baseline)
      BY <2>1, RecallsDecodes, Zenon DEF HistoryTyped, Served, Accepted
    <3> QED
      BY <2>1, <3>1, Zenon DEF OldClientsAreServed
  <2>2. CASE gate = "wit"
    BY <2>2, Zenon DEF OldClientsAreServed, Served
  <2>3. CASE gate = "openapi"
    <3>1. Accepts(first, baseline)
      BY <2>3, Zenon DEF Served, Accepts, Serves
    <3> QED
      BY <2>3, <3>1, Zenon DEF OldClientsAreServed
  <2> QED
    BY <2>1, <2>2, <2>3, GatesAssumption DEF HistoryTyped
<1> QED
  BY <1>1, ServedHolds, PTL

-----------------------------------------------------------------------------
(* What a receipt says is a function of the two projections it compares.      *)
Told ==
  \/ compared = Nothing
  \/ \E p, q \in Projections[gate] : compared = Compared(p, q)
  \/ /\ gate # "openapi"
     /\ \E p \in Projections[gate] : compared = Failed(p, Nothing)

LEMMA ComparedStays ==
  ASSUME gate' = gate, mode' = mode, limit' = limit, NEW p, NEW q
  PROVE  Compared(p, q)' = Compared(p, q)
<1>1. Findings(p, q)' = Findings(p, q)
  BY DEF Findings
<1> QED
  BY <1>1 DEF Compared, Counted, Shown, Truncated, Retained

LEMMA NextTold ==
  ASSUME HistoryTyped, Told, [HistoryNext]_releases
  PROVE  Told'
<1>1. ASSUME NEW p \in Projections[gate], Propose(p)
      PROVE  Told'
  <2>1. PICK b \in Projections[gate] : b = baseline
    BY DEF HistoryTyped
  <2>2. gate' = gate /\ mode' = mode /\ limit' = limit /\ compared' = Compared(b, p)
    BY <1>1, <2>1 DEF Propose
  <2>3. compared' = Compared(b, p)'
    BY <2>2, ComparedStays, Zenon
  <2> QED
    BY <2>2, <2>3 DEF Told
<1>2. ASSUME NEW p \in Projections[gate], ProposeRefused(p)
      PROVE  Told'
  <2>1. PICK b \in Projections[gate] : b = baseline
    BY DEF HistoryTyped
  <2>2. gate' = gate /\ gate # "openapi" /\ compared' = Failed(b, Nothing)
    BY <1>2, <2>1 DEF ProposeRefused
  <2> QED
    BY <2>2 DEF Told, Failed
<1>3. CASE UNCHANGED releases
  <2>1. gate' = gate /\ mode' = mode /\ limit' = limit /\ compared' = compared
    BY <1>3 DEF releases
  <2>2. ASSUME NEW p \in Projections[gate], NEW q \in Projections[gate],
               compared = Compared(p, q)
        PROVE  Told'
    <3>1. compared' = Compared(p, q)'
      BY <2>1, <2>2, ComparedStays, Zenon
    <3> QED
      BY <2>1, <3>1 DEF Told
  <2>3. ASSUME compared = Nothing PROVE Told'
    BY <2>1, <2>3 DEF Told
  <2>4. ASSUME gate # "openapi", NEW p \in Projections[gate], compared = Failed(p, Nothing)
        PROVE  Told'
    BY <2>1, <2>4 DEF Told, Failed
  <2> QED
    BY <2>2, <2>3, <2>4, Zenon DEF Told
<1> QED
  BY <1>1, <1>2, <1>3 DEF HistoryNext

LEMMA ProjectionsAreRead ==
  ASSUME gate \in Gates, NEW p \in Projections[gate]
  PROVE  p # Nothing
BY GatesAssumption, ProtobufAssumption, WitAssumption, OpenApiAssumption

(* Retaining one finding more than is shown, or none more, or all of them:    *)
(* each way is enough to tell whether any was left out.                       *)
LEMMA LeavingOut ==
  ASSUME gate \in Gates, limit \in Limits, NEW total \in Nat
  PROVE  /\ Shown(total) = Least(total, limit)
         /\ Truncated(total) <=> Shown(total) < total
         /\ Counted(total) = IF gate = "protobuf" THEN Shown(total) ELSE total
<1>1. limit \in Nat \ {0}
  BY LimitsAssumption
<1>2. gate \in {"protobuf", "wit", "openapi"}
  BY GatesAssumption
<1> QED
  BY <1>1, <1>2 DEF Counted, Shown, Truncated, Retained, Least

LEMMA ComparedTellsAll ==
  ASSUME gate \in Gates, limit \in Limits,
         NEW p \in Projections[gate], NEW q \in Projections[gate],
         compared = Compared(p, q)
  PROVE  ReceiptsTellAll
<1> DEFINE total == Cardinality(Findings(p, q))
           shown == Shown(total)
           counted == Counted(total)
           truncated == Truncated(total)
<1>1. total \in Nat
  BY FindingsFinite, FS_CardinalityType
<1>2. limit \in Nat \ {0}
  BY LimitsAssumption
<1>3. /\ shown = Least(total, limit)
      /\ truncated <=> shown < total
      /\ counted = IF gate = "protobuf" THEN shown ELSE total
  BY <1>1, LeavingOut
<1>4. p # Nothing /\ q # Nothing
  BY ProjectionsAreRead
<1>5. /\ shown < total => shown = limit
      /\ total = 0 => shown = 0 /\ counted = 0 /\ ~truncated
      /\ total # 0 => shown # 0 /\ counted # 0
      /\ gate = "protobuf" => counted = shown
      /\ gate # "protobuf" => IF truncated THEN counted > shown ELSE counted = shown
  <2> HIDE DEF total, shown, counted, truncated
  <2> QED
    BY <1>1, <1>2, <1>3 DEF Least
<1>6. /\ compared.status = IF total = 0 THEN "passed" ELSE "stopped_for_evaluation"
      /\ compared.baseline = p /\ compared.current = q
      /\ compared.count = counted /\ compared.shown = shown
      /\ compared.failure = IF total = 0 THEN Nothing ELSE "breaking-change-detected"
  BY DEF Compared
<1>7. (compared.admissible = (total = 0)) /\ (compared.truncated = truncated)
  BY Zenon DEF Compared
<1> HIDE DEF total, shown, counted, truncated
<1>8. Consistent(compared)
  <2>1. CASE total = 0
    <3>1. compared.status = "passed" /\ compared.failure = Nothing
      BY <1>6, <2>1
    <3>2. compared.count = 0 /\ compared.shown = 0 /\ ~compared.truncated
      BY <1>5, <1>6, <1>7, <2>1, Zenon
    <3> QED
      BY <1>4, <1>6, <1>7, <2>1, <3>1, <3>2, Zenon DEF Consistent
  <2>2. CASE total # 0
    <3>1. /\ compared.status = "stopped_for_evaluation"
          /\ compared.failure = "breaking-change-detected"
      BY <1>6, <2>2
    <3>2. compared.count # 0 /\ compared.admissible = FALSE
      BY <1>5, <1>6, <1>7, <2>2, Zenon
    <3>3. compared.status # "passed"
      BY <3>1
    <3> QED
      BY <1>4, <1>6, <3>1, <3>2, <3>3, Zenon DEF Consistent
  <2> QED
    BY <2>1, <2>2
<1>9. Publishable(compared)
  <2>1. CASE gate = "protobuf"
    BY <1>5, <1>6, <1>8, <2>1, Zenon DEF Publishable, SafeReceipt
  <2>2. CASE gate = "wit"
    <3>1. IF compared.truncated THEN compared.count > compared.shown ELSE compared.count = compared.shown
      <4>1. IF truncated THEN counted > shown ELSE counted = shown
        BY <1>5, <2>2
      <4> QED
        BY <1>6, <1>7, <4>1, Zenon
    <3>2. compared.status = "stopped_for_evaluation" => compared.shown # 0
      BY <1>5, <1>6
    <3> QED
      BY <1>8, <2>2, <3>1, <3>2, Zenon DEF Publishable, ValidReceipt
  <2>3. CASE gate = "openapi"
    BY <1>8, <2>3, Zenon DEF Publishable
  <2> QED
    BY <2>1, <2>2, <2>3, GatesAssumption
<1>10. Cardinality(Findings(compared.baseline, compared.current)) = total
  BY <1>6 DEF total
<1>11. /\ compared.admissible <=> total = 0
       /\ compared.truncated <=> compared.shown < total
  BY <1>3, <1>6, <1>7, Zenon
<1>12. compared.shown < total => compared.shown = limit
  BY <1>5, <1>6
<1> QED
  BY <1>9, <1>10, <1>11, <1>12, Zenon DEF ReceiptsTellAll

LEMMA FailedTellsAll ==
  ASSUME gate \in Gates, gate # "openapi", NEW p, compared = Failed(p, Nothing)
  PROVE  ReceiptsTellAll
<1>1. /\ compared.status = "failed" /\ compared.failure = "verification-failed"
      /\ compared.count = 0 /\ compared.shown = 0
  BY DEF Failed
<1>2. compared.admissible = FALSE /\ compared.truncated = FALSE
  BY Zenon DEF Failed
<1>3. compared.status \notin {"passed", "stopped_for_evaluation"}
  BY <1>1
<1>4. Consistent(compared)
  BY <1>1, <1>2, <1>3, Zenon DEF Consistent
<1>5. SafeReceipt(compared) /\ ValidReceipt(compared)
  BY <1>1, <1>2, <1>3, <1>4, Zenon DEF SafeReceipt, ValidReceipt
<1> QED
  BY <1>1, <1>4, <1>5, Zenon DEF ReceiptsTellAll, Publishable

(* Whatever the projections, the limit and the gate, a receipt says that it   *)
(* left findings out exactly when it did, passes exactly when there are none, *)
(* and is one its writer publishes.                                           *)
THEOREM ReceiptsAreTrue == HistorySpec => []ReceiptsTellAll
<1>1. HistoryInit => Told
  BY DEF HistoryInit, Told
<1>2. HistoryTyped /\ Told => ReceiptsTellAll
  <2>1. ASSUME compared = Nothing PROVE ReceiptsTellAll
    BY <2>1, Zenon DEF ReceiptsTellAll
  <2> QED
    BY <2>1, ComparedTellsAll, FailedTellsAll, Zenon DEF HistoryTyped, Told
<1>3. HistorySpec => []HistoryTyped
  BY ServedHolds, PTL
<1> QED
  BY <1>1, <1>2, <1>3, NextTold, PTL DEF HistorySpec
=============================================================================
