---------------------------- MODULE SchemaSemantics ----------------------------
(***************************************************************************)
(* What a schema means, by definition and without an index, a stack of      *)
(* references, counters or error lists: whether an instance holds at a      *)
(* location, with the set of its parts that are thereby evaluated.          *)
(*                                                                          *)
(* An instance is [type, ...]: scalars have a value, arrays items, objects  *)
(* fields.                                                                  *)
(***************************************************************************)
EXTENDS SchemaLocations

CONSTANTS
  Matching   \* Matching[p]: the property names that pattern p matches

-----------------------------------------------------------------------------
(* The parts of an instance, and which assertions it breaks.                 *)

OfType(x, type) == x.type = type \/ (type = "number" /\ x.type = "integer")
Part(x, key) ==
  IF x.type = "object" THEN x.fields[key]
  ELSE x.items[CHOOSE i \in DOMAIN x.items : ToString(i) = key]
Parts(x) ==
  CASE x.type = "object" -> DOMAIN x.fields
  [] x.type = "array" -> {ToString(i) : i \in DOMAIN x.items}
  [] OTHER -> {}
Text(name) == [type |-> "string", value |-> name]

(* The violated assertions of a schema, each with what violates it; const is *)
(* an enum of one, and "scalar" is what the assertions on strings and numbers *)
(* admit together.                                                           *)
ValueViolations(s, x) ==
  {k \in DOMAIN s :
     \/ k = "type" /\ ~ \E t \in s.type : OfType(x, t)
     \/ k = "enum" /\ x \notin s.enum
     \/ k = "scalar" /\ x.type \in {"string", "integer"} /\ x \notin s.scalar}
ObjectViolations(s, x) ==
  {<<k>> : k \in {k \in DOMAIN s :
     \/ k = "minProperties" /\ Cardinality(Parts(x)) < s.minProperties
     \/ k = "maxProperties" /\ Cardinality(Parts(x)) > s.maxProperties}}
  \cup {<<"required", p>> : p \in (IF Has(s, "required") THEN s.required ELSE {}) \ Parts(x)}
  \cup UNION {{<<"dependentRequired", p, q>> : q \in s.dependentRequired[p] \ Parts(x)} :
                p \in Keys(s, "dependentRequired") \cap Parts(x)}
ArrayViolations(s, x) ==
  {<<k>> : k \in {k \in DOMAIN s :
     \/ k = "minItems" /\ Len(x.items) < s.minItems
     \/ k = "maxItems" /\ Len(x.items) > s.maxItems}}
  \cup {<<"uniqueItems", ToString(p[1]), ToString(p[2])>> :
          p \in {p \in (DOMAIN x.items) \X (DOMAIN x.items) :
                   Has(s, "uniqueItems") /\ p[1] < p[2] /\ x.items[p[1]] = x.items[p[2]]}}
Violations(s, x) ==
  Cardinality(ValueViolations(s, x))
  + (CASE x.type = "object" -> Cardinality(ObjectViolations(s, x))
     [] x.type = "array" -> Cardinality(ArrayViolations(s, x))
     [] OTHER -> 0)

-----------------------------------------------------------------------------
(* Meaning.  What is not decided within n steps down, a reference that names *)
(* no location and a keyword that is not supported leave it open.            *)

(* The steps of a schema that apply to one part of an instance.              *)
Declaring(s, key) ==
  {step \in Steps(s) : \/ step = <<"properties", key>>
                      \/ /\ step[1] = "patternProperties"
                         /\ key \in Matching[step[2]]}
Applying(s, x, key) ==
  IF x.type = "object"
  THEN IF Declaring(s, key) # {} THEN Declaring(s, key) ELSE {<<"additionalProperties">>} \cap Steps(s)
  ELSE IF <<"prefixItems", key>> \in Steps(s) THEN {<<"prefixItems", key>>}
  ELSE {<<"items">>} \cap Steps(s)

(* And those that apply to the whole of it, of which not covers nothing.     *)
InPlace(s, x) ==
  {step \in Steps(s) : step[1] \in {"allOf", "anyOf", "oneOf", "not", "if"}}
  \cup {<<"dependentSchemas", p>> : p \in IF x.type = "object"
          THEN Keys(s, "dependentSchemas") \cap Parts(x) ELSE {}}

Open == [open |-> TRUE, holds |-> FALSE, covers |-> {}]

RECURSIVE Meaning(_, _, _)
Meaning(l, x, n) ==
  LET s == SchemaAt(l)
      Below(step, y) == Meaning(<<l[1], Append(l[2], step)>>, y, n - 1)
      names == IF Has(s, "ref") THEN Named(ResolveUri(s.ref, OwnBase(l)), s.ref.fragment) ELSE {}
  IN
  IF n = 0 THEN Open
  ELSE IF Has(s, "always") THEN [open |-> FALSE, holds |-> s.always, covers |-> {}]
  ELSE IF Has(s, "unsupported") \/ (Has(s, "ref") /\ names = {}) THEN Open
  ELSE
  LET applied == {a \in Steps(s) \X Parts(x) : a[1] \in Applying(s, x, a[2])}
      part == [a \in applied |-> Below(a[1], Part(x, a[2]))]
      spelled == IF Has(s, "propertyNames") /\ x.type = "object"
                 THEN {Below(<<"propertyNames">>, Text(p)) : p \in Parts(x)} ELSE {}
      contained == IF Has(s, "contains") /\ x.type = "array"
                   THEN [key \in Parts(x) |-> Below(<<"contains">>, Part(x, key))] ELSE <<>>
      hits == {key \in DOMAIN contained : contained[key].holds}
      whole == [step \in InPlace(s, x) |-> Below(step, x)]
      Hold(keyword) == {step \in DOMAIN whole : step[1] = keyword /\ whole[step].holds}
      All(keyword) == {step \in DOMAIN whole : step[1] = keyword}
      chosen == IF ~Has(s, "if") THEN {}
                ELSE {<<IF Hold("if") # {} THEN "then" ELSE "else">>} \cap Steps(s)
      other == {Below(step, x) : step \in chosen}
               \cup {Meaning(target, x, n - 1) : target \in names}
      covered == {a[2] : a \in applied} \cup hits
                 \cup UNION {m.covers : m \in {o \in other : o.holds}}
                 \cup UNION {whole[step].covers :
                               step \in {w \in DOMAIN whole : w[1] # "not" /\ whole[w].holds}}
      last == IF x.type = "object" THEN <<"unevaluatedProperties">> ELSE <<"unevaluatedItems">>
      rest == IF last \in Steps(s)
              THEN [key \in Parts(x) \ covered |-> Below(last, Part(x, key))] ELSE <<>>
      all == {part[a] : a \in applied} \cup spelled \cup {contained[k] : k \in DOMAIN contained}
             \cup {whole[w] : w \in DOMAIN whole} \cup other \cup {rest[k] : k \in DOMAIN rest}
  IN
  [open |-> \E m \in all : m.open,
   holds |->
     /\ Violations(s, x) = 0
     /\ \A m \in {part[a] : a \in applied} \cup spelled \cup other : m.holds
     /\ \A k \in DOMAIN rest : rest[k].holds
     /\ Has(s, "contains") /\ x.type = "array" =>
          /\ Cardinality(hits) >= (IF Has(s, "minContains") THEN s.minContains ELSE 1)
          /\ Has(s, "maxContains") => Cardinality(hits) <= s.maxContains
     /\ Hold("allOf") = All("allOf") /\ Hold("dependentSchemas") = All("dependentSchemas")
     /\ Has(s, "anyOf") => Hold("anyOf") # {}
     /\ Has(s, "oneOf") => Cardinality(Hold("oneOf")) = 1
     /\ Hold("not") = {},
   covers |-> IF last \in Steps(s) THEN Parts(x) ELSE covered]
=============================================================================
