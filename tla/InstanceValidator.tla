--------------------------- MODULE InstanceValidator ---------------------------
(***************************************************************************)
(* validateInstance over the resolver: the recursive evaluation of a schema *)
(* with its base, the stack of references being evaluated, the depth limit, *)
(* the annotations that unevaluated* consumes and the errors it keeps.      *)
(*                                                                          *)
(* A thrown error (a cycle, the depth limit, a reference without a target,  *)
(* a keyword that is not supported) ends the whole evaluation; here it is   *)
(* an outcome that makes every enclosing one refused: no part of a schema   *)
(* is skipped because another was invalid, so that the order does not matter. *)
(***************************************************************************)
EXTENDS SchemaSemantics, FiniteSetsExt

CONSTANTS
  Values,  \* what is validated
  MaxDepth,   \* maxDepth of an evaluation
  MaxErrors   \* errors kept of one validation

ASSUME LimitsAssumption == MaxDepth \in Nat /\ MaxErrors \in Nat \ {0}

VARIABLES
  asked,      \* the location validated against, Nothing before
  results     \* result per instance

-----------------------------------------------------------------------------
(* Annotations and outcomes.                                                *)

EmptyAnnotations == [properties |-> {}, items |-> 0, matchedItems |-> {}, allItems |-> FALSE]
MergeAnnotations(all) ==
  [properties |-> UNION {a.properties : a \in all},
   items |-> Max({0} \cup {a.items : a \in all}),
   matchedItems |-> UNION {a.matchedItems : a \in all},
   allItems |-> \E a \in all : a.allItems]
Property(p) == [EmptyAnnotations EXCEPT !.properties = {p}]
UpTo(i) == [EmptyAnnotations EXCEPT !.items = i]
Every(x) == [EmptyAnnotations EXCEPT !.allItems = TRUE, !.items = Len(x.items)]

Outcome(refused, errors, annotations) ==
  [refused |-> refused, valid |-> errors = 0, errors |-> errors, annotations |-> annotations]
Refusal == [refused |-> TRUE, valid |-> FALSE, errors |-> 0, annotations |-> EmptyAnnotations]

(* Several parts of one schema; the annotations of a part are what it merges. *)
Together(parts) ==
  [refused |-> \E i \in DOMAIN parts : parts[i].refused,
   valid |-> \A i \in DOMAIN parts : parts[i].valid,
   errors |-> MapThenSumSet(LAMBDA i : parts[i].errors, DOMAIN parts),
   annotations |-> MergeAnnotations({parts[i].annotations : i \in DOMAIN parts})]

-----------------------------------------------------------------------------
(* Applicators.  A call is one subschema on one part ("" for the whole), and *)
(* what it adds to the annotations of the caller if it is valid.             *)

Call(step, schema, x, key, adds) ==
  [step |-> step, schema |-> schema, instance |-> x, key |-> key, adds |-> adds]
Descend(context, key) ==
  [context EXCEPT !.depth = @ + 1, !.path = IF key = "" THEN @ ELSE Append(@, key)]

RECURSIVE EvaluateSchema(_, _, _, _)

Results(calls, base, context) ==
  [k \in calls |-> EvaluateSchema(k.schema, k.instance, base, Descend(context, k.key))]

(* Subschemas that must be valid: their errors are errors of the caller.     *)
Require(calls, base, context) ==
  LET r == Results(calls, base, context)
      valid == {k \in calls : r[k].valid}
  IN  [refused |-> \E k \in calls : r[k].refused,
       valid |-> valid = calls,
       errors |-> MapThenSumSet(LAMBDA k : r[k].errors, calls),
       annotations |-> MergeAnnotations({k.adds : k \in valid}
                         \cup {r[k].annotations : k \in {v \in valid : v.key = ""}})]

(* Subschemas that are tried: they have an error list of their own, which is *)
(* dropped, and the same stack of references.                                *)
Probe(calls, base, context) ==
  LET r == Results(calls, base, context) IN
  [refused |-> \E k \in calls : r[k].refused,
   hits |-> {k \in calls : r[k].valid},
   annotations |-> [k \in calls |-> r[k].annotations]]
Fails(broken) == IF broken THEN 1 ELSE 0

(* Mutant of Reference: a frame is the reference, wherever it is followed.   *)
ReferenceByName(s, x, base, context) ==
  LET target == Resolve(s.ref, base)
      frame == <<base, s.ref>>
      deeper == [Descend(context, "") EXCEPT !.refStack = @ \cup {frame}]
  IN  IF target = Nothing \/ frame \in context.refStack THEN Refusal
      ELSE LET r == EvaluateSchema(target.schema, x, target.parentBase, deeper)
           IN  IF r.valid THEN r ELSE [r EXCEPT !.annotations = EmptyAnnotations]

(* $ref: a reference that is being followed at the same place of the instance *)
(* is a cycle; the stack is the evaluation's own, in branches too.            *)
Reference(s, x, base, context) ==
  LET target == Resolve(s.ref, base)
      frame == <<base, s.ref, context.path>>
      deeper == [Descend(context, "") EXCEPT !.refStack = @ \cup {frame}]
  IN  IF target = Nothing \/ frame \in context.refStack THEN Refusal
      ELSE LET r == EvaluateSchema(target.schema, x, target.parentBase, deeper)
           IN  IF r.valid THEN r ELSE [r EXCEPT !.annotations = EmptyAnnotations]

(* additionalProperties looks at properties and patternProperties only.      *)
ObjectCalls(s, x) ==
  LET matched == {q \in Keys(s, "patternProperties") \X Parts(x) : q[2] \in Matching[q[1]]}
      locallyDeclared == (Keys(s, "properties") \cap Parts(x)) \cup {q[2] : q \in matched}
  IN  {Call(<<"properties", p>>, s.properties[p], x.fields[p], p, Property(p)) :
         p \in Keys(s, "properties") \cap Parts(x)}
      \cup {Call(<<"patternProperties", q[1]>>, s.patternProperties[q[1]], x.fields[q[2]], q[2],
                 Property(q[2])) : q \in matched}
      \cup {Call(<<"additionalProperties">>, s.additionalProperties, x.fields[p], p, Property(p)) :
              p \in IF Has(s, "additionalProperties") THEN Parts(x) \ locallyDeclared ELSE {}}
      \cup {Call(<<"propertyNames">>, s.propertyNames, Text(p), p, EmptyAnnotations) :
              p \in IF Has(s, "propertyNames") THEN Parts(x) ELSE {}}
      \cup {Call(<<"dependentSchemas", p>>, s.dependentSchemas[p], x, "", EmptyAnnotations) :
              p \in Keys(s, "dependentSchemas") \cap Parts(x)}

ItemCalls(step, schema, x, from, adds) ==
  {Call(step, schema, x.items[i], ToString(i), adds) : i \in from}
PrefixCount(s, x) == Cardinality(Keys(s, "prefixItems") \cap DOMAIN x.items)

(* prefixItems, and items for the rest.                                      *)
PrefixItems(s, x, base, context) ==
  Require({Call(<<"prefixItems", ToString(i)>>, s.prefixItems[i], x.items[i], ToString(i), UpTo(i)) :
             i \in 1 .. PrefixCount(s, x)}, base, context)
EveryItem(result, x) ==
  IF result.valid
  THEN [result EXCEPT !.annotations = MergeAnnotations({@, Every(x)})] ELSE result
Items(s, x, base, context) ==
  EveryItem(Require(ItemCalls(<<"items">>, s.items, x, PrefixCount(s, x) + 1 .. Len(x.items),
                              EmptyAnnotations), base, context), x)
(* Mutant of ContainsItem: a match evaluates all the items before it.         *)
ContainsUpTo(s, x, base, context) ==
  LET p == Probe({Call(<<"contains">>, s.contains, x.items[i], ToString(i), i) :
                    i \in DOMAIN x.items}, base, context)
      matches == Cardinality(p.hits)
  IN  Outcome(p.refused,
        Fails(matches < (IF Has(s, "minContains") THEN s.minContains ELSE 1))
        + Fails(Has(s, "maxContains") /\ matches > s.maxContains),
        UpTo(Max({0} \cup {k.adds : k \in p.hits})))

(* contains: every item is tried, and the matching ones are evaluated.        *)
ContainsItem(s, x, base, context) ==
  LET p == Probe({Call(<<"contains">>, s.contains, x.items[i], ToString(i), i) :
                    i \in DOMAIN x.items}, base, context)
      matches == Cardinality(p.hits)
  IN  Outcome(p.refused,
        Fails(matches < (IF Has(s, "minContains") THEN s.minContains ELSE 1))
        + Fails(Has(s, "maxContains") /\ matches > s.maxContains),
        [EmptyAnnotations EXCEPT !.matchedItems = {k.adds : k \in p.hits}])

(* Branches, of which only valid ones hand their annotations on.             *)
Branches(keyword, s, x) ==
  {Call(<<keyword, ToString(i)>>, s[keyword][i], x, "", EmptyAnnotations) : i \in Keys(s, keyword)}
Single(keyword, s, x) == {Call(<<keyword>>, s[keyword], x, "", EmptyAnnotations)}
Tried(p) == MergeAnnotations({p.annotations[k] : k \in p.hits})

AnyOf(s, x, base, context) ==
  LET p == Probe(Branches("anyOf", s, x), base, context) IN
  Outcome(p.refused, Fails(p.hits = {}), Tried(p))
OneOf(s, x, base, context) ==
  LET p == Probe(Branches("oneOf", s, x), base, context)
      one == Cardinality(p.hits) = 1
  IN  Outcome(p.refused, Fails(~one), IF one THEN Tried(p) ELSE EmptyAnnotations)
Not(s, x, base, context) ==
  LET p == Probe(Single("not", s, x), base, context) IN
  Outcome(p.refused, Fails(p.hits # {}), EmptyAnnotations)
(* if, and then or else, whose errors are errors of the caller again.        *)
If(s, x, base, context) ==
  LET p == Probe(Single("if", s, x), base, context)
      next == IF p.hits # {} THEN "then" ELSE "else"
  IN  Together(<<Outcome(p.refused, 0, Tried(p)),
                 Require(IF Has(s, next) THEN Single(next, s, x) ELSE {}, base, context)>>)

(* unevaluated*: what none of the annotations gathered so far covers.        *)
UnevaluatedProperties(s, x, base, context, annotations) ==
  Require({Call(<<"unevaluatedProperties">>, s.unevaluatedProperties, x.fields[p], p, Property(p)) :
             p \in Parts(x) \ annotations.properties}, base, context)
UnevaluatedItems(s, x, base, context, annotations) ==
  LET start == IF annotations.allItems THEN Len(x.items) ELSE annotations.items IN
  EveryItem(Require(ItemCalls(<<"unevaluatedItems">>, s.unevaluatedItems, x,
                              (start + 1 .. Len(x.items)) \ annotations.matchedItems,
                              EmptyAnnotations), base, context), x)

-----------------------------------------------------------------------------
(* Evaluation: $ref and assertions, then objects, arrays, in-place           *)
(* applicators, and at last what is left unevaluated.                        *)

EvaluateSchema(s, x, base, context) ==
  LET own == Scope(s, base)
      object == x.type = "object"
      array == x.type = "array"
      When(applies, part) == IF applies THEN <<part>> ELSE <<>>
      gathered == Together(
        When(Has(s, "ref"), Reference(s, x, own, context))
        \o <<Outcome(FALSE, Violations(s, x), EmptyAnnotations)>>
        \o When(object, Require(ObjectCalls(s, x), own, context))
        \o When(array /\ Has(s, "prefixItems"), PrefixItems(s, x, own, context))
        \o When(array /\ Has(s, "items"), Items(s, x, own, context))
        \o When(array /\ Has(s, "contains"), ContainsItem(s, x, own, context))
        \o When(Has(s, "allOf"), Require(Branches("allOf", s, x), own, context))
        \o When(Has(s, "anyOf"), AnyOf(s, x, own, context))
        \o When(Has(s, "oneOf"), OneOf(s, x, own, context))
        \o When(Has(s, "not"), Not(s, x, own, context))
        \o When(Has(s, "if"), If(s, x, own, context)))
      seen == gathered.annotations
  IN  IF context.depth > MaxDepth \/ Has(s, "unsupported") THEN Refusal
      ELSE IF Has(s, "always") THEN Outcome(FALSE, Fails(~s.always), EmptyAnnotations)
      ELSE Together(<<gathered>>
        \o When(object /\ Has(s, "unevaluatedProperties"),
                 UnevaluatedProperties(s, x, own, context, seen))
        \o When(array /\ Has(s, "unevaluatedItems"), UnevaluatedItems(s, x, own, context, seen)))

(* validateInstance: the base given may be the resource's own or the one it   *)
(* inherits; its $id is applied once.                                        *)
ValidateInstance(target, base, x) ==
  LET resource == Resolve([absolute |-> FALSE, uri |-> <<>>, fragment |-> AtPointer(<<>>)], base)
      inherited == IF resource # Nothing /\ Location(resource) = Location(target)
                   THEN resource.parentBase ELSE base
      r == EvaluateSchema(target.schema, x, inherited,
                    [depth |-> 0, path |-> <<>>, refStack |-> {}])
  IN  [refused |-> r.refused, valid |-> r.valid, errors |-> Min({r.errors, MaxErrors})]

-----------------------------------------------------------------------------
(* A lane: its documents are loaded, then declarations are validated against *)
(* with the base that crossValidate takes (inherited) or the one that the    *)
(* legal rollout and the configuration command take (own).                   *)

EvaluationInit ==
  /\ ResolverInit
  /\ asked = Nothing /\ results = <<>>

Load == AddDocument /\ UNCHANGED <<asked, results>>

Declarations(s) == {<<>>} \cup {<<<<"defs", name>>>> : name \in Keys(s, "defs")}

Validate ==
  /\ documents = bundle
  /\ \E n \in DOMAIN documents :
     \E pointer \in Declarations(documents[n].schema) :
       LET root == Scope(documents[n].schema, FallbackBase(n, documents[n]))
           target == Resolve([absolute |-> TRUE, uri |-> root, fragment |-> AtPointer(pointer)], root)
       IN  \E base \in {target.parentBase, target.base} :
             /\ asked' = Location(target)
             /\ results' = [x \in Values |-> ValidateInstance(target, base, x)]
  /\ UNCHANGED resolver

EvaluationNext == Load \/ Validate
validator == <<resolver, asked, results>>
EvaluationSpec == EvaluationInit /\ [][EvaluationNext]_validator

-----------------------------------------------------------------------------
(* Properties.                                                              *)

Judged(x) == Meaning(asked, x, MaxDepth + 1)

(* evaluate: a verdict is what the schema means for the instance, although    *)
(* the evaluator knows evaluated items only by a prefix, a set of matches and *)
(* a flag, and finds its bases as it goes; and an error is kept just when the *)
(* instance is invalid, whatever branches were tried.                         *)
VerdictIsByDefinition ==
  asked # Nothing =>
    \A x \in Values : ~results[x].refused =>
      /\ results[x].valid = Judged(x).holds
      /\ results[x].valid <=> results[x].errors = 0

(* evaluate: an evaluation is refused when and only when it cannot be finished *)
(* within the depth limit; a repeated reference is never a false alarm, and    *)
(* no negation or branch turns a refusal into a verdict.                      *)
RefusalIsUnfinished ==
  asked # Nothing => \A x \in Values : results[x].refused <=> Judged(x).open
=============================================================================
