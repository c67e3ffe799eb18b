------------------------- MODULE MCInstanceValidator -------------------------
(***************************************************************************)
(* Collections for InstanceValidator: some about names and bases, and some  *)
(* about what the applicators gather for unevaluated*.                      *)
(***************************************************************************)
EXTENDS InstanceValidator

-----------------------------------------------------------------------------
(* Instances.                                                               *)

Number == [type |-> "integer", value |-> "1"]
Word == Text("a")
Object(fields) == [type |-> "object", fields |-> fields]
Array(items) == [type |-> "array", items |-> items]

MCValues ==
  {Number, Object(<<>>), Object([x |-> Number]), Object([x |-> Word]), Object([y |-> Word]),
   Object([x |-> Number, y |-> Number]), Object([x |-> Object([x |-> Number])]),
   Object([x |-> Object([x |-> Object([x |-> Number])])]),
   Array(<<Number>>), Array(<<Word, Number>>), Array(<<Number, Word>>),
   Array(<<Number, Number, Word>>)}
MCMatching == "any" :> {"x", "y"} @@ "y" :> {"y"}

-----------------------------------------------------------------------------
(* Schemas.                                                                 *)

Type(t) == [type |-> {t}]
Integer == Type("integer")
Ref(absolute, uri, fragment) ==
  [ref |-> [absolute |-> absolute, uri |-> uri, fragment |-> fragment]]
Def(name) == <<"defs", name>>
Local(pointer) == Ref(FALSE, <<>>, AtPointer(pointer))
Id(absolute, uri) == [id |-> [absolute |-> absolute, uri |-> uri]]
NoKeyword == <<>>

(* Names: a resource with an anchor and a definition of its own, embedded in *)
(* a document and used from inside and from outside it.                      *)
RootIds == {NoKeyword, Id(TRUE, <<"h", "r">>), Id(FALSE, <<"d", "r">>)}
OwnIds == {NoKeyword, Id(FALSE, <<"b">>), Id(FALSE, <<"d", "b">>), Id(TRUE, <<"h", "r">>)}
References ==
  {Local(<<Def("i")>>), Local(<<Def("e"), Def("i")>>), Local(<<Def("none")>>),
   Ref(FALSE, <<>>, AtAnchor("top")), Ref(FALSE, <<"b">>, Whole),
   Ref(FALSE, <<"d", "b">>, AtPointer(<<Def("i")>>)),
   Ref(TRUE, <<"h", "r">>, AtPointer(<<Def("e"), Def("u")>>))}
Embedded(id, reference) ==
  id @@ [anchor |-> "top", properties |-> [x |-> reference],
         defs |-> [i |-> Integer, u |-> reference]]
Using(root, id, reference) ==
  root @@ [defs |-> [i |-> Type("string"), e |-> Embedded(id, reference),
                    a |-> reference, f |-> Local(<<Def("e")>>)]]
Seconds ==
  {Id(TRUE, <<"h", "r">>) @@ Integer,
   Id(TRUE, <<"h", "s">>) @@ [defs |-> [e |-> Embedded(Id(FALSE, <<"r">>), Integer)]],
   Id(TRUE, <<"h", "s">>) @@ [defs |-> [e |-> [malformed |-> TRUE]]],
   [defs |-> [a |-> Ref(TRUE, <<"h", "r">>, AtPointer(<<Def("e")>>))]]}
NameBundles ==
  {<<[path |-> "one", schema |-> Using(root, id, reference)]>> \o second :
     root \in RootIds, id \in OwnIds, reference \in References,
     second \in {<<>>} \cup {<<[path |-> "two", schema |-> s]>> : s \in Seconds}}

-----------------------------------------------------------------------------
(* Annotations: applicators over schemas that gather some.                  *)

NoMore == [unevaluatedProperties |-> [always |-> FALSE], unevaluatedItems |-> [always |-> FALSE]]
RefTo(name) == Local(<<Def(name)>>)
Gathering ==
  {Integer, [properties |-> [x |-> Integer]],
   [prefixItems |-> <<Integer>>], [contains |-> Integer], RefTo("b")}
InPlaceOver(p, q) ==
  {[allOf |-> <<p, q>>], [anyOf |-> <<p, q>>], [oneOf |-> <<p, q>>],
   [not |-> p, allOf |-> <<q>>], [if |-> p, then |-> q], [if |-> p, else |-> q],
   p @@ [dependentSchemas |-> [y |-> q]]}
OnParts ==
  {[properties |-> [x |-> RefTo("b")], additionalProperties |-> Integer],
   [patternProperties |-> [any |-> Integer], properties |-> [x |-> RefTo("b")]],
   [prefixItems |-> <<Integer>>, items |-> Type("string")],
   [items |-> Integer, uniqueItems |-> TRUE],
   [prefixItems |-> <<RefTo("b"), Integer>>],
   [contains |-> Integer, minContains |-> 2],
   [contains |-> Integer, maxContains |-> 1, minContains |-> 0],
   [propertyNames |-> [enum |-> {Text("x")}], additionalProperties |-> [always |-> TRUE]],
   [required |-> {"x", "z"}, minProperties |-> 2, minItems |-> 2],
   [dependentRequired |-> [y |-> {"x"}], maxProperties |-> 1, maxItems |-> 2, scalar |-> {}]}
Bs ==
  {Integer, [properties |-> [y |-> Integer]], RefTo("a"), [properties |-> [x |-> RefTo("a")]],
   [not |-> RefTo("a")], [unsupported |-> TRUE]}
\* Every b where a refers to it, and one where it does not.
Defining(ones, others) ==
  {<<[path |-> "one", schema |-> [defs |-> [a |-> a @@ NoMore, b |-> b]]]>> : a \in ones, b \in others}
VerdictBundles ==
  Defining(OnParts \cup UNION {InPlaceOver(p, RefTo("b")) \cup InPlaceOver(RefTo("b"), p) :
                                  p \in Gathering}, Bs)
  \cup Defining(UNION {InPlaceOver(p, q) : p, q \in Gathering}, {Integer})

MCBundles == NameBundles \cup VerdictBundles
=============================================================================
