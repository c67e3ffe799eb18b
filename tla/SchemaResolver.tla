---------------------------- MODULE SchemaResolver ----------------------------
(***************************************************************************)
(* The index of schema documents that $ref is looked up in (SchemaResolver  *)
(* of instance-validator.mjs).  Documents are added one after the other; a  *)
(* document is entered with all its nodes or not at all.                    *)
(*                                                                          *)
(* A schema is a function from its keywords to their values; a boolean      *)
(* schema has the one keyword "always".  A base URI is the sequence of its  *)
(* path segments.  A reference and an $id are [absolute, uri, fragment],    *)
(* where uri is relative to a base unless it is absolute, and empty for the *)
(* base itself.  A fragment is absent, an anchor, or a pointer; a pointer   *)
(* is a sequence of steps from a schema to a subschema, so that all its     *)
(* encodings are one value.                                                 *)
(***************************************************************************)
EXTENDS Integers, FiniteSets, Sequences, SequencesExt, TLC

CONSTANTS
  Bundles,    \* collections to load: sequences of [path, schema]
  MaxNesting, \* how deep subschemas are nested in them
  Nothing     \* undefined

VARIABLES
  bundle,    \* the collection
  tried,     \* how many of its documents addDocument was called with
  documents, \* those it entered
  index      \* from [uri, fragment] to a schema, its location and its two bases

resolver == <<bundle, tried, documents, index>>

-----------------------------------------------------------------------------
(* Schemas and references.                                                  *)

MapKeys == {"defs", "properties", "patternProperties", "dependentSchemas"}
ArrayKeys == {"allOf", "anyOf", "oneOf", "prefixItems"}
SingleKeys == {"additionalProperties", "unevaluatedProperties", "propertyNames", "contains",
               "not", "if", "then", "else", "items", "unevaluatedItems"}

Has(s, keyword) == keyword \in DOMAIN s
Keys(s, keyword) == IF Has(s, keyword) THEN DOMAIN s[keyword] ELSE {}

(* The steps to the direct subschemas; literal values contain none.          *)
Steps(s) ==
  (UNION {{<<k, name>> : name \in Keys(s, k)} : k \in MapKeys})
  \cup (UNION {{<<k, ToString(i)>> : i \in Keys(s, k)} : k \in ArrayKeys})
  \cup {<<k>> : k \in SingleKeys \cap DOMAIN s}
Child(s, step) ==
  LET k == step[1] IN
  IF k \in SingleKeys THEN s[k]
  ELSE IF k \in MapKeys THEN s[k][step[2]]
  ELSE s[k][CHOOSE i \in DOMAIN s[k] : ToString(i) = step[2]]

(* followPointer: the one schema that a pointer leads to, or none.           *)
FollowPointer(s, pointer) ==
  LET at[k \in 0 .. Len(pointer)] ==
        IF k = 0 THEN {s}
        ELSE {Child(t, pointer[k]) : t \in {t \in at[k - 1] : pointer[k] \in Steps(t)}}
  IN  at[Len(pointer)]

Whole == [kind |-> "none", pointer |-> <<>>, anchor |-> ""]
AtPointer(pointer) == [Whole EXCEPT !.kind = "pointer", !.pointer = pointer]
AtAnchor(name) == [Whole EXCEPT !.kind = "anchor", !.anchor = name]

ResolveUri(reference, base) ==
  IF reference.absolute THEN reference.uri
  ELSE IF reference.uri = <<>> THEN base
  ELSE Front(base) \o reference.uri

(* The base that a schema gives to what is in it.                            *)
Scope(s, base) == IF Has(s, "id") THEN ResolveUri(s.id, base) ELSE base

-----------------------------------------------------------------------------
(* Registration.                                                            *)

Name(uri, fragment) == [uri |-> uri, fragment |-> fragment]

(* #register visits a schema with the base around it, then its subschemas in *)
(* its own scope.                                                            *)
Visit(pointer, s, base) == [pointer |-> pointer, schema |-> s, base |-> base]
Under(visit) ==
  {Visit(Append(visit.pointer, step), Child(visit.schema, step), Scope(visit.schema, visit.base)) :
     step \in Steps(visit.schema)}
Visits(s, base) ==
  LET level[k \in 0 .. MaxNesting] ==
        IF k = 0 THEN {Visit(<<>>, s, base)} ELSE UNION {Under(v) : v \in level[k - 1]}
  IN  UNION {level[k] : k \in 0 .. MaxNesting}

(* Every node by its pointer from the root, by its own $id, by its anchor.   *)
Register(visit, root, record) ==
  LET s == visit.schema
      own == Scope(s, visit.base)
      entry == [schema |-> s, record |-> record, pointer |-> visit.pointer, base |-> own,
                parentBase |-> visit.base]
      names == {Name(root, AtPointer(visit.pointer))}
               \cup (IF Has(s, "id") THEN {Name(own, Whole)} ELSE {})
               \cup (IF Has(s, "anchor") THEN {Name(own, AtAnchor(s.anchor))} ELSE {})
  IN  {<<name, entry>> : name \in names}

Location(entry) == <<entry.record, entry.pointer>>
FallbackBase(number, document) == <<"synthetic", ToString(number), document.path>>

ASSUME NestingAssumption ==
  /\ MaxNesting \in Nat
  /\ \A b \in Bundles : \A i \in DOMAIN b :
       \A visit \in Visits(b[i].schema, FallbackBase(i, b[i])) :
         Len(visit.pointer) = MaxNesting => Steps(visit.schema) = {}

Pending(number, document) ==
  LET fallback == FallbackBase(number, document)
      root == Scope(document.schema, fallback)
  IN  {<<Name(root, Whole), [schema |-> document.schema, record |-> number, pointer |-> <<>>,
                             base |-> root, parentBase |-> fallback]>>}
      \cup UNION {Register(visit, root, number) : visit \in Visits(document.schema, fallback)}

(* One URI for two locations, in the document or with what was entered.      *)
Conflicts(pending) ==
  \/ \E a, b \in pending : a[1] = b[1] /\ Location(a[2]) # Location(b[2])
  \/ \E a \in pending :
       a[1] \in DOMAIN index /\ Location(a[2]) # Location(index[a[1]])

Malformed(number, document) ==
  \E visit \in Visits(document.schema, FallbackBase(number, document)) : Has(visit.schema, "malformed")

Entered(pending) ==
  LET new == {a[1] : a \in pending} IN
  [name \in new \cup DOMAIN index |->
     IF name \in new THEN (CHOOSE a \in pending : a[1] = name)[2] ELSE index[name]]

(* addDocument: a document with a conflict or a malformed node is refused.   *)
AddDocument ==
  /\ tried < Len(bundle)
  /\ tried' = tried + 1
  /\ LET document == bundle[tried + 1]
         pending == Pending(Len(documents) + 1, document)
     IN  IF Malformed(Len(documents) + 1, document) \/ Conflicts(pending)
         THEN UNCHANGED <<documents, index>>
         ELSE documents' = Append(documents, document) /\ index' = Entered(pending)
  /\ UNCHANGED bundle

ResolverInit == bundle \in Bundles /\ tried = 0 /\ documents = <<>> /\ index = <<>>
ResolverSpec == ResolverInit /\ [][AddDocument]_resolver

-----------------------------------------------------------------------------
(* Lookup.                                                                  *)

(* Mutant of Resolve: the target is given the base of the resource named.    *)
ResolveByResource(reference, base) ==
  LET uri == ResolveUri(reference, base)
      direct == Name(uri, reference.fragment)
      anchor == Name(uri, Whole)
  IN  IF direct \in DOMAIN index THEN index[direct]
      ELSE IF reference.fragment.kind # "pointer" \/ anchor \notin DOMAIN index THEN Nothing
      ELSE LET from == index[anchor]
               found == FollowPointer(from.schema, reference.fragment.pointer)
           IN  IF found = {} THEN Nothing
               ELSE [from EXCEPT !.pointer = @ \o reference.fragment.pointer,
                                 !.schema = CHOOSE s \in found : TRUE, !.parentBase = from.base]

(* resolve: by the name itself, or by a pointer from a resource that is      *)
(* known, whose target is then looked up by its pointer from the root.       *)
Resolve(reference, base) ==
  LET uri == ResolveUri(reference, base)
      direct == Name(uri, reference.fragment)
      anchor == Name(uri, Whole)
  IN  IF direct \in DOMAIN index THEN index[direct]
      ELSE IF reference.fragment.kind # "pointer" \/ anchor \notin DOMAIN index THEN Nothing
      ELSE LET from == index[anchor]
               document == documents[from.record]
               root == Scope(document.schema, FallbackBase(from.record, document))
           IN  IF FollowPointer(from.schema, reference.fragment.pointer) = {} THEN Nothing
               ELSE index[Name(root, AtPointer(from.pointer \o reference.fragment.pointer))]
=============================================================================
