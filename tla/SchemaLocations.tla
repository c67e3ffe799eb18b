---------------------------- MODULE SchemaLocations ----------------------------
(***************************************************************************)
(* What a URI names, by definition and without an index: the locations in   *)
(* the documents, the base that a location has by its place, the resources  *)
(* around it, and the one location that a URI with a fragment names.        *)
(***************************************************************************)
EXTENDS SchemaResolver

(* The pointers that lead somewhere.                                         *)
PointersIn(s) ==
  LET of[k \in 0 .. MaxNesting] ==
        IF k = 0 THEN {<<>>}
        ELSE UNION {{Append(p, step) : step \in UNION {Steps(t) : t \in FollowPointer(s, p)}} :
                      p \in of[k - 1]}
  IN  UNION {of[k] : k \in 0 .. MaxNesting}
Locations ==
  UNION {{<<n, p>> : p \in PointersIn(documents[n].schema)} : n \in DOMAIN documents}

SubschemaAt(s, pointer) == CHOOSE t \in FollowPointer(s, pointer) : TRUE
SchemaAt(l) == SubschemaAt(documents[l[1]].schema, l[2])

(* Each $id on the way from the root to a location applies to the base that  *)
(* the ones before it gave.                                                  *)
ScopeAt(number, document, pointer) ==
  LET base[k \in 0 .. Len(pointer)] ==
        Scope(SubschemaAt(document.schema, SubSeq(pointer, 1, k)),
              IF k = 0 THEN FallbackBase(number, document) ELSE base[k - 1])
  IN  base[Len(pointer)]
BaseAround(number, document, pointer) ==
  IF pointer = <<>> THEN FallbackBase(number, document)
  ELSE ScopeAt(number, document, Front(pointer))

OwnBase(l) == ScopeAt(l[1], documents[l[1]], l[2])
InheritedBase(l) == BaseAround(l[1], documents[l[1]], l[2])

Resources == {l \in Locations : l[2] = <<>> \/ Has(SchemaAt(l), "id")}
Within(l, r) == l[1] = r[1] /\ IsPrefix(r[2], l[2])

(* The locations that a URI with a fragment names.                           *)
Named(uri, fragment) ==
  UNION {CASE fragment.kind = "none" -> {r}
         [] fragment.kind = "pointer" -> {<<r[1], r[2] \o fragment.pointer>>} \cap Locations
         [] OTHER -> {l \in Locations : /\ Within(l, r) /\ OwnBase(l) = uri
                                        /\ Has(SchemaAt(l), "anchor")
                                        /\ SchemaAt(l).anchor = fragment.anchor}
         : r \in {r \in Resources : OwnBase(r) = uri}}

-----------------------------------------------------------------------------
(* SchemaResolver: an indexed URI names one location, of a document that was *)
(* entered as a whole; and by whichever enclosing resource a schema location *)
(* is named, and by its anchor, a reference finds that location with the base *)
(* that it has by its place, across embedded resources too.                  *)
NamesLeadHome ==
  /\ \A name \in DOMAIN index :
       /\ index[name].record \in DOMAIN documents
       /\ Named(name.uri, name.fragment) = {Location(index[name])}
  /\ \A l \in Locations :
       LET home == [schema |-> SchemaAt(l), record |-> l[1], pointer |-> l[2],
                    base |-> OwnBase(l), parentBase |-> InheritedBase(l)]
           To(uri, fragment) == Resolve([absolute |-> TRUE, uri |-> uri, fragment |-> fragment], uri)
       IN  /\ \A r \in Resources : Within(l, r) =>
                To(OwnBase(r), AtPointer(SubSeq(l[2], Len(r[2]) + 1, Len(l[2])))) = home
           /\ Has(SchemaAt(l), "anchor") =>
                To(OwnBase(l), AtAnchor(SchemaAt(l).anchor)) = home
=============================================================================
