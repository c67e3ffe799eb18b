--------------------------- MODULE WitCompatibility ---------------------------
(***************************************************************************)
(* compareWitCompatibility: what of a baseline a current WIT projection may *)
(* not change, for a consumer of its interfaces and worlds, or for everyone *)
(* in strict mode.  Collections are sets of records with a name.  A type's  *)
(* kind and shape, a function's signature and a binding's kind and target   *)
(* are one value each.                                                      *)
(***************************************************************************)
EXTENDS Rules, Integers, FiniteSetsExt

CONSTANTS
  Folded,      \* Folded[n]: identifier n in lower case
  Arity,       \* Arity[s]: parameters and results of signature s
  MaxItems,    \* limit of one collection
  MaxBudget    \* limit of all collections of a projection together

Has(items, name) == \E i \in items : i.name = name
Named(items, name) == CHOOSE i \in items : i.name = name
Both(before, after) == {i \in before : Has(after, i.name)}
Gone(rule, before, after) == {<<rule, b.name>> : b \in {x \in before : ~Has(after, x.name)}}
Changed(rule, before, after) ==
  {<<rule, b.name>> : b \in {x \in Both(before, after) : Named(after, x.name) # x}}

-----------------------------------------------------------------------------
(* normalizeWitProjection.  The budget counts every entry of every           *)
(* collection, parameters and results included.                              *)

UniqueNames(items) == \A i, j \in items : Folded[i.name] = Folded[j.name] => i = j
Collections(p) ==
  {p.worlds, p.interfaces} \cup {w.imports : w \in p.worlds} \cup {w.exports : w \in p.worlds}
  \cup {i.types : i \in p.interfaces} \cup {i.functions : i \in p.interfaces}
Spent(p) ==
  Cardinality(p.worlds) + Cardinality(p.interfaces)
  + MapThenSumSet(LAMBDA w : Cardinality(w.imports) + Cardinality(w.exports), p.worlds)
  + MapThenSumSet(LAMBDA i : Cardinality(i.types) + Cardinality(i.functions)
      + MapThenSumSet(LAMBDA f : Arity[f.signature], i.functions), p.interfaces)
Accepted(p) ==
  /\ \A c \in Collections(p) : UniqueNames(c) /\ Cardinality(c) <= MaxItems
  /\ \A i \in p.interfaces : \A t \in i.types, f \in i.functions : Folded[t.name] # Folded[f.name]
  /\ Spent(p) <= MaxBudget

(* canonicalPackageIdentity: the compatibility line of a version.            *)
Line(v) ==
  IF v.prerelease THEN <<v.major, v.minor, v.patch, "pre">>
  ELSE IF v.major # 0 THEN <<v.major>>
  ELSE IF v.minor # 0 THEN <<0, v.minor>>
  ELSE <<0, 0, v.patch>>

-----------------------------------------------------------------------------
InterfaceFindings(b, a, strict) ==
  Gone("type-removed", b.types, a.types) \cup Changed("type-changed", b.types, a.types)
  \cup Gone("function-removed", b.functions, a.functions)
  \cup Changed("function-signature-changed", b.functions, a.functions)
  \cup (IF strict THEN Gone("function-added", a.functions, b.functions) ELSE {})

WorldFindings(b, a, strict) ==
  Gone("world-export-removed", b.exports, a.exports)
  \cup Changed("world-export-changed", b.exports, a.exports)
  \cup (IF strict THEN Gone("world-export-added", a.exports, b.exports) ELSE {})
  \cup Changed("world-import-changed", b.imports, a.imports)
  \cup Gone("world-import-added", a.imports, b.imports)

Within(kind, findings, name) == {<<kind, name, f>> : f \in findings}
Findings(baseline, current, mode) ==
  Breaks(<<"package-identity-changed">>,
         baseline.package # current.package \/ Line(baseline.version) # Line(current.version))
  \cup Gone("interface-removed", baseline.interfaces, current.interfaces)
  \cup Gone("world-removed", baseline.worlds, current.worlds)
  \cup (UNION {Within("interface", InterfaceFindings(b, Named(current.interfaces, b.name), mode = "strict"),
                      b.name) : b \in Both(baseline.interfaces, current.interfaces)})
  \cup (UNION {Within("world", WorldFindings(b, Named(current.worlds, b.name), mode = "strict"),
                      b.name) : b \in Both(baseline.worlds, current.worlds)})
=============================================================================
