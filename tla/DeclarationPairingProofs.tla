----------------------- MODULE DeclarationPairingProofs -----------------------
(***************************************************************************)
(* What an empty list of inventory findings establishes, for every set of  *)
(* declarations, every mapping and every ignore list.  The invariant is     *)
(* that a verdict of "passed" is never older than the lanes it speaks of;    *)
(* the rest is what each gate rules out when it finds nothing.               *)
(***************************************************************************)
EXTENDS DeclarationPairing, FiniteSetTheorems, TLAPS

(* Replacing one lane by a map of its type keeps the lanes well typed. *)
LEMMA LaneUpdate ==
  ASSUME NEW S, S \in [Lanes -> UNION {SchemaMaps(k) : k \in Lanes}],
         \A k \in Lanes : S[k] \in SchemaMaps(k), NEW l \in Lanes, NEW v \in SchemaMaps(l)
  PROVE  /\ [S EXCEPT ![l] = v] \in [Lanes -> UNION {SchemaMaps(k) : k \in Lanes}]
         /\ \A k \in Lanes : [S EXCEPT ![l] = v][k] \in SchemaMaps(k)
OBVIOUS

(* Lanes, mapping and verdict stay within their types. *)
THEOREM PairingTypeCorrect == Spec => []TypeOK
<1>1. Init => TypeOK
  BY DEF Init, TypeOK, SchemaMaps
<1>2. TypeOK /\ [Next]_vars => TypeOK'
  <2> SUFFICES ASSUME TypeOK, [Next]_vars PROVE TypeOK'
    OBVIOUS
  <2> USE DEF TypeOK, SchemaMaps
  <2>1. CASE Compare
    BY <2>1 DEF Compare
  <2>2. ASSUME Edit, EditTypeSpec PROVE TypeOK'
    BY <2>2 DEF Edit, EditTypeSpec
  <2>3. ASSUME Edit, NEW l \in Lanes, EditSchema(l) PROVE TypeOK'
    <3>1. PICK n \in Names, kind \in Kinds[l] \cup {None} :
            schemas' = [schemas EXCEPT ![l] = [schemas[l] EXCEPT ![n] = kind]]
      BY <2>3 DEF EditSchema
    <3>2. [schemas[l] EXCEPT ![n] = kind] \in SchemaMaps(l)
      BY schemas[l] \in SchemaMaps(l)
    <3> QED
      BY <2>3, <3>1, <3>2, LaneUpdate DEF Edit, EditSchema
  <2>4. ASSUME Edit, NEW l \in Lanes, RenameSchema(l) PROVE TypeOK'
    <3>1. PICK n \in Present(l), m \in Names \ Present(l) :
            schemas' = [schemas EXCEPT
              ![l] = [schemas[l] EXCEPT ![n] = None, ![m] = schemas[l][n]]]
      BY <2>4 DEF RenameSchema
    <3>2. [schemas[l] EXCEPT ![n] = None, ![m] = schemas[l][n]] \in SchemaMaps(l)
      BY schemas[l] \in SchemaMaps(l) DEF Present
    <3>3. source' = source /\ verdict' = "none"
      BY <2>4 DEF Edit, RenameSchema
    <3> HIDE DEF SchemaMaps
    <3> QED
      BY <3>1, <3>2, <3>3, LaneUpdate
  <2>5. CASE UNCHANGED vars
    BY <2>5 DEF vars
  <2> QED
    BY <2>1, <2>2, <2>3, <2>4, <2>5 DEF Next, Edit
<1> QED
  BY <1>1, <1>2, PTL DEF Spec

-----------------------------------------------------------------------------
(* No missing, extra or colliding declaration: the lane is paired off. *)
LEMMA GatesPairOff ==
  ASSUME NEW lane,
         Missing(lane) = {}, Extra(lane) = {}, Collisions(lane) = {}
  PROVE  OneToOne(lane)
<1>1. ASSUME NEW d \in Kept PROVE Target(d, lane) \in Compared(lane)
  <2>1. <<"declaration-missing", lane, d>> \notin Missing(lane)
    OBVIOUS
  <2> QED
    BY <2>1 DEF Missing
<1>2. ASSUME NEW n \in Compared(lane) PROVE n \in {Target(d, lane) : d \in Kept}
  <2>1. <<"declaration-extra", lane, n>> \notin Extra(lane)
    OBVIOUS
  <2> QED
    BY <2>1 DEF Extra
<1>3. ASSUME NEW c \in Kept, NEW d \in Kept, Target(c, lane) = Target(d, lane) PROVE c = d
  <2>1. SUFFICES ASSUME c # d PROVE FALSE
    OBVIOUS
  <2>2. c \in {e \in Kept : \E b \in Kept : b # e /\ Target(b, lane) = Target(e, lane)}
    BY <1>3, <2>1
  <2>3. <<"mapping-target-collision", lane, Target(c, lane)>> \in Collisions(lane)
    BY <2>2 DEF Collisions
  <2> QED
    BY <2>3
<1> QED
  BY <1>1, <1>2, <1>3 DEF OneToOne

(* No kind mismatch in either lane: the families agree three ways. *)
LEMMA GatesAgreeOnKinds ==
  ASSUME NEW d \in Kept,
         \A lane \in Lanes : Missing(lane) = {} /\ KindMismatches(lane) = {}
  PROVE  SameFamily(d)
<1>1. ASSUME NEW lane \in Lanes
      PROVE  Target(d, lane) \in Compared(lane)
             /\ Family(schemas[lane][Target(d, lane)]) = ExpectedFamily(d)
  <2>1. <<"declaration-missing", lane, d>> \notin Missing(lane)
    OBVIOUS
  <2>2. Target(d, lane) \in Compared(lane)
    BY <2>1 DEF Missing
  <2>3. <<"declaration-kind-mismatch", lane, d>> \notin KindMismatches(lane)
    OBVIOUS
  <2> QED
    BY <2>2, <2>3 DEF KindMismatches
<1>2. Family(schemas["generated"][Target(d, "generated")]) = ExpectedFamily(d)
  BY <1>1 DEF Lanes
<1>3. Family(schemas["authored"][Target(d, "authored")]) = ExpectedFamily(d)
  BY <1>1 DEF Lanes
<1>4. \/ ExpectedFamily(d) = Family(d.kind)
      \/ Family(d.kind) = "model" /\ schemas["generated"][Target(d, "generated")] = "array"
  BY DEF ExpectedFamily
<1> QED
  BY <1>2, <1>3, <1>4 DEF SameFamily

(* What an empty list of findings means. *)
LEMMA NoFindingsMeansPaired == Findings = {} => Paired
<1> SUFFICES ASSUME Findings = {} PROVE Paired
  OBVIOUS
<1>1. ASSUME NEW lane \in Lanes
      PROVE  Missing(lane) = {} /\ Extra(lane) = {} /\ Collisions(lane) = {}
             /\ KindMismatches(lane) = {}
  BY DEF Findings
<1>2. \A lane \in Lanes : OneToOne(lane)
  BY <1>1, GatesPairOff
<1>3. \A d \in Kept : SameFamily(d)
  BY <1>1, GatesAgreeOnKinds
<1> QED
  BY <1>2, <1>3 DEF Paired

-----------------------------------------------------------------------------
(* A verdict is about the lanes and the mapping as they are now. *)
VerdictIsCurrent ==
  /\ verdict = "passed" => Findings = {}
  /\ verdict = "stopped" => Findings # {}

LEMMA VerdictStaysCurrent == VerdictIsCurrent /\ [Next]_vars => VerdictIsCurrent'
<1> SUFFICES ASSUME VerdictIsCurrent, [Next]_vars PROVE VerdictIsCurrent'
  OBVIOUS
<1>1. ASSUME UNCHANGED <<source, schemas, mapping>> PROVE Findings' = Findings
  BY <1>1 DEF Findings, Ambiguities, MappingFindings, TypeSpecIgnoreFindings,
    LaneMismatches, LaneIgnoreFindings, Collisions, Missing, KindMismatches, Extra,
    Compared, Present, Kept, Hidden, Target, Hits, EntryTarget, ExpectedFamily,
    Targets, Resolved, Resolve, Exact, Simple, Unique, Elements, Repeats, Family
<1>2. CASE Compare
  BY <1>1, <1>2 DEF Compare, VerdictIsCurrent
<1>3. CASE Edit
  BY <1>3 DEF Edit, VerdictIsCurrent
<1>4. CASE UNCHANGED vars
  BY <1>1, <1>4 DEF vars, VerdictIsCurrent
<1> QED
  BY <1>2, <1>3, <1>4 DEF Next

LEMMA VerdictHolds == Spec => []VerdictIsCurrent
<1>1. Init => VerdictIsCurrent
  BY DEF Init, VerdictIsCurrent
<1> QED
  BY <1>1, VerdictStaysCurrent, PTL DEF Spec

(* compareParity's inventory gates: a pass pairs the declarations of the    *)
(* three lanes one to one, within one kind family, under every mapping.     *)
THEOREM PassPairs == Spec => []PassedMeansPaired
<1>1. VerdictIsCurrent => PassedMeansPaired
  BY NoFindingsMeansPaired DEF VerdictIsCurrent, PassedMeansPaired
<1> QED
  BY <1>1, VerdictHolds, PTL

-----------------------------------------------------------------------------
(* What a reference of the mapping selects.  The audit counts what resolves; *)
(* the pairing takes whatever goes by the name.                               *)

(* Finitely many declarations, in a mapping with finitely many entries.       *)
Bounded ==
  /\ IsFiniteSet(source)
  /\ DOMAIN mapping.declarations \in {{}, {1}, {1, 2}}

LEMMA BoundedHolds == Spec => []Bounded
<1>1. Init => Bounded
  <2> SUFFICES ASSUME Init PROVE Bounded
    OBVIOUS
  <2>1. IsFiniteSet(source)
    BY FS_EmptySet DEF Init
  <2>2. PICK declarations \in {<<>>} \cup {<<e>> : e \in Entries} \cup {<<e, f>> : e, f \in Entries} :
          mapping.declarations = declarations
    BY DEF Init
  <2>3. \/ declarations = <<>>
        \/ \E e \in Entries : declarations = <<e>>
        \/ \E e, f \in Entries : declarations = <<e, f>>
    BY <2>2
  <2>4. DOMAIN declarations \in {{}, {1}, {1, 2}}
    BY <2>3
  <2> QED
    BY <2>1, <2>2, <2>4 DEF Bounded
<1>2. Bounded /\ [Next]_vars => Bounded'
  <2> SUFFICES ASSUME Bounded, [Next]_vars PROVE Bounded'
    OBVIOUS
  <2>1. mapping' = mapping
    BY DEF Next, Compare, Edit, vars
  <2>2. IsFiniteSet(source')
    <3>1. CASE EditTypeSpec
      <4>1. \A d : IsFiniteSet(source \cup {d}) /\ IsFiniteSet(source \ {d})
        BY FS_AddElement, FS_RemoveElement DEF Bounded
      <4>2. \A c, d : IsFiniteSet((source \ {c}) \cup {d})
        BY <4>1, FS_AddElement
      <4>3. CASE \E d \in Catalogue \ source : source' = source \cup {d}
        BY <4>1, <4>3
      <4>4. CASE \E d \in source : source' = source \ {d}
        BY <4>1, <4>4
      <4>5. CASE \E d \in source, c \in Catalogue \ source : source' = (source \ {d}) \cup {c}
        BY <4>2, <4>5, SMTT(30)
      <4> QED
        BY <3>1, <4>3, <4>4, <4>5 DEF EditTypeSpec
    <3>2. CASE UNCHANGED source
      BY <3>2 DEF Bounded
    <3> QED
      BY <3>1, <3>2 DEF Next, Compare, Edit, EditSchema, RenameSchema, vars
  <2> QED
    BY <2>1, <2>2 DEF Bounded
<1> QED
  BY <1>1, <1>2, PTL DEF Spec

LEMMA OneElement ==
  ASSUME NEW S, IsFiniteSet(S), Cardinality(S) = 1
  PROVE  \E d \in S : S = {d}
BY FS_Singleton

LEMMA AtMostOne ==
  ASSUME NEW S, \A c, d \in S : c = d
  PROVE  ~(Cardinality(S) > 1)
<1>1. CASE S = {}
  BY <1>1, FS_EmptySet
<1>2. ASSUME NEW d \in S PROVE ~(Cardinality(S) > 1)
  <2>1. S = {d}
    BY <1>2
  <2> QED
    BY <2>1, FS_Singleton
<1> QED
  BY <1>1, <1>2

(* One declaration of the project goes by ref, by either of its names.       *)
Selects(ref) == \E d \in source : \A c \in source : Hidden(c, ref) <=> c = d

(* A reference that the audit finds unique selects one declaration, as long  *)
(* as no simple name is shared and no name spells a qualified one.            *)
LEMMA UniqueSelects ==
  ASSUME PlainNames, TypeOK, Bounded, Ambiguities = {}, NEW ref, Unique(ref)
  PROVE  Selects(ref) /\ \A d \in source : Hidden(d, ref) <=> d \in Resolve(ref)
<1>1. IsFiniteSet(Resolve(ref)) /\ \A m : IsFiniteSet(Simple(m))
  BY FS_Subset DEF Resolve, Exact, Simple, Bounded
<1>2. PICK d \in Resolve(ref) : Resolve(ref) = {d}
  BY <1>1, OneElement DEF Unique
<1>3. d \in source /\ Hidden(d, ref)
  BY <1>2 DEF Resolve, Exact, Simple, Hidden
<1>4. ASSUME NEW c \in source, Hidden(c, ref), c # d PROVE FALSE
  <2>1. c \notin Resolve(ref)
    BY <1>2, <1>4
  <2>2. c.qualified # ref /\ c.name = ref /\ Exact(ref) # {}
    BY <1>4, <2>1 DEF Resolve, Exact, Simple, Hidden
  <2>3. d.qualified = ref
    BY <1>2, <2>2 DEF Resolve, Exact
  <2>4. d.name = c.name
    BY <1>3, <1>4, <2>2, <2>3 DEF PlainNames, TypeOK
  <2>5. c.name \in Names
    BY <1>4, CatalogueAssumption DEF TypeOK
  <2>6. ~(Cardinality(Simple(c.name)) > 1)
    <3>1. <<"typespec-ambiguous-simple-name", c.name>> \notin Ambiguities
      OBVIOUS
    <3> QED
      BY <2>5, <3>1 DEF Ambiguities
  <2>7. c \in Simple(c.name) /\ d \in Simple(c.name)
    BY <1>3, <1>4, <2>4 DEF Simple
  <2>8. Cardinality(Simple(c.name)) \in Nat /\ Cardinality(Simple(c.name)) # 0
    BY <1>1, <2>7, FS_CardinalityType, FS_EmptySet
  <2>9. PICK e \in Simple(c.name) : Simple(c.name) = {e}
    BY <1>1, <2>6, <2>8, OneElement
  <2> QED
    BY <1>4, <2>7, <2>9
<1> QED
  BY <1>2, <1>3, <1>4 DEF Selects

(* What an empty list of findings says of every reference of the mapping.    *)
Clean ==
  /\ Paired
  /\ \A ref \in Elements(mapping.ignore.typespec) : Selects(ref)
  /\ \A e \in Elements(mapping.declarations) : Selects(e.typespec)
  /\ \A e \in Elements(mapping.declarations), d \in source : Hidden(d, e.typespec) => d \in Kept
  /\ \A lane \in Lanes : Elements(mapping.ignore[lane]) \subseteq Present(lane)

LEMMA NoFindingsMeansClean ==
  PlainNames /\ TypeOK /\ Bounded /\ Findings = {} => Clean
<1> SUFFICES ASSUME PlainNames, TypeOK, Bounded, Findings = {} PROVE Clean
  OBVIOUS
<1>1. Ambiguities = {} /\ MappingFindings = {} /\ TypeSpecIgnoreFindings = {}
  BY DEF Findings
<1>2. ASSUME NEW ref \in Elements(mapping.ignore.typespec)
      PROVE  Unique(ref) /\ ref # None /\ ~ Resolve(ref) \subseteq Resolved
  <2>1. <<"mapping-ignore-typespec-unusable", ref>> \notin TypeSpecIgnoreFindings
        /\ <<"mapping-typespec-ignore-conflict", ref>> \notin TypeSpecIgnoreFindings
    BY <1>1
  <2> QED
    BY <1>2, <2>1 DEF TypeSpecIgnoreFindings
<1>3. ASSUME NEW e \in Elements(mapping.declarations)
      PROVE  Unique(e.typespec) /\ e.typespec # None
  <2>1. PICK i \in DOMAIN mapping.declarations : e = mapping.declarations[i]
    BY <1>3 DEF Elements
  <2>2. <<"mapping-declaration-unusable", e.typespec>> \notin MappingFindings
    BY <1>1
  <2>3. e.typespec \in Elements([k \in DOMAIN mapping.declarations
                                   |-> mapping.declarations[k].typespec])
    BY <2>1 DEF Elements
  <2> QED
    BY <2>2, <2>3 DEF MappingFindings
<1>4. ASSUME NEW e \in Elements(mapping.declarations), NEW d \in source, Hidden(d, e.typespec)
      PROVE  d \in Kept
  <2>1. d \in Resolve(e.typespec)
    BY <1>1, <1>3, <1>4, UniqueSelects
  <2>2. d \in Resolved
    BY <1>3, <2>1 DEF Resolved
  <2>3. ASSUME NEW ref \in Elements(mapping.ignore.typespec), Hidden(d, ref) PROVE FALSE
    <3>1. Selects(ref) /\ \A c \in source : Hidden(c, ref) <=> c \in Resolve(ref)
      BY <1>1, <1>2, UniqueSelects
    <3>2. Resolve(ref) \subseteq source
      BY DEF Resolve, Exact, Simple
    <3> QED
      BY <1>2, <2>2, <2>3, <3>1, <3>2 DEF Selects
  <2> QED
    BY <2>3 DEF Kept
<1>5. ASSUME NEW lane \in Lanes, NEW n \in Elements(mapping.ignore[lane])
      PROVE  n \in Present(lane)
  <2>1. <<"mapping-lane-ignore-stale", lane, n>> \notin LaneIgnoreFindings(lane)
    BY DEF Findings
  <2> QED
    BY <1>5, <2>1 DEF LaneIgnoreFindings
<1> QED
  BY <1>1, <1>2, <1>3, <1>4, <1>5, UniqueSelects, NoFindingsMeansPaired DEF Clean

(* mapping-integrity.mjs and parity.mjs agree: an ignore entry of a passing   *)
(* comparison hides one declaration, present in its lane, that no entry      *)
(* claims to compare -- unless a name between backticks spells a qualified   *)
(* one.                                                                       *)
THEOREM IgnoresAreExact ==
  ASSUME PlainNames
  PROVE  Spec => []IgnoresHideExactlyOne
<1>1. TypeOK /\ Bounded /\ VerdictIsCurrent => IgnoresHideExactlyOne
  <2> SUFFICES ASSUME TypeOK, Bounded, VerdictIsCurrent, verdict = "passed"
               PROVE  /\ \A ref \in Elements(mapping.ignore.typespec) :
                           Cardinality({d \in source : Hidden(d, ref)}) = 1
                      /\ \A lane \in Lanes : Elements(mapping.ignore[lane]) \subseteq Present(lane)
                      /\ \A e \in Elements(mapping.declarations), d \in source :
                           Hidden(d, e.typespec) => d \in Kept
    BY DEF IgnoresHideExactlyOne
  <2>1. Clean
    BY NoFindingsMeansClean DEF VerdictIsCurrent
  <2>2. ASSUME NEW ref \in Elements(mapping.ignore.typespec)
        PROVE  Cardinality({d \in source : Hidden(d, ref)}) = 1
    <3>1. PICK d \in source : \A c \in source : Hidden(c, ref) <=> c = d
      BY <2>1 DEF Clean, Selects
    <3>2. {c \in source : Hidden(c, ref)} = {d}
      BY <3>1
    <3> QED
      BY <3>2, FS_Singleton
  <2> QED
    BY <2>1, <2>2 DEF Clean
<1> QED
  BY <1>1, PairingTypeCorrect, BoundedHolds, VerdictHolds, PTL

(* No mapping entry of a passing comparison is silently unused.               *)
THEOREM EntriesUsed == Spec => []EntriesAreUsed
<1>1. Bounded /\ VerdictIsCurrent => EntriesAreUsed
  <2> SUFFICES ASSUME Bounded, VerdictIsCurrent, verdict = "passed",
                      NEW i \in DOMAIN mapping.declarations
               PROVE  \E d \in source :
                        /\ Hidden(d, mapping.declarations[i].typespec)
                        /\ \A lane \in Lanes :
                             \/ Target(d, lane) = EntryTarget(mapping.declarations[i], d, lane)
                             \/ \E j \in 1 .. i - 1 : Hidden(d, mapping.declarations[j].typespec)
    BY DEF EntriesAreUsed
  <2> DEFINE ref == mapping.declarations[i].typespec
  <2>1. Unique(ref)
    <3>1. <<"mapping-declaration-unusable", ref>> \notin MappingFindings
      BY DEF Findings, VerdictIsCurrent
    <3>2. ref \in Elements([k \in DOMAIN mapping.declarations
                              |-> mapping.declarations[k].typespec])
      BY DEF Elements
    <3> QED
      BY <3>1, <3>2 DEF MappingFindings
  <2>2. PICK d \in Resolve(ref) : TRUE
    <3>1. IsFiniteSet(Resolve(ref))
      BY FS_Subset DEF Resolve, Exact, Simple, Bounded
    <3> QED
      BY <2>1, <3>1, OneElement DEF Unique
  <2>3. d \in source /\ Hidden(d, ref)
    BY <2>2 DEF Resolve, Exact, Simple, Hidden
  <2>4. i \in Hits(d) /\ Hits(d) \subseteq DOMAIN mapping.declarations
    BY <2>3 DEF Hits, Hidden
  <2>5. \E k \in Hits(d) : \A j \in Hits(d) : k <= j
    BY <2>4 DEF Bounded
  <2>6. First(Hits(d)) \in Hits(d) /\ First(Hits(d)) <= i
    BY <2>4, <2>5 DEF First
  <2>7. CASE First(Hits(d)) = i
    BY <2>3, <2>4, <2>7 DEF Target
  <2>8. CASE First(Hits(d)) # i
    <3>1. First(Hits(d)) \in 1 .. i - 1
      BY <2>4, <2>6, <2>8 DEF Bounded
    <3>2. Hidden(d, mapping.declarations[First(Hits(d))].typespec)
      BY <2>6 DEF Hits, Hidden
    <3> QED
      BY <2>3, <3>1, <3>2
  <2> QED
    BY <2>7, <2>8
<1> QED
  BY <1>1, BoundedHolds, VerdictHolds, PTL

-----------------------------------------------------------------------------
(* A pass, a drift of names in one lane, and another pass.                    *)

(* Where the mapping is kept, so is what a declaration is paired with.        *)
LEMMA TargetKept ==
  ASSUME mapping' = mapping
  PROVE  \A d : \A lane : Target(d, lane)' = Target(d, lane)
BY DEF Target, Hits, EntryTarget, First

(* An edit of a schema lane between two passes leaves its names alone: they   *)
(* are the images of the TypeSpec declarations and the ignored names.         *)
LEMMA SchemaEditKeepsNames ==
  ASSUME Clean, Clean', source' = source, mapping' = mapping, NEW lane \in Lanes
  PROVE  Present(lane)' = Present(lane)
<1>1. Kept' = Kept
  BY DEF Kept, Hidden, Elements
<1>2. {Target(d, lane) : d \in Kept}' = {Target(d, lane) : d \in Kept}
  BY <1>1, TargetKept
<1>3. Compared(lane)' = Compared(lane)
  <2>1. OneToOne(lane) /\ OneToOne(lane)'
    BY DEF Clean, Paired, Lanes
  <2> QED
    BY <1>2, <2>1 DEF OneToOne
<1>4. Elements(mapping.ignore[lane])' = Elements(mapping.ignore[lane])
  BY DEF Elements
<1>5. /\ Present(lane) = Compared(lane) \cup Elements(mapping.ignore[lane])
      /\ Present(lane)' = Compared(lane)' \cup Elements(mapping.ignore[lane])'
  BY DEF Clean, Compared
<1> QED
  BY <1>3, <1>4, <1>5

(* No TypeSpec declaration is new at the second pass but in the place of one  *)
(* that is gone: hidden, it would be the second one that its ignore entry     *)
(* hides; kept, it would share its target.                                    *)
LEMMA ArrivalNeedsDeparture ==
  ASSUME Clean, Clean', schemas' = schemas, mapping' = mapping,
         NEW c, c \in source', c \notin source, source \subseteq source'
  PROVE  FALSE
<1>1. ASSUME NEW ref \in Elements(mapping.ignore.typespec), Hidden(c, ref) PROVE FALSE
  <2>1. PICK d \in source : Hidden(d, ref)
    BY DEF Clean, Selects
  <2>2. ref \in Elements(mapping.ignore.typespec)'
    BY DEF Elements
  <2>3. PICK e \in source' : \A x \in source' : Hidden(x, ref)' <=> x = e
    BY <2>2 DEF Clean, Selects
  <2> QED
    BY <1>1, <2>1, <2>3 DEF Hidden
<1>2. c \in Kept'
  BY <1>1 DEF Kept, Hidden, Elements
<1>3. Kept \subseteq Kept'
  BY DEF Kept, Hidden, Elements
<1>4. Compared("generated")' = Compared("generated")
  BY DEF Compared, Present, Elements
<1>5. OneToOne("generated") /\ OneToOne("generated")'
  BY DEF Clean, Paired, Lanes
<1>6. Target(c, "generated")' \in Compared("generated")
  BY <1>2, <1>4, <1>5 DEF OneToOne
<1>7. PICK d \in Kept : Target(d, "generated") = Target(c, "generated")'
  BY <1>5, <1>6 DEF OneToOne
<1>8. Target(d, "generated")' = Target(c, "generated")'
  BY <1>7, TargetKept
<1>9. d = c
  BY <1>2, <1>3, <1>5, <1>7, <1>8 DEF OneToOne
<1> QED
  BY <1>9 DEF Kept

LEMMA DepartureNeedsArrival ==
  ASSUME Clean, Clean', schemas' = schemas, mapping' = mapping,
         NEW d, d \in source, d \notin source', source' \subseteq source
  PROVE  FALSE
<1>1. ASSUME NEW ref \in Elements(mapping.ignore.typespec), Hidden(d, ref) PROVE FALSE
  <2>1. PICK e \in source : \A x \in source : Hidden(x, ref) <=> x = e
    BY DEF Clean, Selects
  <2>2. ref \in Elements(mapping.ignore.typespec)'
    BY DEF Elements
  <2>3. PICK c \in source' : Hidden(c, ref)'
    BY <2>2 DEF Clean, Selects
  <2> QED
    BY <1>1, <2>1, <2>3 DEF Hidden
<1>2. d \in Kept
  BY <1>1 DEF Kept, Hidden, Elements
<1>3. Kept' \subseteq Kept
  BY DEF Kept, Hidden, Elements
<1>4. Compared("generated")' = Compared("generated")
  BY DEF Compared, Present, Elements
<1>5. OneToOne("generated") /\ OneToOne("generated")'
  BY DEF Clean, Paired, Lanes
<1>6. Target(d, "generated") \in Compared("generated")'
  BY <1>2, <1>4, <1>5 DEF OneToOne
<1>7. PICK c \in Kept' : Target(c, "generated")' = Target(d, "generated")
  BY <1>5, <1>6 DEF OneToOne
<1>8. Target(c, "generated") = Target(d, "generated")
  BY <1>7, TargetKept
<1>9. d = c
  BY <1>2, <1>3, <1>5, <1>7, <1>8 DEF OneToOne
<1> QED
  BY <1>9 DEF Kept

(* One declaration in the place of another keeps its name: no reference of    *)
(* the mapping follows it from one to the other.                               *)
LEMMA ReplacementKeepsName ==
  ASSUME PlainNames, TypeOK, TypeOK', Clean, Clean', schemas' = schemas, mapping' = mapping,
         NEW d \in source, NEW c, c \notin source, source' = (source \ {d}) \cup {c}
  PROVE  c.name = d.name
<1> SUFFICES ASSUME c.name # d.name PROVE FALSE
  OBVIOUS
<1>0. c \in Catalogue /\ d \in Catalogue /\ c # d
  BY DEF TypeOK
<1>1. ASSUME NEW ref PROVE ~(Hidden(c, ref) /\ Hidden(d, ref))
  BY <1>0, CatalogueAssumption DEF Hidden, PlainNames
<1>2. ASSUME NEW ref, Selects(ref), Selects(ref)' PROVE ~Hidden(c, ref) /\ ~Hidden(d, ref)
  <2>1. PICK x \in source : \A y \in source : Hidden(y, ref) <=> y = x
    BY <1>2 DEF Selects
  <2>2. PICK z \in source' : \A y \in source' : Hidden(y, ref) <=> y = z
    BY <1>2 DEF Selects, Hidden
  <2> QED
    BY <1>0, <1>1, <2>1, <2>2
<1>3. \A ref \in Elements(mapping.ignore.typespec) : ~Hidden(c, ref) /\ ~Hidden(d, ref)
  <2> SUFFICES ASSUME NEW ref \in Elements(mapping.ignore.typespec)
               PROVE  ~Hidden(c, ref) /\ ~Hidden(d, ref)
    OBVIOUS
  <2>1. ref \in Elements(mapping.ignore.typespec)'
    BY DEF Elements
  <2> QED
    BY <1>2, <2>1 DEF Clean
<1>4. Hits(c) = {} /\ Hits(d) = {}
  <2> SUFFICES ASSUME NEW i \in DOMAIN mapping.declarations
               PROVE  /\ ~Hidden(c, mapping.declarations[i].typespec)
                      /\ ~Hidden(d, mapping.declarations[i].typespec)
    BY DEF Hits, Hidden
  <2>1. mapping.declarations[i] \in Elements(mapping.declarations)
        /\ mapping.declarations[i] \in Elements(mapping.declarations)'
    BY DEF Elements
  <2>2. Selects(mapping.declarations[i].typespec)
    BY <2>1 DEF Clean
  <2>3. Selects(mapping.declarations[i].typespec)'
    BY <2>1 DEF Clean
  <2> QED
    BY <1>2, <2>2, <2>3
<1>5. Target(c, "generated") = c.name /\ Target(d, "generated") = d.name
  BY <1>4 DEF Target
<1>6. d \in Kept /\ c \in Kept' /\ Kept' \ {c} \subseteq Kept
  BY <1>0, <1>3 DEF Kept, Hidden, Elements
<1>7. OneToOne("generated") /\ OneToOne("generated")'
  BY DEF Clean, Paired, Lanes
<1>8. Compared("generated")' = Compared("generated")
  BY DEF Compared, Present, Elements
<1>9. PICK x \in Kept' : Target(x, "generated")' = d.name
  BY <1>5, <1>6, <1>7, <1>8 DEF OneToOne
<1>10. Target(x, "generated") = Target(d, "generated")
  BY <1>5, <1>9, TargetKept
<1>11. x # c
  BY <1>5, <1>10
<1>12. x = d
  BY <1>6, <1>7, <1>10, <1>11 DEF OneToOne
<1> QED
  BY <1>0, <1>12 DEF Kept

(* After a pass, names that drift in one lane only cannot pass again: the     *)
(* mapping absorbs no added, removed or renamed declaration.                   *)
THEOREM DriftIsStopped ==
  ASSUME PlainNames
  PROVE  Spec => DriftStops
<1>1. ASSUME TypeOK, TypeOK', Clean, Clean', Edit PROVE ~Drift
  <2>1. mapping' = mapping
    BY <1>1 DEF Edit
  <2>2. CASE UNCHANGED source
    BY <1>1, <2>1, <2>2, SchemaEditKeepsNames DEF Drift
  <2>3. CASE EditTypeSpec
    <3>0. schemas' = schemas
      BY <2>3 DEF EditTypeSpec
    <3>1. \A lane \in Lanes : Present(lane)' = Present(lane)
      BY <3>0 DEF Present
    <3>2. ASSUME NEW d \in Catalogue \ source, source' = source \cup {d} PROVE FALSE
      BY <1>1, <2>1, <3>0, <3>2, ArrivalNeedsDeparture
    <3>3. ASSUME NEW d \in source, source' = source \ {d} PROVE FALSE
      BY <1>1, <2>1, <3>0, <3>3, DepartureNeedsArrival
    <3>4. ASSUME NEW d \in source, NEW c \in Catalogue \ source,
                 source' = (source \ {d}) \cup {c}
          PROVE  {x.name : x \in source'} = {x.name : x \in source}
      <4>1. c.name = d.name
        BY <1>1, <2>1, <3>0, <3>4, ReplacementKeepsName
      <4> QED
        BY <3>4, <4>1
    <3> QED
      BY <2>3, <3>1, <3>2, <3>3, <3>4 DEF EditTypeSpec, Drift
  <2> QED
    BY <1>1, <2>2, <2>3 DEF Edit, EditSchema, RenameSchema
<1>2. TypeOK /\ TypeOK' /\ Bounded /\ Bounded' /\ VerdictIsCurrent /\ [Next]_vars
        => (verdict = "passed" /\ Drift => (Findings # {})')
  <2> SUFFICES ASSUME TypeOK, TypeOK', Bounded, Bounded', VerdictIsCurrent, [Next]_vars,
                      verdict = "passed", Drift, Findings' = {}
               PROVE  FALSE
    OBVIOUS
  <2>1. Clean
    BY NoFindingsMeansClean DEF VerdictIsCurrent
  <2>2. (PlainNames /\ TypeOK /\ Bounded /\ Findings = {} => Clean)'
    BY NoFindingsMeansClean, PTL
  <2>3. Clean'
    BY <2>2 DEF PlainNames
  <2>4. Edit
    BY DEF Next, Compare, Drift, vars, Present
  <2> QED
    BY <1>1, <2>1, <2>3, <2>4
<1> QED
  BY <1>2, PairingTypeCorrect, BoundedHolds, VerdictHolds, PTL DEF Spec, DriftStops

-----------------------------------------------------------------------------
(* The other direction: what the gates say of faultless input.                *)

LEMMA SoundMappingIsSilent ==
  ASSUME SoundMapping
  PROVE  /\ MappingFindings = {} /\ TypeSpecIgnoreFindings = {}
         /\ \A lane \in Lanes : LaneIgnoreFindings(lane) = {}
<1> DEFINE keys == [i \in DOMAIN mapping.declarations |-> mapping.declarations[i].typespec]
<1>1. ~Repeats(keys) /\ \A k \in Elements(keys) : k # None /\ Unique(k)
  BY DEF SoundMapping
<1>2. MappingFindings = {}
  BY <1>1 DEF MappingFindings
<1>3. TypeSpecIgnoreFindings = {}
  BY DEF SoundMapping, TypeSpecIgnoreFindings
<1>4. \A lane \in Lanes : LaneIgnoreFindings(lane) = {}
  BY DEF SoundMapping, LaneIgnoreFindings
<1> QED
  BY <1>2, <1>3, <1>4

LEMMA PairedLaneIsSilent ==
  ASSUME Paired, NEW lane \in Lanes
  PROVE  Collisions(lane) = {} /\ Missing(lane) = {} /\ Extra(lane) = {}
<1>1. OneToOne(lane)
  BY DEF Paired
<1>2. Collisions(lane) = {}
  BY <1>1 DEF OneToOne, Collisions
<1>3. Missing(lane) = {} /\ Extra(lane) = {}
  BY <1>1 DEF OneToOne, Missing, Extra
<1> QED
  BY <1>2, <1>3

LEMMA PairedFamiliesAreSilent ==
  ASSUME Paired
  PROVE  LaneMismatches = {} /\ \A lane \in Lanes : KindMismatches(lane) = {}
<1>1. ASSUME NEW d \in Kept, NEW lane \in Lanes PROVE Target(d, lane) \in Compared(lane)
  BY <1>1 DEF Paired, OneToOne
<1>2. ASSUME NEW d \in Kept
      PROVE  /\ Family(schemas["generated"][Target(d, "generated")])
                  = Family(schemas["authored"][Target(d, "authored")])
             /\ Family(schemas["generated"][Target(d, "generated")]) = ExpectedFamily(d)
  <2>1. SameFamily(d)
    BY DEF Paired
  <2>2. Target(d, "generated") \in Compared("generated")
    BY <1>1 DEF Lanes
  <2>3. Family("array") = "scalar-like"
    BY DEF Family
  <2> QED
    BY <2>1, <2>2, <2>3 DEF SameFamily, ExpectedFamily
<1>3. \A lane \in Lanes : KindMismatches(lane) = {}
  <2> SUFFICES ASSUME NEW lane \in Lanes, NEW d \in Kept
               PROVE  Family(schemas[lane][Target(d, lane)]) = ExpectedFamily(d)
    BY DEF KindMismatches
  <2> QED
    BY <1>2 DEF Lanes
<1>4. LaneMismatches = {}
  BY <1>1, <1>2 DEF LaneMismatches, Lanes
<1> QED
  BY <1>3, <1>4

(* A comparison that stops has a cause in the mapping, in a shared simple     *)
(* name or in the lanes: no gate refuses input that no reviewer could fault. *)
THEOREM StopsWithCause == Spec => []StopsForCause
<1>1. VerdictIsCurrent => StopsForCause
  <2> SUFFICES ASSUME VerdictIsCurrent, verdict = "stopped", SoundMapping, Paired,
                      \A c, d \in source : c.name = d.name => c = d
               PROVE  FALSE
    BY DEF StopsForCause
  <2>1. Ambiguities = {}
    <3>1. ASSUME NEW m \in Names PROVE ~(Cardinality(Simple(m)) > 1)
      BY AtMostOne DEF Simple
    <3> QED
      BY <3>1 DEF Ambiguities
  <2>2. Findings = {}
    BY <2>1, SoundMappingIsSilent, PairedLaneIsSilent, PairedFamiliesAreSilent DEF Findings
  <2> QED
    BY <2>2 DEF VerdictIsCurrent
<1> QED
  BY <1>1, VerdictHolds, PTL
=============================================================================
