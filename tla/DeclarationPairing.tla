-------------------------- MODULE DeclarationPairing --------------------------
(***************************************************************************)
(* Which TypeSpec declaration is compared with which generated and which   *)
(* authored JSON Schema declaration, under a mapping and its ignore lists, *)
(* and which inventory findings stop the run: compareParity up to its       *)
(* semantic gate, with auditMappingIntegrity and the ambiguities of the     *)
(* TypeSpec inventory.  The three lanes are edited between comparisons; the *)
(* mapping is what a reviewer once approved, or what a programmatic caller  *)
(* made of it (compareParity does not trust that a file loader ran).        *)
(***************************************************************************)
EXTENDS Integers, Sequences, FiniteSets

CONSTANTS
  Catalogue,        \* TypeSpec declarations that may exist: qualified, name, kind
  Names,            \* names a JSON Schema declaration may have
  Kinds,            \* kinds of schema declarations, per lane
  Entries,          \* mapping entries: typespec, generated, authored
  TypeSpecIgnores,  \* ignore.typespec lists
  LaneIgnores,      \* ignore lists of the two schema lanes, per lane
  None              \* an absent property, or a value that is not a name

Lanes == {"generated", "authored"}
AllKinds == UNION {Kinds[lane] : lane \in Lanes}

(* Qualified names identify declarations: the inventory reports duplicates. *)
ASSUME CatalogueAssumption ==
  /\ \A d \in Catalogue : DOMAIN d = {"qualified", "name", "kind"} /\ d.name \in Names
  /\ \A c, d \in Catalogue : c.qualified = d.qualified => c = d
ASSUME KindsAssumption ==
  /\ DOMAIN Kinds = Lanes
  /\ AllKinds \subseteq {"model", "array", "scalar", "enum", "union"}
ASSUME NoneAssumption ==
  None \notin Names \cup AllKinds \cup {d.qualified : d \in Catalogue}

(* No escaped name spells another declaration's qualified name.  TypeSpec   *)
(* does not rule that out: between backticks a name may contain dots.        *)
PlainNames == \A c, d \in Catalogue : c.qualified = d.name => c.name = d.name

VARIABLES
  source,    \* TypeSpec declarations of the project
  schemas,   \* kind of each declaration of a schema lane, None where absent
  mapping,   \* declarations, and the ignore lists of the three lanes
  verdict    \* of the last comparison, "none" after an edit

vars == <<source, schemas, mapping, verdict>>

Elements(seq) == {seq[i] : i \in DOMAIN seq}
Repeats(seq) == \E i, j \in DOMAIN seq : i < j /\ seq[i] = seq[j] /\ seq[i] # None

-----------------------------------------------------------------------------
(* The mapping audit.                                                       *)

(* resolveTypeSpecName: an exact qualified name wins over simple names. *)
Exact(ref)  == {d \in source : d.qualified = ref}
Simple(ref) == {d \in source : d.name = ref}
Resolve(ref) == IF Exact(ref) # {} THEN Exact(ref) ELSE Simple(ref)
Unique(ref) == Cardinality(Resolve(ref)) = 1

(* What an entry that resolves maps to; the defaults follow the lanes. *)
EntryTarget(e, d, lane) ==
  LET generated == IF e.generated = None THEN d.name ELSE e.generated
  IN IF lane = "generated" \/ e.authored = None THEN generated ELSE e.authored

Resolved == UNION {Resolve(e.typespec) : e \in
                     {f \in Elements(mapping.declarations) : f.typespec # None /\ Unique(f.typespec)}}
Targets(lane) ==
  UNION {{EntryTarget(e, d, lane) : d \in Resolve(e.typespec)} : e \in
           {f \in Elements(mapping.declarations) : f.typespec # None /\ Unique(f.typespec)}}

MappingFindings ==
  LET keys == [i \in DOMAIN mapping.declarations |-> mapping.declarations[i].typespec]
  IN (IF Repeats(keys) THEN {<<"mapping-typespec-duplicate", keys>>} ELSE {})
     \cup {<<"mapping-declaration-unusable", r>> :
             r \in {k \in Elements(keys) : k = None \/ ~Unique(k)}}

TypeSpecIgnoreFindings ==
  LET list == mapping.ignore.typespec
  IN (IF Repeats(list) THEN {<<"mapping-ignore-duplicate", list>>} ELSE {})
     \cup {<<"mapping-ignore-typespec-unusable", r>> :
             r \in {k \in Elements(list) : k = None \/ ~Unique(k)}}
     \cup {<<"mapping-typespec-ignore-conflict", r>> :
             r \in {k \in Elements(list) : k # None /\ Unique(k) /\ Resolve(k) \subseteq Resolved}}

(* The names a lane declares, ignored or not. *)
Present(lane) == {n \in Names : schemas[lane][n] # None}

(* Mutant of LaneIgnoreFindings: a stale entry is let through. *)
LaneIgnoreFindingsStale(lane) ==
  LET list == mapping.ignore[lane]
  IN (IF Repeats(list) THEN {<<"mapping-ignore-duplicate", lane, list>>} ELSE {})
     \cup {<<"mapping-lane-ignore-conflict", lane, r>> : r \in Elements(list) \cap Targets(lane)}

LaneIgnoreFindings(lane) ==
  LET list == mapping.ignore[lane]
  IN (IF Repeats(list) THEN {<<"mapping-ignore-duplicate", lane, list>>} ELSE {})
     \cup {<<"mapping-lane-ignore-stale", lane, r>> : r \in Elements(list) \ Present(lane)}
     \cup {<<"mapping-lane-ignore-conflict", lane, r>> : r \in Elements(list) \cap Targets(lane)}

-----------------------------------------------------------------------------
(* The pairing and the inventory gates.                                     *)

(* Simple names shared by several qualified names. *)
Ambiguities == {<<"typespec-ambiguous-simple-name", n>> :
                  n \in {m \in Names : Cardinality(Simple(m)) > 1}}

(* An ignore entry hides whatever it names, qualified or simple. *)
Hidden(d, ref) == ref \in {d.qualified, d.name}
Kept == {d \in source : \A ref \in Elements(mapping.ignore.typespec) : ~Hidden(d, ref)}

(* Mutant of Hits: only qualified names select an entry. *)
HitsQualifiedOnly(d) ==
  {i \in DOMAIN mapping.declarations : mapping.declarations[i].typespec = d.qualified}

(* mappingForTypeSpec: the first entry with either name of the declaration. *)
Hits(d) == {i \in DOMAIN mapping.declarations :
              mapping.declarations[i].typespec \in {d.qualified, d.name}}
First(S) == CHOOSE i \in S : \A j \in S : i <= j

Target(d, lane) ==
  IF Hits(d) = {} THEN d.name
  ELSE EntryTarget(mapping.declarations[First(Hits(d))], d, lane)

(* Mutant of Collisions: two declarations may share a name. *)
NoCollisions(lane) == {}

Collisions(lane) ==
  {<<"mapping-target-collision", lane, n>> :
     n \in {Target(d, lane) : d \in {c \in Kept :
              \E b \in Kept : b # c /\ Target(b, lane) = Target(c, lane)}}}

(* buildSchemaMap: what is left of a lane after its ignore list. *)
Compared(lane) == Present(lane) \ Elements(mapping.ignore[lane])

Family(kind) == IF kind \in {"scalar", "array", "alias"} THEN "scalar-like" ELSE kind

(* Mutant of ExpectedFamily: `model X is Array<T>` is not considered. *)
ExpectedFamilyLexical(d) == Family(d.kind)

(* A model that the generated witness shows to be an array is expected to   *)
(* be one in both lanes.                                                    *)
ExpectedFamily(d) ==
  LET n == Target(d, "generated")
  IN IF Family(d.kind) = "model" /\ n \in Compared("generated")
        /\ schemas["generated"][n] = "array"
     THEN "scalar-like" ELSE Family(d.kind)

Missing(lane) ==
  {<<"declaration-missing", lane, d>> : d \in {c \in Kept : Target(c, lane) \notin Compared(lane)}}

KindMismatches(lane) ==
  {<<"declaration-kind-mismatch", lane, d>> :
     d \in {c \in Kept : /\ Target(c, lane) \in Compared(lane)
                         /\ Family(schemas[lane][Target(c, lane)]) # ExpectedFamily(c)}}

(* Mutant of Extra: a lane may declare more than TypeSpec does. *)
NoExtra(lane) == {}

Extra(lane) ==
  {<<"declaration-extra", lane, n>> : n \in Compared(lane) \ {Target(d, lane) : d \in Kept}}

(* compareSchemaInventories: the lanes among themselves. *)
LaneMismatches ==
  LET in(d, lane) == Target(d, lane) \in Compared(lane)
      kind(d, lane) == schemas[lane][Target(d, lane)]
  IN {<<"declaration-set-mismatch", d>> :
        d \in {c \in Kept : in(c, "generated") # in(c, "authored")}}
     \cup {<<"generated-authored-kind-mismatch", d>> :
        d \in {c \in Kept : /\ in(c, "generated") /\ in(c, "authored")
                            /\ Family(kind(c, "generated")) # Family(kind(c, "authored"))}}

Findings ==
  Ambiguities \cup MappingFindings \cup TypeSpecIgnoreFindings \cup LaneMismatches
  \cup UNION {LaneIgnoreFindings(lane) \cup Collisions(lane) \cup Missing(lane)
              \cup KindMismatches(lane) \cup Extra(lane) : lane \in Lanes}

-----------------------------------------------------------------------------
SchemaMaps(lane) == [Names -> Kinds[lane] \cup {None}]

Init ==
  /\ source = {}
  /\ schemas = [lane \in Lanes |-> [n \in Names |-> None]]
  /\ \E declarations \in {<<>>} \cup {<<e>> : e \in Entries} \cup {<<e, f>> : e, f \in Entries} :
     \E typespec \in TypeSpecIgnores :
     \E generated \in LaneIgnores["generated"], authored \in LaneIgnores["authored"] :
       mapping = [declarations |-> declarations,
                  ignore |-> [typespec |-> typespec, generated |-> generated,
                              authored |-> authored]]
  /\ verdict = "none"

Compare ==
  /\ verdict = "none"
  /\ verdict' = IF Findings = {} THEN "passed" ELSE "stopped"
  /\ UNCHANGED <<source, schemas, mapping>>

(* One lane is edited and, in time, compared again. *)
EditTypeSpec ==
  /\ \/ \E d \in Catalogue \ source : source' = source \cup {d}
     \/ \E d \in source : source' = source \ {d}
     \/ \E d \in source, c \in Catalogue \ source : source' = (source \ {d}) \cup {c}
  /\ UNCHANGED schemas

EditSchema(lane) ==
  /\ \E n \in Names, kind \in Kinds[lane] \cup {None} :
       /\ schemas[lane][n] # kind
       /\ schemas' = [schemas EXCEPT ![lane][n] = kind]
  /\ UNCHANGED source

RenameSchema(lane) ==
  /\ \E n \in Present(lane), m \in Names \ Present(lane) :
       schemas' = [schemas EXCEPT ![lane] = [@ EXCEPT ![n] = None, ![m] = schemas[lane][n]]]
  /\ UNCHANGED source

Edit ==
  /\ verdict # "none"
  /\ verdict' = "none"
  /\ EditTypeSpec \/ \E lane \in Lanes : EditSchema(lane) \/ RenameSchema(lane)
  /\ UNCHANGED mapping

Next == Compare \/ Edit

Spec == Init /\ [][Next]_vars
-----------------------------------------------------------------------------
(* Properties. *)

TypeOK ==
  /\ source \subseteq Catalogue
  /\ schemas \in [Lanes -> UNION {SchemaMaps(lane) : lane \in Lanes}]
  /\ \A lane \in Lanes : schemas[lane] \in SchemaMaps(lane)
  /\ verdict \in {"none", "passed", "stopped"}

(* A lane's declarations are exactly the images of the TypeSpec ones, each  *)
(* of one declaration.                                                      *)
OneToOne(lane) ==
  /\ {Target(d, lane) : d \in Kept} = Compared(lane)
  /\ \A c, d \in Kept : Target(c, lane) = Target(d, lane) => c = d

SameFamily(d) ==
  LET kind(lane) == schemas[lane][Target(d, lane)]
  IN /\ Family(kind("generated")) = Family(kind("authored"))
     /\ \/ Family(kind("generated")) = Family(d.kind)
        \/ Family(d.kind) = "model" /\ kind("generated") = "array"

Paired == (\A lane \in Lanes : OneToOne(lane)) /\ (\A d \in Kept : SameFamily(d))

(* A passing comparison leaves no declaration of any lane unpaired, paired  *)
(* twice, or paired across kind families, whatever the mapping says.        *)
PassedMeansPaired == verdict = "passed" => Paired

(* A passing comparison has no ignore entry that hides nothing, hides more  *)
(* than one declaration, or hides what the mapping claims to compare: "a    *)
(* broad simple-name ignore might hide more than one namespace".            *)
IgnoresHideExactlyOne ==
  verdict = "passed" =>
    /\ \A ref \in Elements(mapping.ignore.typespec) :
         Cardinality({d \in source : Hidden(d, ref)}) = 1
    /\ \A lane \in Lanes : Elements(mapping.ignore[lane]) \subseteq Present(lane)
    /\ \A e \in Elements(mapping.declarations), d \in source :
         Hidden(d, e.typespec) => d \in Kept

(* No mapping entry of a passing comparison is silently unused: it is what  *)
(* pairs its declaration, unless an earlier entry names that one too.       *)
EntriesAreUsed ==
  verdict = "passed" =>
    \A i \in DOMAIN mapping.declarations :
      \E d \in source :
        /\ Hidden(d, mapping.declarations[i].typespec)
        /\ \A lane \in Lanes :
             \/ Target(d, lane) = EntryTarget(mapping.declarations[i], d, lane)
             \/ \E j \in 1 .. i - 1 : Hidden(d, mapping.declarations[j].typespec)

(* A drift of names in one lane only: a declaration comes, goes or changes  *)
(* the name it goes by.                                                     *)
Drift ==
  \/ {d.name : d \in source'} # {d.name : d \in source}
  \/ \E lane \in Lanes : Present(lane)' # Present(lane)

(* After a pass, a drift of names in any one lane stops the next run: the   *)
(* mapping cannot absorb it.                                                *)
DriftStops == [][verdict = "passed" /\ Drift => (Findings # {})']_vars

(* A mapping that a reviewer could not fault. *)
SoundMapping ==
  LET keys == [i \in DOMAIN mapping.declarations |-> mapping.declarations[i].typespec]
      usable(list) == ~Repeats(list) /\ \A k \in Elements(list) : k # None /\ Unique(k)
  IN /\ usable(keys) /\ usable(mapping.ignore.typespec)
     /\ \A k \in Elements(mapping.ignore.typespec) : ~ Resolve(k) \subseteq Resolved
     /\ \A lane \in Lanes :
          /\ ~Repeats(mapping.ignore[lane])
          /\ Elements(mapping.ignore[lane]) \subseteq Present(lane) \ Targets(lane)

(* A comparison stops only for a cause a reviewer can name: a faulty        *)
(* mapping, two TypeSpec declarations with one simple name, or an unpaired  *)
(* declaration.                                                             *)
StopsForCause ==
  verdict = "stopped" =>
    ~SoundMapping \/ ~Paired \/ \E c, d \in source : c # d /\ c.name = d.name

(* README: "Ambiguous simple names stop evaluation unless a mapping resolves *)
(* them"; docs/mapping-integrity.md: "A qualified TypeSpec mapping remains   *)
(* the supported way to bridge declarations that share a simple name".  With *)
(* such a mapping nothing else stops the run.                                *)
QualifiedMappingBridges ==
  verdict = "stopped" /\ SoundMapping /\ Paired =>
    \E c, d \in source : /\ c # d /\ c.name = d.name
                         /\ c.qualified \notin {e.typespec : e \in Elements(mapping.declarations)}
=============================================================================
