------------------------ MODULE ProtobufCompatibility ------------------------
(***************************************************************************)
(* compareProtobufCompatibility: what of a baseline a current projection    *)
(* may not change.  Messages, enums, services and their parts are sets of   *)
(* records; messages and enums call their parts items.  A finding is a rule *)
(* with its subject, which no two findings of a comparison share.           *)
(***************************************************************************)
EXTENDS Rules, Integers, FiniteSets

CONSTANTS
  FieldNumbers,  \* numbers that a field may have
  EnumNumbers    \* numbers that an enum value may have

FieldKeys == {"type", "cardinality", "presence", "oneof", "jsonName"}
MethodKeys == {"inputType", "outputType", "clientStreaming", "serverStreaming", "errorModel"}

Unique(items, key) == \A i, j \in items : i[key] = j[key] => i = j
Has(items, name) == \E i \in items : i.name = name
Named(items, name) == CHOOSE i \in items : i.name = name

-----------------------------------------------------------------------------
(* normalizeProtobufProjection refuses anything else.                        *)

PartsAccepted(holder, numbers) ==
  /\ Unique(holder.items, "name") /\ Unique(holder.items, "number")
  /\ \A i \in holder.items :
       /\ i.number \in numbers
       /\ i.number \notin holder.reservedNumbers /\ i.name \notin holder.reservedNames
  /\ holder.reservedNumbers \subseteq numbers
Accepted(p) ==
  /\ Unique(p.messages, "name") /\ Unique(p.enums, "name") /\ Unique(p.services, "name")
  /\ \A m \in p.messages :
       /\ PartsAccepted(m, FieldNumbers)
       /\ \A f \in m.items : f.cardinality = "repeated" => f.presence = "implicit"
  /\ \A e \in p.enums : PartsAccepted(e, EnumNumbers) /\ e.items # {}
  /\ \A s \in p.services : Unique(s.methods, "name")

-----------------------------------------------------------------------------
(* compareMessages and compareEnums treat numbers and names alike.           *)

Gone(before, after) ==
  {<<"removed", b.name>> : b \in {x \in before : ~Has(after, x.name)}}
Surviving(before, after) == {b \in before : Has(after, b.name)}

\* Mutant: a reservation may be dropped as long as it is not reused at once.
ReservationsReused(b, a) ==
  {<<"reserved-number-reused", b.name, i.name>> :
     i \in {x \in a.items : x.number \in b.reservedNumbers}}
  \cup {<<"reserved-name-reused", b.name, i.name>> :
          i \in {x \in a.items : x.name \in b.reservedNames}}

ReservationFindings(b, a) ==
  {<<"number-unreserved", b.name, n>> : n \in b.reservedNumbers \ a.reservedNumbers}
  \cup {<<"name-unreserved", b.name, n>> : n \in b.reservedNames \ a.reservedNames}
  \cup {<<"reserved-number-reused", b.name, i.name>> :
          i \in {x \in a.items : x.number \in b.reservedNumbers}}
  \cup {<<"reserved-name-reused", b.name, i.name>> :
          i \in {x \in a.items : x.name \in b.reservedNames}}

(* An item of the baseline: gone with both its number and its name reserved, *)
(* or there under both, with the same attributes.                            *)
ItemRules(i, a, keys) ==
  LET byNumber == {x \in a.items : x.number = i.number}
      byName == {x \in a.items : x.name = i.name}
  IN IF byNumber \cup byName = {}
     THEN Breaks("removal-not-reserved",
            i.number \notin a.reservedNumbers \/ i.name \notin a.reservedNames)
     ELSE Breaks("number-changed", \E x \in byName : x.number # i.number)
          \cup Breaks("number-reused", \E x \in byNumber : x.name # i.name)
          \cup {k \in keys : \E x \in byNumber \cap byName : x[k] # i[k]}
PartFindings(b, a, keys) ==
  ReservationFindings(b, a)
  \cup UNION {{<<rule, b.name, i.name>> : rule \in ItemRules(i, a, keys)} : i \in b.items}
HolderFindings(before, after, keys) ==
  Gone(before, after)
  \cup UNION {PartFindings(b, Named(after, b.name), keys) : b \in Surviving(before, after)}

(* compareServices.                                                          *)
MethodFindings(b, a) ==
  {<<"method-removed", b.name, m.name>> : m \in {x \in b.methods : ~Has(a.methods, x.name)}}
  \cup UNION {{<<k, b.name, m.name>> : k \in {key \in MethodKeys :
                 Named(a.methods, m.name)[key] # m[key]}} : m \in Surviving(b.methods, a.methods)}
ServiceFindings(before, after) ==
  Gone(before, after)
  \cup UNION {MethodFindings(b, Named(after, b.name)) : b \in Surviving(before, after)}

Of(kind, findings) == {<<kind, f>> : f \in findings}
Findings(baseline, current) ==
  Of("package", Breaks("changed", baseline.package # current.package))
  \cup Of("message", HolderFindings(baseline.messages, current.messages, FieldKeys))
  \cup Of("enum", HolderFindings(baseline.enums, current.enums, {}))
  \cup Of("service", ServiceFindings(baseline.services, current.services))
=============================================================================
