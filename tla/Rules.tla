-------------------------------- MODULE Rules --------------------------------
(***************************************************************************)
(* How the gates of the repository answer: with the rules found broken; and *)
(* how they normalize a list of the caller: entries of a refused shape and  *)
(* repeated keys are reported and dropped, the first of a key is kept, and  *)
(* what exceeds the limit is reported and not looked at.                    *)
(***************************************************************************)
EXTENDS Integers, Sequences

CONSTANTS
  Malformed,   \* an entry of a refused shape
  Nothing      \* null

ASSUME NullAssumption == Malformed # Nothing

Breaks(rule, broken) == IF broken THEN {rule} ELSE {}
Distinct(list) == \A i, j \in DOMAIN list : i # j => list[i] # list[j]
Members(list) == {list[k] : k \in DOMAIN list}
Least(a, b) == IF a <= b THEN a ELSE b

(* The key of an entry: one of its fields, or the entry itself.              *)
KeyIn(item, by) == IF by = "itself" THEN item ELSE item[by]
Looked(list, limit) == {k \in DOMAIN list : k <= limit /\ list[k] # Malformed}
Firsts(list, limit, by) ==
  {list[k] : k \in {j \in Looked(list, limit) :
     \A i \in Looked(list, limit) : i < j => KeyIn(list[i], by) # KeyIn(list[j], by)}}
ListFindings(list, limit, by, name) ==
  Breaks(name \o "-invalid", \E k \in DOMAIN list : k <= limit /\ list[k] = Malformed)
  \cup Breaks(name \o "-limit-exceeded", Len(list) > limit)
  \cup Breaks(name \o "-duplicate",
         \E i, j \in Looked(list, limit) : i < j /\ KeyIn(list[i], by) = KeyIn(list[j], by))
=============================================================================
