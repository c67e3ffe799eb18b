------------------------- MODULE MCRuntimeConformance -------------------------
(* Small instances of RuntimeConformance for TLC: two adapters, two cases of *)
(* two declarations, two revisions of the sources.                           *)
EXTENDS RuntimeConformance

MCDeclared == <<<<"User", "Order">>, <<"User">>>>

Case(id, declaration, expectation) ==
  [id |-> id, declaration |-> declaration, expectation |-> expectation, input |-> id]
Taken == Case("take", "User", "accepted")
Refused == Case("refuse", "User", "rejected")
Trusted == <<Taken, Refused>>
Recorded == <<Taken>>
MCCorpora ==
  {Trusted, Recorded, <<>>, Append(Recorded, Malformed), <<Taken, Taken>>,
   <<Taken, Case("refuse", "Order", "rejected")>>, <<Taken, Case("refuse", "Gone", "rejected")>>,
   <<Taken, [Refused EXCEPT !.input = Nothing]>>, <<Taken, [Refused EXCEPT !.expectation = "other"]>>}

\* What an adapter reports that executes a case as it should.
Result(c, schema) ==
  LET plain == [caseId |-> c.id, declaration |-> c.declaration, verdict |-> c.expectation] IN
  IF schema = "v1" THEN plain
  ELSE [caseId |-> c.id, declaration |-> c.declaration, verdict |-> c.expectation, input |-> c.input,
        output |-> IF c.expectation = "accepted" THEN "out" ELSE Nothing,
        errors |-> IF c.expectation = "rejected" THEN <<"e">> ELSE <<>>]
Usable(cases) == SelectSeq(cases, LAMBDA c : c # Malformed)
Adapter(id, cases, schema) ==
  [id |-> id, language |-> id, validator |-> "v", status |-> "passed",
   results |-> [k \in DOMAIN Usable(cases) |-> Result(Usable(cases)[k], schema)]]
Exact(cases, schema) ==
  [schema |-> schema, adapters |-> <<Adapter("zod", cases, schema), Adapter("serde", cases, schema)>>]

\* One adapter or result is dropped, doubled, refused or has a field changed.
Dropped(s, k) == SubSeq(s, 1, k - 1) \o SubSeq(s, k + 1, Len(s))
FieldValues(f) ==
  CASE f = "status" -> {"passed", "failed", "skipped"}
    [] f = "verdict" -> {"accepted", "rejected", "error", "skipped"}
    [] f = "errors" -> {<<>>, <<"e">>, <<"f">>, <<"e", "e">>, <<"f", "e">>, <<"e", "f", "g">>,
                        <<Malformed>>, Malformed}
    [] f = "output" -> {"out", "other", Nothing}
    [] f = "caseId" -> {"take", "refuse", "unknown"}
    [] f = "results" -> {<<>>, Malformed}
    [] f = "id" -> {"zod", "serde", "other"}
    [] OTHER -> {"other", Nothing}
Varied(item) == UNION {{[item EXCEPT ![f] = v] : v \in FieldValues(f)} : f \in DOMAIN item}
Spoiled(list) ==
  UNION {{Dropped(list, k), Append(list, list[k]), [list EXCEPT ![k] = Malformed]}
         \cup {[list EXCEPT ![k] = v] : v \in Varied(list[k])} : k \in DOMAIN list}
Faulty(run) ==
  {[run EXCEPT !.adapters = a] : a \in Spoiled(run.adapters)}
  \cup UNION {{[run EXCEPT !.adapters[k].results = r] : r \in Spoiled(run.adapters[k].results)}
              : k \in DOMAIN run.adapters}
  \* both adapters make the same change: they agree, and are wrong
  \cup {[run EXCEPT !.adapters = [k \in DOMAIN @ |-> [@[k] EXCEPT !.results = r]]] :
          r \in Spoiled(run.adapters[1].results)}
  \cup {[run EXCEPT !.schema = s] : s \in {"v1", "v2", "v3"}}
  \cup {[run EXCEPT !.adapters = a] : a \in {<<>>, Malformed}}
  \cup {[run EXCEPT !.adapters = Append(@, Adapter("more", Trusted, run.schema))]}
MCRunsOf ==
  [exact |-> [c \in MCCorpora |-> {Exact(c, "v1"), Exact(c, "v2")}],
   faulty |-> [c \in MCCorpora |-> UNION {Faulty(Exact(c, s)) : s \in {"v1", "v2"}}]]

Demand(id, language) == [id |-> id, language |-> language, validator |-> Nothing]
Wanted(adapters, schema) == [adapters |-> adapters, schema |-> schema]
AllWanted == Wanted(<<Demand("zod", "zod"), Demand("serde", Nothing)>>, "v2")
MCRequirements ==
  {AllWanted, [AllWanted EXCEPT !.schema = Nothing], [AllWanted EXCEPT !.schema = "v1"],
   [AllWanted EXCEPT !.adapters = <<>>], [AllWanted EXCEPT !.adapters[1].language = "serde"],
   [AllWanted EXCEPT !.adapters = Append(@, Malformed)]}

\* Either sources, corpus and artifacts move and the adapters do as they should,
\* or they report anything and nothing moves.
ConformanceMoves == jobs = "exact" /\ moves = 0 /\ required = AllWanted /\ corpus = Trusted
ConformanceStays == jobs = "faulty" /\ moves = MaxMoves /\ lanes = 1
ConformanceSpec == ConformanceInit /\ (ConformanceMoves \/ ConformanceStays)
                   /\ [][ConformanceNext]_conformance
=============================================================================
