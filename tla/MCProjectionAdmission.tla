------------------------ MODULE MCProjectionAdmission ------------------------
(* Small instances of ProjectionAdmission for TLC: one input, two outputs of *)
(* two projections, one declaration pair, one approved loss.                 *)
EXTENDS ProjectionAdmission, TLC

CONSTANTS in, outA, outB

Old == <<1, 1>>
New == <<2, 2>>
Short == <<1>>
MCContents == {Old, New, Short}

MCParity == [status |-> "passed", findings |-> {}, covered |-> TRUE, inputs |-> 1]
MCIr == [role |-> TRUE, intact |-> TRUE, receipt |-> MCParity, sources |-> 1,
         assertions |-> [User |-> "u1", Order |-> "o1"]]
Both == <<"User", "Order">>

Delta == [id |-> "d", projection |-> "A", declaration |-> "User", source |-> "u1",
          approval |-> "ok", required |-> TRUE, validator |-> "v", fixture |-> "f"]
Validator == [id |-> "v", projection |-> "A", artifact |-> "a", fixture |-> "f"]
Projected(id, out, deltas, validators) ==
  [id |-> id, declarations |-> Both, outputs |-> <<out>>, deltas |-> deltas,
   validators |-> validators]
Output(path, id) == [path |-> path, content |-> Old, projection |-> id]

Given ==
  [inputs |-> [inventory |-> [path |-> in, content |-> Old]],
   toolchains |-> <<[id |-> "emitter", pin |-> "v1"]>>,
   declarations |-> Both,
   projections |-> <<Projected("A", outA, <<"d">>, <<"v">>), Projected("B", outB, <<>>, <<>>)>>,
   outputs |-> <<Output(outA, "A"), Output(outB, "B")>>,
   deltas |-> <<Delta>>, validators |-> <<Validator>>]
Genuine == Signed(Draft(MCIr, MCParity, Given))

GenuinePolicy ==
  [inputs |-> <<[role |-> "inventory", path |-> in]>>,
   outputs |-> <<[path |-> outA, projection |-> "A"], [path |-> outB, projection |-> "B"]>>,
   toolchains |-> Given.toolchains, projections |-> {"A", "B"},
   declarations |-> {"User", "Order"},
   approved |-> <<Fields(Delta, ApprovedFields)>>, validators |-> <<Validator>>]

\* One entry of a list is dropped, doubled, refused, or has a field changed.
Lists == {"toolchains", "declarations", "projections", "outputs", "deltas", "validators"}
Without(s, k) == SubSeq(s, 1, k - 1) \o SubSeq(s, k + 1, Len(s))
Values(f) ==
  CASE f = "projection" -> {"A", "B", "C"}
    [] f = "declaration" -> {"User", "Order", "Gone"}
    [] f = "required" -> BOOLEAN
    [] f \in {"validator", "fixture"} -> {"v", "f", "g", Nothing}
    [] f = "content" -> {Old, New}
    [] f = "path" -> {outA, outB, in}
    [] f = "outputs" -> {<<outA>>, <<outB>>, <<outA, outB>>, <<>>, <<outA, outA>>}
    [] f = "declarations" -> {Both, <<"User">>, <<"Order", "User">>}
    [] f = "deltas" -> {<<"d">>, <<>>, <<"d", "d">>}
    [] f = "validators" -> {<<"v">>, <<>>, <<"w">>}
    [] f = "id" -> {"A", "B", "C", "d", "e", "v", "w"}
    [] OTHER -> {"other"}
Altered(item) == UNION {{[item EXCEPT ![f] = v] : v \in Values(f)} : f \in DOMAIN item}
Other(l, item) == IF l = "declarations" THEN {"User", "Gone"} ELSE Altered(item)
Tampered(m) ==
  UNION {UNION {{[m EXCEPT ![l] = Without(m[l], k)],
                 [m EXCEPT ![l] = Append(m[l], m[l][k])],
                 [m EXCEPT ![l][k] = Malformed]}
                \cup {[m EXCEPT ![l][k] = e] : e \in Other(l, m[l][k])}
                : k \in DOMAIN m[l]} : l \in Lists}
\* Every way to claim, or to drop, the execution of the approved loss.
Losses ==
  {[Genuine EXCEPT
      !.deltas = <<[Delta EXCEPT !.required = r, !.validator = v, !.fixture = f]>>,
      !.validators = vs, !.projections[1].validators = a, !.projections[2].validators = b] :
    r \in BOOLEAN, v \in {"v", "w", Nothing}, f \in {"f", "g", Nothing},
    vs \in {<<>>, <<Validator>>, <<[Validator EXCEPT !.projection = "B"]>>,
            <<[Validator EXCEPT !.fixture = "g"]>>},
    a \in {<<>>, <<"v">>}, b \in {<<>>, <<"v">>}}
MCManifests ==
  {Genuine, [Genuine EXCEPT !.contract = Malformed],
   [Genuine EXCEPT !.toolchains[1].pin = "unsigned"]}
  \cup {Signed(m) : m \in Tampered(Genuine) \cup Losses}

MCPolicies ==
  {GenuinePolicy,
   [GenuinePolicy EXCEPT !.outputs = <<>>],
   [GenuinePolicy EXCEPT !.outputs = Append(@, [path |-> in, projection |-> "A"])],
   [GenuinePolicy EXCEPT !.outputs = Append(@, [path |-> "more", projection |-> "A"])],
   [GenuinePolicy EXCEPT !.approved = <<>>],
   [GenuinePolicy EXCEPT !.approved = <<[@[1] EXCEPT !.fixture = Nothing]>>],
   [GenuinePolicy EXCEPT !.validators = <<[@[1] EXCEPT !.projection = "B"]>>],
   [GenuinePolicy EXCEPT !.validators = <<>>],
   [GenuinePolicy EXCEPT !.projections = {"A"}],
   [GenuinePolicy EXCEPT !.declarations = {"User"}]}

\* The checkout as it was emitted, and a second directory with other outputs.
MCTreeInit ==
  /\ folder = "here"
  /\ entry = [f \in Folders |-> IF f = "here" THEN in :> 1 @@ outA :> 2 @@ outB :> 3
                                ELSE in :> 4 @@ outA :> 4 @@ outB :> None]
  /\ data = [i \in Inodes |-> IF i = 4 THEN New ELSE Old]
  /\ mtime = [i \in Inodes |-> 0] /\ ctime = [i \in Inodes |-> 0]

\* Either the files move and the evidence is genuine, or the evidence may be
\* anything and the files stay.
MCInit ==
  /\ MCTreeInit /\ ReadInit /\ AdmissionInit
  /\ \/ edits = 0 /\ manifest = Genuine /\ policy = GenuinePolicy
     \/ edits = MaxEdits /\ source = MCIr.sources
MCSpec == MCInit /\ [][AdmissionNext]_vars
=============================================================================
