---------------------------- MODULE MCProofLanes ----------------------------
(* Small instances of ProofLanes for TLC: one Dafny source, one Rust source, *)
(* one Kani harness, two operations with a Dafny behaviour and one without.  *)
EXTENDS ProofLanes, TLC

CONSTANTS spec, lib, check   \* paths

One == <<1, 1>>
Two == <<2, 2>>
Cut == <<1>>
MCTexts == {One, Two, Cut}

MCBehaviors == [add |-> "dafny", del |-> "dafny", say |-> "text"]
MCSymbols == (One :> {"Add", "Del", "proves"} @@ Two :> {"add", "del"} @@ Cut :> {})
MCMarkers == (One :> {<<"add", MCBehaviors, Two>>, <<"del", MCBehaviors, Two>>}
              @@ Two :> {} @@ Cut :> {})
MCProvable == {One, Two}

Released == (spec :> One @@ lib :> Two @@ check :> One)
MCRevisions == {Released, [Released EXCEPT ![lib] = Cut]}

Bound == [diagnostics |-> FALSE, drift |-> FALSE, bound |-> [b \in DOMAIN MCBehaviors |-> 1]]
MCTypeSpecs ==
  {Bound, [Bound EXCEPT !.diagnostics = TRUE], [Bound EXCEPT !.drift = TRUE],
   [Bound EXCEPT !.bound["add"] = 0], [Bound EXCEPT !.bound["add"] = 2],
   [Bound EXCEPT !.bound["say"] = 0]}

Specified(id, symbol) == [id |-> id, source |-> spec, symbol |-> symbol, pin |-> One]
Formal == [behavior |-> MCBehaviors,
           operations |-> <<Specified("add", "Add"), Specified("del", "Del")>>]
MCFormalManifests ==
  {Formal, [Formal EXCEPT !.behavior = [add |-> "dafny"]],
   [Formal EXCEPT !.operations = Tail(@)],
   [Formal EXCEPT !.operations[2].id = "add"],
   [Formal EXCEPT !.operations[2].id = "gone"],
   [Formal EXCEPT !.operations[1].pin = Cut],
   [Formal EXCEPT !.operations[1].symbol = "Gone"],
   [Formal EXCEPT !.operations[1].source = check],
   [Formal EXCEPT !.operations = Append(@, Specified("say", "proves"))]}

Kani == [tool |-> "kani", source |-> check, harness |-> "proves", pin |-> One]
Verus == [tool |-> "verus", source |-> lib, harness |-> None, pin |-> Two]
Implemented(id, proofs) ==
  [id |-> id, source |-> lib, symbol |-> id, pin |-> Two, proofs |-> proofs]
Proofs == [behavior |-> MCBehaviors, revision |-> Released,
           operations |-> <<Implemented("add", <<Kani>>), Implemented("del", <<Kani>>)>>]
MCProofManifests ==
  {Proofs, [Proofs EXCEPT !.behavior = [add |-> "dafny"]],
   [Proofs EXCEPT !.revision[lib] = Cut],
   [Proofs EXCEPT !.operations[2].id = "add"],
   [Proofs EXCEPT !.operations[2].id = "say"],
   [Proofs EXCEPT !.operations[2].id = "gone"],
   [Proofs EXCEPT !.operations[1].id = "gone"],
   [Proofs EXCEPT !.operations[1].proofs = <<[Kani EXCEPT !.harness = "gone"], Kani>>],
   [Proofs EXCEPT !.operations[1].pin = Cut],
   [Proofs EXCEPT !.operations[1].symbol = "Gone"],
   [Proofs EXCEPT !.operations[1].proofs = <<>>],
   [Proofs EXCEPT !.operations[1].proofs[1].pin = Cut],
   [Proofs EXCEPT !.operations[1].proofs[1].source = spec],
   [Proofs EXCEPT !.operations[1].proofs[1].harness = "gone"],
   [Proofs EXCEPT !.operations[1].proofs = <<Kani, Verus>>],
   [Proofs EXCEPT !.operations[1].proofs = <<[Verus EXCEPT !.source = check]>>]}

\* The released files, with room for one more file at each name.
LaneTreeInit ==
  /\ folder = "here"
  /\ entry = [f \in Folders |-> IF f = "here" THEN spec :> 1 @@ lib :> 2 @@ check :> 3
                                ELSE spec :> 4 @@ lib :> 4 @@ check :> None]
  /\ data = [i \in Inodes |-> IF i = 2 THEN Two ELSE IF i = 4 THEN Cut ELSE One]
  /\ mtime = [i \in Inodes |-> 0] /\ ctime = [i \in Inodes |-> 0]

\* Either the checkout moves and the evidence is genuine, or the evidence may be
\* anything and the checkout stays.
LanesMove ==
  /\ edits = 0 /\ head = Released
  /\ formalManifest = Formal /\ proofManifest = Proofs /\ typespec = Bound
LanesStay == edits = MaxEdits
LaneSpec == LaneTreeInit /\ LaneInit /\ (LanesMove \/ LanesStay) /\ [][LaneNext]_laneVars
=============================================================================
