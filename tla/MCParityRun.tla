----------------------------- MODULE MCParityRun -----------------------------
EXTENDS ParityRun

(* One fixture for the first pair under its authored name, one filed under  *)
(* a name that is both generated and TypeSpec name of the second, and one   *)
(* that no pair has.                                                        *)
Fixture(x, expectation, roles) == [instance |-> x, expectation |-> expectation, roles |-> roles]
MCFixtures == {Fixture("x", "reject", {<<1, "authored">>, <<2, "generated">>, <<2, "typespec">>}),
               Fixture("x", None, {<<1, "authored">>}),
               Fixture("x", "accept", {})}
=============================================================================
