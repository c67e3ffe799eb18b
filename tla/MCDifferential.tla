---------------------------- MODULE MCDifferential ----------------------------
(***************************************************************************)
(* The differential lane from both sides: how one lane reaches a verdict    *)
(* (InstanceValidator), or what a comparison makes of arbitrary verdicts of *)
(* two lanes (ParityRun).  The variables of the other are idle.             *)
(***************************************************************************)
EXTENDS MCParityRun, MCInstanceValidator

VARIABLE side

NoEvaluation ==
  /\ bundle = <<>> /\ tried = 0 /\ documents = <<>> /\ index = <<>>
  /\ asked = Nothing /\ results = <<>>

DifferentialInit ==
  \/ side = "lane" /\ EvaluationInit /\ Init /\ corpus = {}
  \/ side = "comparison" /\ Init /\ NoEvaluation

LaneEvaluates == side = "lane" /\ EvaluationNext /\ UNCHANGED <<side, vars>>
LanesCompared == side = "comparison" /\ Next /\ UNCHANGED <<side, validator>>

DifferentialNext == LaneEvaluates \/ LanesCompared
DifferentialSpec == DifferentialInit /\ [][DifferentialNext]_<<side, vars, validator>>
=============================================================================
