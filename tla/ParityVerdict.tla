---------------------------- MODULE ParityVerdict ----------------------------
(***************************************************************************)
(* What a parity run promises: it looks at evidence, some of it wrong, and *)
(* ends with one verdict that no budget, order or repetition can soften.    *)
(***************************************************************************)
VARIABLES
  clean,    \* nothing seen so far is wrong
  status    \* "running", or the status of the report

avars == <<clean, status>>

AInit == clean = TRUE /\ status = "running"

Observe ==
  /\ status = "running"
  /\ clean' \in {clean, FALSE}
  /\ UNCHANGED status

(* "passed" is the verdict on clean evidence and on no other. *)
Decide ==
  /\ status = "running"
  /\ status' = IF clean THEN "passed" ELSE "stopped_for_evaluation"
  /\ UNCHANGED clean

(* A run that throws has no verdict on the evidence. *)
Fail ==
  /\ status = "running"
  /\ status' = "failed"
  /\ UNCHANGED clean

ANext == Observe \/ Decide \/ Fail

ASpec == AInit /\ [][ANext]_avars
=============================================================================
