----------------------------- MODULE ReceiptSlot -----------------------------
(***************************************************************************)
(* What a publisher of evidence promises, without files: the path is a     *)
(* register that is empty, holds one whole receipt or holds a foreign file;*)
(* a run puts its receipt there in one step or not at all, is told so only *)
(* after it did, and never over a foreign file while no user interferes.   *)
(***************************************************************************)
CONSTANTS Runners, Receipts, Empty, Foreign

VARIABLES
  slot,     \* what the path holds
  status,   \* how far each runner's current run is
  alone     \* no user has touched the path yet

avars == <<slot, status, alone>>

Slots == Receipts \cup {Empty, Foreign}

AInit ==
  /\ slot \in Slots
  /\ status = [r \in Runners |-> "pending"]
  /\ alone = TRUE

Become(r, from, to) ==
  /\ status[r] \in from
  /\ status' = [status EXCEPT ![r] = to]

(* The receipt appears whole, in place of nothing or of another receipt. *)
Publish(r) ==
  /\ Become(r, {"pending"}, "published")
  /\ alone => slot # Foreign
  /\ slot' \in Receipts \ {slot}
  /\ UNCHANGED alone

(* A caller hears of success only after the publication. *)
Return(r) ==
  /\ Become(r, {"published"}, "returned")
  /\ UNCHANGED <<slot, alone>>

Reject(r) ==
  /\ Become(r, {"pending", "published"}, "rejected")
  /\ UNCHANGED <<slot, alone>>

(* The run ends unheard, or the runner begins another one. *)
Restart(r) ==
  /\ Become(r, {"pending", "published", "returned", "rejected"}, "pending")
  /\ UNCHANGED <<slot, alone>>

Interfere ==
  /\ slot' \in Slots
  /\ alone' = FALSE
  /\ UNCHANGED status

ANext ==
  \/ \E r \in Runners : Publish(r) \/ Return(r) \/ Reject(r) \/ Restart(r)
  \/ Interfere

ASpec == AInit /\ [][ANext]_avars
=============================================================================
