---------------------------- MODULE MCExpiryTracker ----------------------------
(* One exception, half-day instants, a window of a day, and none if dispatched. *)
EXTENDS ExpiryTracker

MCWindows == {0}
=============================================================================
