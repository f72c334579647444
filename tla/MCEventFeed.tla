---------------------------- MODULE MCEventFeed -----------------------------
(* Instances of EventFeed for TLC. *)
EXTENDS EventFeed, TLC

CONSTANTS w1, w2, e1, e2, e3
=============================================================================
