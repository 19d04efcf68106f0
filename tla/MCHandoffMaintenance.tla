--------------------------- MODULE MCHandoffMaintenance ---------------------------
(* Small instances of HandoffMaintenance for TLC. *)
EXTENDS HandoffMaintenance

MCLadder == <<"runtime_queue">>

\* A rung that is disabled, then one that dispatches.
MCSkippingLadder == <<"lobster", "runtime_queue">>
=============================================================================
