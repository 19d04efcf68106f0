---------------------------- MODULE MCHandoffDelivery ----------------------------
(* Small instances of HandoffDelivery for TLC. *)
EXTENDS HandoffDelivery

\* A rung that is disabled, one that dispatches and one that asks for a human.
MCChannel == {"native_runtime", "lobster", "human_escalation"}
MCLadder == <<"native_runtime", "lobster", "human_escalation">>
=============================================================================
