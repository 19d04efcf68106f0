----------------------------- MODULE MCHandoffStore -----------------------------
(* A small instance of HandoffStore for TLC. *)
EXTENDS HandoffStore
=============================================================================
