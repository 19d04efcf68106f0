--------------------------- MODULE MCHandoffActivation ---------------------------
(* Small instances of HandoffActivation for TLC. *)
EXTENDS HandoffActivation

\* Two sessions of the coder, who is handed the project by the researcher.
MCRoleOf == [s \in Session |-> "coder"]
MCTargetOf == [k \in Key |-> "coder"]
=============================================================================
