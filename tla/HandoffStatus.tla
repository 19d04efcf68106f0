------------------------------ MODULE HandoffStatus ------------------------------
(***************************************************************************)
(* The life cycle of a handoff intent, from                                 *)
(* tools/workflow-handoff/handoff-types.ts: its statuses, the three classes *)
(* the rest of the system asks about, and the table of legal transitions.   *)
(***************************************************************************)

\* A status with no rule leading out of it: the handoff is over.
Terminal == {"completed", "expired", "superseded", "escalated", "cancelled"}

\* The statuses that count as a handoff under way. A failed handoff is neither
\* active nor terminal: it waits for the sweep to revive it.
Active == {"prepared", "pending", "queued", "dispatching", "dispatched",
           "delivered", "acknowledged", "claimed", "activated", "stale_claim"}

Status == Active \cup Terminal \cup {"failed"}

\* An idempotency key that reached one of these is never used again; an expired
\* intent is reissued instead.
Blocking == Terminal \ {"expired"}

\* Moves every status on the way to the target allows.
Outcome == {"claimed", "completed", "failed", "expired", "superseded"}

\* WORKFLOW_HANDOFF_ALLOWED_TRANSITIONS.
Allowed == [s \in Status |->
    CASE s = "prepared"     -> Outcome \cup {"pending", "queued", "dispatching", "dispatched", "cancelled"}
      [] s = "pending"      -> Outcome \cup {"prepared", "queued", "dispatching", "dispatched", "cancelled"}
      [] s = "queued"       -> Outcome \cup {"dispatching", "dispatched", "cancelled"}
      [] s = "dispatching"  -> Outcome \cup {"dispatched", "delivered", "queued", "escalated"}
      [] s = "dispatched"   -> Outcome \cup {"delivered", "acknowledged", "queued", "escalated"}
      [] s = "delivered"    -> Outcome \cup {"acknowledged", "escalated"}
      [] s = "acknowledged" -> Outcome \cup {"escalated"}
      [] s = "claimed"      -> (Outcome \ {"claimed"}) \cup {"activated", "stale_claim", "escalated"}
      [] s = "activated"    -> (Outcome \ {"claimed"}) \cup {"stale_claim", "escalated"}
      [] s = "failed"       -> {"prepared", "queued", "dispatching", "dispatched", "escalated", "superseded"}
      [] s = "stale_claim"  -> {"queued", "escalated", "superseded"}
      [] s \in Terminal     -> {}]

\* Mutants of CanTransition: an expired intent may be prepared again; the stall
\* watchdog may fail a finished handoff.
CanTransitionReissue(from, to) ==
    from = to \/ to \in Allowed[from] \/ (from = "expired" /\ to = "prepared")
CanTransitionLateFailure(from, to) ==
    from = to \/ to \in Allowed[from] \/ to = "failed"

\* canTransitionWorkflowHandoffStatus: staying put is always legal.
CanTransition(from, to) == from = to \/ to \in Allowed[from]
=============================================================================
