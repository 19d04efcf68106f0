---------------------------- MODULE HandoffMaintenance ----------------------------
(***************************************************************************)
(* The maintenance pass over the handoff store:                             *)
(* runWorkflowHandoffMaintenancePass (tools/workflow-handoff/maintenance.ts)*)
(* beside the deliverers and the agents of HandoffDelivery.                 *)
(*                                                                          *)
(* A pass reads the store and the manifest once, without a lock, and then   *)
(* decides every intent's fate from that snapshot, one locked transition at *)
(* a time: first the duplicates of each idempotency key, then every intent  *)
(* in store order. Passes are started by the runtime maintenance timer and  *)
(* by every auto-iterator tick, so several may run at once.                 *)
(*                                                                          *)
(* The clock and the project's stage are not modelled: where the code asks  *)
(* whether a deadline has passed (other than expiresAt) or whether an       *)
(* intent's stage still matches the manifest's, both answers are possible.  *)
(***************************************************************************)
EXTENDS HandoffDelivery

CONSTANT Janitor    \* concurrent maintenance passes

VARIABLES
    phase,    \* where each pass is
    snap,     \* its snapshot of the intents
    pending,  \* the manifest's pending_handoff_id in its snapshot, 0 for none
    todo,     \* the duplicates it still has to supersede
    next      \* the next intent of its second loop

passVars == <<phase, snap, pending, todo, next>>
maintenanceVars == <<deliveryVars, passVars>>

Phase == {"idle", "dedupe", "verdict"}

\* The groups and survivors of a snapshot.
SnapGroup(s, k) == {i \in DOMAIN s : s[i].key = k}
SnapBlocking(s, k) == {i \in SnapGroup(s, k) : s[i].status \in Blocking}
SnapActive(s, k) == {i \in SnapGroup(s, k) : s[i].status \in Active}

\* Mutant: only the intent the manifest waits for is kept.
SparedPendingOnly(s, p, k) == {p} \cap SnapActive(s, k)

\* The active intent of the key that is kept: none if the key is closed, else
\* the one the manifest waits for, else the oldest.
Spared(s, p, k) ==
    IF SnapBlocking(s, k) # {} \/ SnapActive(s, k) = {} THEN {}
    ELSE IF p \in SnapActive(s, k) THEN {p}
    ELSE {Min(SnapActive(s, k))}

\* What the first loop will supersede.
Duplicates(s, p) == UNION {SnapActive(s, k) \ Spared(s, p, k) : k \in Key}

\* A deadline other than expiresAt that may have passed.
Overdue(t) ==
    (IF t.status \in {"dispatched", "delivered", "acknowledged"} THEN {"failed"} ELSE {})
    \cup (IF t.status = "claimed" THEN {"stale_claim"} ELSE {})
    \cup (IF t.status \in Active \ {"claimed", "activated", "stale_claim"}
          THEN {"failed"} ELSE {})

\* The stage-owner handoff was replaced by the pending one, or the project has
\* left both of its stages.
MayBeSuperseded(t, i, p) ==
    /\ t.status # "superseded"
    /\ p \notin {0, i} \/ t.status \notin Terminal

\* The statuses the second loop may ask for intent i of a snapshot.
Verdicts(t, i, p) ==
    IF t.status \notin Terminal /\ ~HasTotalBudget(t) THEN {"failed"}
    ELSE (IF MayBeSuperseded(t, i, p) THEN {"superseded"} ELSE {})
         \cup (IF t.status \in Terminal THEN {}
               ELSE IF t.late THEN {"expired"} ELSE Overdue(t))

\* The second loop may leave the intent alone.
MayBeLeft(t) == t.status \in Terminal \/ (HasTotalBudget(t) /\ ~t.late)

-----------------------------------------------------------------------------
MaintenanceInit ==
    /\ DeliveryInit
    /\ phase = [j \in Janitor |-> "idle"]
    /\ snap = [j \in Janitor |-> <<>>]
    /\ pending = [j \in Janitor |-> 0]
    /\ todo = [j \in Janitor |-> {}]
    /\ next = [j \in Janitor |-> 1]

\* The pass reads the store and the manifest, whose pending handoff is any the
\* requesters have written there, and works out the duplicates.
StartPass(j) ==
    /\ phase[j] = "idle"
    /\ Id # {}
    /\ \E p \in {0} \cup Id :
         /\ pending' = [pending EXCEPT ![j] = p]
         /\ todo' = [todo EXCEPT ![j] = Duplicates(intents, p)]
    /\ snap' = [snap EXCEPT ![j] = intents]
    /\ next' = [next EXCEPT ![j] = 1]
    /\ phase' = [phase EXCEPT ![j] = "dedupe"]
    /\ UNCHANGED deliveryVars

\* The first loop supersedes the next duplicate.
SupersedeDuplicate(j) ==
    /\ phase[j] = "dedupe"
    /\ todo[j] # {}
    /\ LET i == Min(todo[j]) IN
         /\ Patch(i, "superseded", intents[i].session, TRUE)
         /\ todo' = [todo EXCEPT ![j] = @ \ {i}]
    /\ UNCHANGED <<callVars, sent, faults, phase, snap, pending, next>>

\* No duplicates are left: on to the second loop.
DedupeDone(j) ==
    /\ phase[j] = "dedupe"
    /\ todo[j] = {}
    /\ phase' = [phase EXCEPT ![j] = "verdict"]
    /\ UNCHANGED <<deliveryVars, snap, pending, todo, next>>

\* The second loop passes its verdict on the next intent.
Judge(j) ==
    /\ phase[j] = "verdict"
    /\ next[j] <= Len(snap[j])
    /\ LET i == next[j]
           t == snap[j][i]
       IN  \/ \E to \in Verdicts(t, i, pending[j]) : Transition(i, to)
           \/ MayBeLeft(t) /\ UNCHANGED storeVars
    /\ next' = [next EXCEPT ![j] = @ + 1]
    /\ UNCHANGED <<callVars, sent, faults, phase, snap, pending, todo>>

\* The pass is over.
EndPass(j) ==
    /\ phase[j] = "verdict"
    /\ next[j] > Len(snap[j])
    /\ phase' = [phase EXCEPT ![j] = "idle"]
    /\ snap' = [snap EXCEPT ![j] = <<>>]
    /\ pending' = [pending EXCEPT ![j] = 0]
    /\ next' = [next EXCEPT ![j] = 1]
    /\ UNCHANGED <<deliveryVars, todo>>

Pass(j) ==
    StartPass(j) \/ SupersedeDuplicate(j) \/ DedupeDone(j) \/ Judge(j) \/ EndPass(j)

MaintenanceNext ==
    \/ DeliveryNext /\ UNCHANGED passVars
    \/ \E j \in Janitor : Pass(j)

MaintenanceSpec == MaintenanceInit /\ [][MaintenanceNext]_maintenanceVars

\* The timers: passes are started again and again and run to their end, every
\* intent that stays retriable is reached by a sweep, and a call that has begun
\* keeps running. Agents and requesters are not obliged to do anything.
FairMaintenanceSpec ==
    /\ MaintenanceSpec
    /\ \A j \in Janitor : WF_maintenanceVars(Pass(j))
    /\ \A d \in Deliverer : WF_maintenanceVars(Proceed(d) /\ UNCHANGED passVars)
    /\ \A i \in 1 .. MaxIntents :
         SF_maintenanceVars(\E d \in Deliverer :
            i \in Id /\ Sweep(d, i) /\ UNCHANGED passVars)

-----------------------------------------------------------------------------
\* The type invariant of the maintenance passes.
MaintenanceTypeOK ==
    /\ DeliveryTypeOK
    /\ phase \in [Janitor -> Phase]
    /\ snap \in [Janitor -> Seq(Intent)]
    /\ pending \in [Janitor -> 0 .. MaxIntents]
    /\ todo \in [Janitor -> SUBSET (1 .. MaxIntents)]
    /\ next \in [Janitor -> 1 .. MaxIntents + 1]

\* The twin is lost only where a failed intent of the key was revived beside its
\* replacement: otherwise the key keeps an intent that was not superseded as a
\* duplicate, whatever store and manifest the pass decided from.
TwinLostOnlyByRevival ==
    \A i \in Id : intents[i].dup =>
        \E j \in SameKey(intents[i].key) : ~intents[j].dup \/ j \in failedOnce

\* Intent i is in the store with one of these statuses.
Has(i, S) == i \in Id /\ StatusOf(i) \in S

\* A delivery that a crash cuts short is taken up again or given up: no handoff
\* stays dispatching for ever (the sweep, the stall watchdog).
DispatchingMovesOn ==
    \A i \in 1 .. MaxIntents : Has(i, {"dispatching"}) ~> ~Has(i, {"dispatching"})
=============================================================================
