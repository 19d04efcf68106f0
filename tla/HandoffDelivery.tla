----------------------------- MODULE HandoffDelivery -----------------------------
(***************************************************************************)
(* The delivery of handoffs: deliverWorkflowHandoffIntent                   *)
(* (tools/workflow-handoff/handoff-delivery.ts), started by the tick that   *)
(* requested the handoff or by sweepPendingHandoffIntents                   *)
(* (handoff-sweep.ts).                                                      *)
(*                                                                          *)
(* A deliverer is one running call. It holds a copy of the intent that is   *)
(* only as fresh as its last store operation, climbs the ladder of channels *)
(* rung by rung, and awaits an external dispatch on each. Several calls run *)
(* at once: every session's tick and the service's maintenance timer start  *)
(* their own. The agents that receive the handoff act on it meanwhile, with *)
(* the handoff tools (external here: Agent).                                *)
(***************************************************************************)
EXTENDS HandoffStore

CONSTANTS Deliverer,      \* concurrent calls of deliverWorkflowHandoffIntent
          Ladder,         \* deliveryPlan.channels, in order
          ChannelCap,     \* deliveryPlan.maxAttemptsByChannel, the same for all
          MaxTotal,       \* deliveryPlan.maxAttemptsTotal
          LobsterEnabled, \* is lobsterMode "enabled" or "disabled"?
          AgentStatus,    \* bound: what the receiving agents may report
          MaxFaults       \* bound: lock timeouts and crashes

ASSUME DeliveryAssumption ==
    /\ Key # {}
    /\ IsFiniteSet(Deliverer)
    /\ Ladder \in Seq(Channel)
    /\ ChannelCap \in Nat
    /\ MaxTotal \in Nat \ {0}
    /\ LobsterEnabled \in BOOLEAN
    /\ AgentStatus \subseteq {"acknowledged", "claimed", "activated", "completed", "failed"}
    /\ MaxFaults \in Nat

VARIABLES
    at,      \* where each deliverer is in the call
    held,    \* the position of the intent it delivers
    seen,    \* its copy of that intent
    rung,    \* the rung of the ladder it has reached
    ok,      \* did the dispatch it awaits succeed?
    sent,    \* history: dispatches made, by intent and channel
    faults   \* lock timeouts and crashes so far

callVars == <<at, held, seen, rung, ok>>
deliveryVars == <<storeVars, callVars, sent, faults>>

Place == {"idle", "start", "ladder", "record", "settle", "catch"}

\* countWorkflowHandoffAttemptsByChannel.
AttemptsOn(t, c) == Cardinality({n \in DOMAIN t.attempts : t.attempts[n] = c})

\* Mutants: off by one, up and down.
HasTotalBudgetLoose(t) == Len(t.attempts) <= MaxTotal
HasTotalBudgetTight(t) == Len(t.attempts) + 1 < MaxTotal

HasTotalBudget(t) == Len(t.attempts) < MaxTotal

HasChannelBudget(t, c) == AttemptsOn(t, c) < ChannelCap

\* The target has taken the handoff over.
Accepted == {"dispatched", "delivered", "acknowledged", "claimed", "activated"}

\* Mutant: an intent that is being dispatched counts as taken over.
RetriableIdle(t) ==
    /\ t.status \notin Terminal \cup {"claimed", "activated", "dispatching"}
    /\ ~t.late
    /\ HasTotalBudget(t)

\* findRetriableWorkflowHandoffIntents; the backoff since the last attempt has
\* passed whenever the sweep comes by.
Retriable(t) ==
    /\ t.status \notin Terminal \cup {"claimed", "activated"}
    /\ ~t.late
    /\ HasTotalBudget(t)

\* The channel d is about to try.
Via(d) == Ladder[rung[d]]

Skips(c) == c = "lobster" /\ ~LobsterEnabled

Goto(d, place) == at' = [at EXCEPT ![d] = place]

\* d's copy becomes what the store operation of this step returned.
Refresh(d) == seen' = [seen EXCEPT ![d] = intents'[held[d]]]

\* The rungs from r up whose channel has budget left, by a copy.
OpenRungs(copy, r) == {n \in r .. Len(Ladder) : HasChannelBudget(copy, Ladder[n])}

\* Mutant: a ladder without open rungs is left two rungs past its end.
NextOpenRungPast(copy, r) ==
    IF OpenRungs(copy, r) = {} THEN Len(Ladder) + 2 ELSE Min(OpenRungs(copy, r))

\* The next open rung, or one past the end of the ladder.
NextOpenRung(copy, r) ==
    IF OpenRungs(copy, r) = {} THEN Len(Ladder) + 1 ELSE Min(OpenRungs(copy, r))

\* Mutant: the same rung is tried again for as long as it has budget.
AfterSame(r) == r

After(r) == r + 1

Climb(d, copy, r) == rung' = [rung EXCEPT ![d] = NextOpenRung(copy, r)]

\* What a call holds before it starts and after it returns.
NoCopy == NewIntent(CHOOSE k \in Key : TRUE)

\* The call returns and its locals are gone.
Return(d) ==
    /\ Goto(d, "idle")
    /\ held' = [held EXCEPT ![d] = 0]
    /\ seen' = [seen EXCEPT ![d] = NoCopy]
    /\ rung' = [rung EXCEPT ![d] = 1]
    /\ ok' = [ok EXCEPT ![d] = FALSE]

-----------------------------------------------------------------------------
DeliveryInit ==
    /\ StoreInit
    /\ at = [d \in Deliverer |-> "idle"]
    /\ held = [d \in Deliverer |-> 0]
    /\ seen = [d \in Deliverer |-> NoCopy]
    /\ rung = [d \in Deliverer |-> 1]
    /\ ok = [d \in Deliverer |-> FALSE]
    /\ sent = [i \in 1 .. MaxIntents |-> [c \in Channel |-> 0]]
    /\ faults = 0

\* The call starts with a copy of intent i.
TakeUp(d, i) ==
    /\ at[d] = "idle"
    /\ Goto(d, "start")
    /\ held' = [held EXCEPT ![d] = i]
    /\ seen' = [seen EXCEPT ![d] = intents'[i]]
    /\ UNCHANGED <<rung, ok, sent, faults>>

\* A tick asks for a handoff and delivers the intent the store answers with.
Request(d, k) ==
    /\ Upsert(k)
    /\ TakeUp(d, Answer(k))

\* The sweep comes to intent i. The candidates of one sweep are copied at once
\* and delivered in turn; a copy that has waited its turn is one that has been
\* taken up and not started.
Sweep(d, i) ==
    /\ Retriable(intents[i])
    /\ UNCHANGED storeVars
    /\ TakeUp(d, i)

\* The copy is terminal: nothing to deliver.
SkipTerminal(d) ==
    /\ at[d] = "start"
    /\ seen[d].status \in Terminal
    /\ Return(d)
    /\ UNCHANGED <<storeVars, sent, faults>>

\* The copy's attempts are used up: escalate.
EscalateExhausted(d) ==
    /\ at[d] = "start"
    /\ seen[d].status \notin Terminal
    /\ ~HasTotalBudget(seen[d])
    /\ Transition(held[d], "escalated")
    /\ Return(d)
    /\ UNCHANGED <<sent, faults>>

\* The hook gate or the channel binding refuses the delivery: supersede.
GateRefuses(d) ==
    /\ at[d] = "start"
    /\ seen[d].status \notin Terminal
    /\ HasTotalBudget(seen[d])
    /\ Transition(held[d], "superseded")
    /\ Return(d)
    /\ UNCHANGED <<sent, faults>>

\* Delivery starts: mark the intent dispatching, unless the copy says that it
\* is on its way already, and look at what the store says.
BeginTarget(status) ==
    IF status \in {"prepared", "pending", "queued", "failed", "stale_claim"}
    THEN "dispatching"
    ELSE status

Begin(d) ==
    /\ at[d] = "start"
    /\ seen[d].status \notin Terminal
    /\ HasTotalBudget(seen[d])
    /\ Transition(held[d], BeginTarget(seen[d].status))
    /\ IF intents'[held[d]].status \in Terminal \cup Accepted
       THEN Return(d)
       ELSE /\ Goto(d, "ladder")
            /\ Refresh(d)
            /\ Climb(d, intents'[held[d]], 1)
            /\ UNCHANGED <<held, ok>>
    /\ UNCHANGED <<sent, faults>>

\* d stands on a rung it may use.
OnRung(d) ==
    /\ at[d] = "ladder"
    /\ HasTotalBudget(seen[d])
    /\ rung[d] <= Len(Ladder)

\* Lobster is disabled: the rung is recorded as skipped, which costs an attempt.
SkipRung(d) ==
    /\ OnRung(d)
    /\ Skips(Via(d))
    /\ AppendAttempt(held[d], Via(d))
    /\ Refresh(d)
    /\ Climb(d, intents'[held[d]], After(rung[d]))
    /\ UNCHANGED <<at, held, ok, sent, faults>>

\* The dispatch goes out and is awaited; the target may or may not take it.
\* Asking for a human sends nothing and cannot fail.
Dispatch(d) ==
    /\ OnRung(d)
    /\ ~Skips(Via(d))
    /\ Goto(d, "record")
    /\ IF Via(d) = "human_escalation"
       THEN ok' = [ok EXCEPT ![d] = TRUE] /\ UNCHANGED sent
       ELSE /\ \E answer \in BOOLEAN : ok' = [ok EXCEPT ![d] = answer]
            /\ sent' = [sent EXCEPT ![held[d]][Via(d)] = @ + 1]
    /\ UNCHANGED <<storeVars, held, seen, rung, faults>>

\* Back on the ladder, one rung up.
NextRung(d) ==
    /\ Goto(d, "ladder")
    /\ Climb(d, intents'[held[d]], After(rung[d]))

\* The attempt is recorded, whatever the dispatch came to.
Record(d) ==
    /\ at[d] = "record"
    /\ AppendAttempt(held[d], Via(d))
    /\ Refresh(d)
    /\ IF ok[d] THEN Goto(d, "settle") /\ UNCHANGED rung ELSE NextRung(d)
    /\ UNCHANGED <<held, ok, sent, faults>>

\* What a successful dispatch makes of the intent.
SettledAs(c) ==
    CASE c = "runtime_queue" -> "queued"
      [] c = "human_escalation" -> "escalated"
      [] OTHER -> "dispatched"

\* The session the intent is settled with: a channel that starts a run may name
\* the run's, and otherwise puts back the copy's.
SettledSessions(d) ==
    IF Via(d) \in {"native_runtime", "lobster"}
    THEN Session \cup {seen[d].session}
    ELSE {intents[held[d]].session}

\* The delivery succeeded: settle the intent's status, legal or not.
Settle(d) ==
    /\ at[d] = "settle"
    /\ \E s \in SettledSessions(d) : Patch(held[d], SettledAs(Via(d)), s, FALSE)
    /\ Return(d)
    /\ UNCHANGED <<sent, faults>>

\* The ladder is exhausted, or the budget is.
ConcludedAs(t) == IF HasTotalBudget(t) THEN "failed" ELSE "escalated"

Conclude(d) ==
    /\ at[d] = "ladder"
    /\ ~OnRung(d)
    /\ Transition(held[d], ConcludedAs(seen[d]))
    /\ Return(d)
    /\ UNCHANGED <<sent, faults>>

\* A store operation inside the try block times out on the lock.
LockTimeout(d) ==
    /\ at[d] \in {"record", "settle"}
    /\ faults < MaxFaults
    /\ faults' = faults + 1
    /\ Goto(d, "catch")
    /\ UNCHANGED <<storeVars, held, seen, rung, ok, sent>>

\* The catch block records a failed attempt, even of a dispatch that was
\* recorded as delivered before, and the ladder goes on.
Catch(d) ==
    /\ at[d] = "catch"
    /\ AppendAttempt(held[d], Via(d))
    /\ Refresh(d)
    /\ NextRung(d)
    /\ UNCHANGED <<held, ok, sent, faults>>

\* The call ends where it stands: the process dies, or a store operation
\* outside the try block times out.
Crash(d) ==
    /\ at[d] # "idle"
    /\ faults < MaxFaults
    /\ faults' = faults + 1
    /\ Return(d)
    /\ UNCHANGED <<storeVars, sent>>

\* Every step of a call that has begun, faults aside.
Proceed(d) ==
    \/ SkipTerminal(d) \/ EscalateExhausted(d) \/ GateRefuses(d) \/ Begin(d)
    \/ SkipRung(d) \/ Dispatch(d) \/ Record(d) \/ Settle(d) \/ Conclude(d)
    \/ Catch(d)

\* An agent acts on a handoff it has heard of.
Agent(i) ==
    /\ \E to \in AgentStatus : Transition(i, to)
    /\ UNCHANGED <<callVars, sent, faults>>

Expiry(i) ==
    /\ PassExpiry(i)
    /\ UNCHANGED <<callVars, sent, faults>>

DeliveryNext ==
    \/ \E d \in Deliverer :
         \/ \E k \in Key : Request(d, k)
         \/ \E i \in Id : Sweep(d, i)
         \/ Proceed(d) \/ LockTimeout(d) \/ Crash(d)
    \/ \E i \in Id : Agent(i) \/ Expiry(i)

DeliverySpec == DeliveryInit /\ [][DeliveryNext]_deliveryVars

\* A call that has begun keeps running: every dispatch it awaits is answered or
\* times out. Nobody is obliged to begin one.
FairDeliverySpec ==
    DeliverySpec /\ \A d \in Deliverer : WF_deliveryVars(Proceed(d))

-----------------------------------------------------------------------------
\* The type invariant of the deliverers and the store they share.
DeliveryTypeOK ==
    /\ StoreTypeOK
    /\ at \in [Deliverer -> Place]
    /\ held \in [Deliverer -> 0 .. MaxIntents]
    /\ seen \in [Deliverer -> Intent]
    /\ rung \in [Deliverer -> 1 .. Len(Ladder) + 1]
    /\ ok \in [Deliverer -> BOOLEAN]
    /\ sent \in [1 .. MaxIntents -> [Channel -> Nat]]
    /\ faults \in 0 .. MaxFaults

\* However many calls deliver one intent at once, its attempts exceed
\* maxAttemptsTotal by at most one for each call but one and one for each lock
\* timeout (hasTotalBudget is asked of a copy that may be stale).
BudgetOverrunBounded ==
    \A i \in Id :
        Len(intents[i].attempts) <= MaxTotal + Cardinality(Deliverer) - 1 + faults

\* The dispatches of intent i on channel c that are not yet recorded.
InFlight(i, c) ==
    {d \in Deliverer : at[d] \in {"record", "catch"} /\ held[d] = i /\ Via(d) = c}

\* While a handoff is open, every dispatch made for it is on record, in flight,
\* or lost to a crash: the channel caps count what was really sent.
DispatchesOnRecord ==
    \A i \in Id : StatusOf(i) \notin Terminal =>
        \A c \in Channel :
            sent[i][c] <= AttemptsOn(intents[i], c) + Cardinality(InFlight(i, c)) + faults

\* Escalation is a last resort: an intent is escalated only when its attempts
\* are used up or the rung that asks for a human has been reached.
EscalationJustified ==
    \A i \in Id :
        StatusOf(i) = "escalated" =>
            \/ Len(intents[i].attempts) >= MaxTotal
            \/ \E n \in DOMAIN intents[i].attempts :
                 intents[i].attempts[n] = "human_escalation"

\* Every call of deliverWorkflowHandoffIntent returns, whatever becomes of the
\* intent meanwhile: the ladder is climbed, never walked in circles.
DeliveryEnds ==
    \A d \in Deliverer : at[d] = "start" ~> at[d] = "idle"
=============================================================================
