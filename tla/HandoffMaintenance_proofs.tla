------------------------ MODULE HandoffMaintenance_proofs ------------------------
(***************************************************************************)
(* What deliveries and maintenance passes guarantee for every number of     *)
(* concurrent calls and passes, every ladder, cap and budget, and any       *)
(* crashes and lock timeouts. Every step leaves the store in one of two     *)
(* shapes (Kept, Grown) and moves at most one call: the lemmas say what     *)
(* each shape keeps, and then each action is shown to have it.              *)
(***************************************************************************)
EXTENDS HandoffMaintenance, HandoffStore_proofs, FiniteSetTheorems

\* Another intent has the same key.
HasTwin(i) == \E j \in Id : j # i /\ intents[j].key = intents[i].key

\* The attempts on intent i justify an escalation.
GivenUp(i) ==
    \/ Len(intents[i].attempts) >= MaxTotal
    \/ \E n \in DOMAIN intents[i].attempts : intents[i].attempts[n] = "human_escalation"

\* What holds of the store under calls and passes: an intent blamed for being a
\* duplicate was superseded and had a twin, and every escalation is justified.
StoreSide ==
    /\ StoreInv
    /\ Len(intents) <= MaxIntents
    /\ \A i \in Id : intents[i].dup => StatusOf(i) = "superseded" /\ HasTwin(i)
    /\ EscalationJustified

CallsTyped ==
    /\ at \in [Deliverer -> Place]
    /\ held \in [Deliverer -> 0 .. MaxIntents]
    /\ seen \in [Deliverer -> Intent]
    /\ rung \in [Deliverer -> 1 .. Len(Ladder) + 1]
    /\ ok \in [Deliverer -> BOOLEAN]
    /\ sent \in [1 .. MaxIntents -> [Channel -> Nat]]
    /\ faults \in 0 .. MaxFaults

\* A call under way holds an intent of the store and a copy that may miss
\* attempts but has none of its own; what it settles it has recorded, unless
\* the intent was closed by then.
GoodCall(d) ==
    /\ at[d] # "idle" =>
         /\ held[d] \in Id
         /\ Len(seen[d].attempts) <= Len(intents[held[d]].attempts)
    /\ at[d] \in {"record", "settle", "catch"} => rung[d] <= Len(Ladder)
    /\ at[d] = "settle" =>
         \/ StatusOf(held[d]) \in Terminal
         \/ \E n \in DOMAIN intents[held[d]].attempts :
              intents[held[d]].attempts[n] = Via(d)

\* Call d will record an attempt on intent i before it looks at the budget
\* again: it awaits a dispatch, or stands on the ladder with a copy that has
\* budget left.
Commits(d, i) ==
    /\ held[d] = i
    /\ at[d] \in {"record", "catch"} \/ (at[d] = "ladder" /\ HasTotalBudget(seen[d]))

Committed(i) == {d \in Deliverer : Commits(d, i)}

\* The attempts on an intent, and those that calls have committed to, stay
\* within the budget and one overrun for each other call and each lock timeout.
BudgetInv ==
    \A i \in Id :
        Len(intents[i].attempts) + Cardinality(Committed(i))
            <= MaxTotal + Cardinality(Deliverer) - 1 + faults

\* The dispatches are on record, and none was made for an intent yet to come.
RecordInv ==
    /\ DispatchesOnRecord
    /\ \A i \in (1 .. MaxIntents) \ Id, c \in Channel : sent[i][c] = 0

DeliveryInv ==
    /\ StoreSide
    /\ CallsTyped
    /\ \A d \in Deliverer : GoodCall(d)
    /\ BudgetInv
    /\ RecordInv

\* A pass has read a past of the store, and what it will supersede as a
\* duplicate has a twin.
GoodPass(j) ==
    /\ phase[j] \in Phase
    /\ snap[j] \in Seq(Intent)
    /\ Len(snap[j]) <= Len(intents)
    /\ pending[j] \in 0 .. MaxIntents
    /\ todo[j] \subseteq Id
    /\ next[j] \in 1 .. Len(snap[j]) + 1
    /\ \A i \in todo[j] : HasTwin(i)

\* Every pass has a value of each variable.
PassFunctions ==
    /\ phase = [j \in Janitor |-> phase[j]]
    /\ snap = [j \in Janitor |-> snap[j]]
    /\ pending = [j \in Janitor |-> pending[j]]
    /\ todo = [j \in Janitor |-> todo[j]]
    /\ next = [j \in Janitor |-> next[j]]

MaintenanceInv ==
    /\ DeliveryInv
    /\ PassFunctions
    /\ \A j \in Janitor : GoodPass(j)

-----------------------------------------------------------------------------
\* The shapes of a step, as the store sees it.

\* A step that moves intents along the table of transitions and records
\* attempts on open ones, supersedes as duplicates what has a twin, and
\* escalates what is given up.
Kept ==
    /\ intents' \in Seq(Intent)
    /\ Len(intents') = Len(intents)
    /\ \A i \in Id :
         /\ intents'[i].key = intents[i].key
         /\ CanTransition(StatusOf(i), intents'[i].status)
         /\ \/ intents'[i].attempts = intents[i].attempts
            \/ \E c \in Channel : intents'[i].attempts = Append(intents[i].attempts, c)
         /\ intents'[i].dup =>
              intents[i].dup \/ (intents'[i].status = "superseded" /\ HasTwin(i))
         /\ intents'[i].status = "escalated" =>
              StatusOf(i) = "escalated" \/ GivenUp(i)
    /\ failedOnce \subseteq failedOnce'
    /\ failedOnce' \subseteq Id
    /\ \A i \in Id : intents'[i].status = "failed" => i \in failedOnce'

\* Every step of the store's callers and of the clock.
StoreMove == Kept \/ (\E k \in Key : Grown(k) /\ Len(intents) < MaxIntents)

\* No attempt is recorded.
SameAttempts == \A i \in Id : intents'[i].attempts = intents[i].attempts

\* What an intent's status is made of.
LEMMA StoreParts ==
    ASSUME StoreInv
    PROVE  /\ Len(intents) \in Nat
           /\ Id = 1 .. Len(intents)
           /\ intents \in Seq(Intent)
           /\ failedOnce \subseteq Id
           /\ \A i \in Id :
                /\ intents[i] \in Intent
                /\ StatusOf(i) = intents[i].status
                /\ StatusOf(i) \in Status
                /\ intents[i].attempts \in Seq(Channel)
                /\ Len(intents[i].attempts) \in Nat
                /\ DOMAIN intents[i].attempts = 1 .. Len(intents[i].attempts)
                /\ StatusOf(i) = "failed" => i \in failedOnce
<1>1. /\ Len(intents) \in Nat /\ Id = 1 .. Len(intents)
      /\ \A i \in Id : intents[i] \in Intent
  BY IdType DEF StoreInv
<1>2. \A i \in Id : intents[i].attempts \in Seq(Channel) /\ intents[i].status \in Status
  BY <1>1 DEF Intent
<1>3. \A i \in Id : /\ Len(intents[i].attempts) \in Nat
                    /\ DOMAIN intents[i].attempts = 1 .. Len(intents[i].attempts)
  BY <1>2, LenProperties
<1> QED BY <1>1, <1>2, <1>3 DEF StoreInv, StoreTypeOK, RevivalInv, StatusOf

\* A step that leaves the store alone is a trivial move.
LEMMA StillIsKept ==
    ASSUME StoreInv, UNCHANGED storeVars
    PROVE  Kept /\ SameAttempts
BY StoreParts DEF Kept, SameAttempts, storeVars, CanTransition

\* What transitionWorkflowHandoffIntent does to the intents.
LEMMA PatchFacts ==
    ASSUME StoreInv, NEW i \in Id, NEW to \in Status, NEW s \in Session \cup {NoSession},
           NEW dup \in BOOLEAN, Patch(i, to, s, dup),
           dup => to = "superseded" /\ HasTwin(i),
           to = "escalated" => StatusOf(i) \in Terminal \/ GivenUp(i)
    PROVE  Kept /\ SameAttempts
<1>1. CASE ~CanTransition(StatusOf(i), to)
  BY <1>1, StillIsKept DEF Patch
<1>2. CASE CanTransition(StatusOf(i), to)
  <2>1. PICK old : old = intents[i]
    OBVIOUS
  <2>2. PICK t : t = [old EXCEPT !.status = to, !.session = s, !.dup = @ \/ dup]
    OBVIOUS
  <2>3. old \in Intent
    BY <2>1, StoreParts
  <2>4. /\ t \in Intent
        /\ t.key = old.key /\ t.attempts = old.attempts /\ t.status = to
        /\ t.dup = (old.dup \/ dup)
    BY <2>2, <2>3 DEF Intent
  <2>5. intents' = [intents EXCEPT ![i] = t]
    BY <1>2, <2>1, <2>2 DEF Patch, Store
  <2>6. /\ failedOnce' = failedOnce
              \cup {n \in DOMAIN intents' : intents'[n].status = "failed"}
    BY <1>2 DEF Patch, Store
  <2>7. /\ intents' \in Seq(Intent)
        /\ Len(intents') = Len(intents)
        /\ \A n \in Id : intents'[n] = IF n = i THEN t ELSE intents[n]
    BY <2>4, <2>5, StoreParts, ExceptSeq
  <2>8. DOMAIN intents' = Id
    BY <2>7, StoreParts, LenProperties
  <2>9. ASSUME NEW n \in Id
        PROVE  /\ intents'[n].key = intents[n].key
               /\ intents'[n].attempts = intents[n].attempts
               /\ CanTransition(StatusOf(n), intents'[n].status)
               /\ intents'[n].dup =>
                    intents[n].dup \/ (intents'[n].status = "superseded" /\ HasTwin(n))
               /\ intents'[n].status = "escalated" =>
                    StatusOf(n) = "escalated" \/ GivenUp(n)
    <3>1. CASE n # i
      BY <2>7, <3>1 DEF CanTransition, StatusOf
    <3>2. CASE n = i
      <4>1. intents'[n] = t /\ intents[n] = old
        BY <2>1, <2>7, <3>2
      <4>2. StatusOf(i) \in Terminal => to = StatusOf(i)
        BY <1>2, TerminalStays
      <4> QED BY <1>2, <2>4, <3>2, <4>1, <4>2 DEF StatusOf
    <3> QED BY <3>1, <3>2
  <2>10. /\ failedOnce \subseteq failedOnce' /\ failedOnce' \subseteq Id
         /\ \A n \in Id : intents'[n].status = "failed" => n \in failedOnce'
    BY <2>6, <2>8, StoreParts
  <2> QED BY <2>7, <2>9, <2>10 DEF Kept, SameAttempts
<1> QED BY <1>1, <1>2

\* The same for a transition without a patch.
LEMMA TransitionFacts ==
    ASSUME StoreInv, NEW i \in Id, NEW to \in Status, Transition(i, to),
           to = "escalated" => StatusOf(i) \in Terminal \/ GivenUp(i)
    PROVE  Kept /\ SameAttempts
<1>1. intents[i].session \in Session \cup {NoSession}
  BY StoreParts DEF Intent
<1> QED BY <1>1, PatchFacts DEF Transition

\* What appendWorkflowHandoffDeliveryAttempt does.
LEMMA AppendFacts ==
    ASSUME StoreInv, NEW i \in Id, NEW c \in Channel, AppendAttempt(i, c)
    PROVE  /\ Kept
           /\ \A n \in Id : n # i => intents'[n].attempts = intents[n].attempts
           /\ intents'[i].status = StatusOf(i)
           /\ intents'[i].attempts = IF TakesAttempts(i) THEN Append(intents[i].attempts, c)
                                     ELSE intents[i].attempts
<1>1. CASE ~TakesAttempts(i)
  BY <1>1, StillIsKept DEF AppendAttempt, storeVars, StatusOf
<1>2. CASE TakesAttempts(i)
  <2>1. PICK old : old = intents[i]
    OBVIOUS
  <2>2. PICK list : list = Append(old.attempts, c)
    OBVIOUS
  <2>3. PICK t : t = [old EXCEPT !.attempts = list]
    OBVIOUS
  <2>4. old \in Intent /\ list \in Seq(Channel)
    BY <2>1, <2>2, StoreParts, AppendProperties
  <2>5. /\ t \in Intent
        /\ t.key = old.key /\ t.attempts = list /\ t.status = old.status /\ t.dup = old.dup
    BY <2>3, <2>4 DEF Intent
  <2>6. intents' = [intents EXCEPT ![i] = t]
    BY <1>2, <2>1, <2>2, <2>3 DEF AppendAttempt, Store
  <2>7. /\ failedOnce' = failedOnce
              \cup {n \in DOMAIN intents' : intents'[n].status = "failed"}
    BY <1>2 DEF AppendAttempt, Store
  <2>8. /\ intents' \in Seq(Intent)
        /\ Len(intents') = Len(intents)
        /\ \A n \in Id : intents'[n] = IF n = i THEN t ELSE intents[n]
    BY <2>5, <2>6, StoreParts, ExceptSeq
  <2>9. DOMAIN intents' = Id
    BY <2>8, StoreParts, LenProperties
  <2>10. \A n \in Id : /\ intents'[n].key = intents[n].key
                       /\ intents'[n].status = StatusOf(n)
                       /\ intents'[n].dup = intents[n].dup
                       /\ n # i => intents'[n].attempts = intents[n].attempts
    BY <2>1, <2>5, <2>8 DEF StatusOf
  <2>11. intents'[i].attempts = Append(intents[i].attempts, c)
    BY <2>1, <2>2, <2>5, <2>8
  <2>12. /\ failedOnce \subseteq failedOnce' /\ failedOnce' \subseteq Id
         /\ \A n \in Id : intents'[n].status = "failed" => n \in failedOnce'
    BY <2>7, <2>9, StoreParts
  <2>13. Kept
    BY <2>8, <2>10, <2>11, <2>12 DEF Kept, CanTransition
  <2> QED BY <1>2, <2>10, <2>11, <2>13
<1> QED BY <1>1, <1>2

\* The clock moves nothing but late.
LEMMA ExpiryFacts ==
    ASSUME StoreInv, NEW i \in Id, PassExpiry(i)
    PROVE  Kept /\ SameAttempts
<1>1. PICK t : t = [intents[i] EXCEPT !.late = TRUE]
  OBVIOUS
<1>2. /\ t \in Intent
      /\ t.key = intents[i].key /\ t.attempts = intents[i].attempts
      /\ t.status = StatusOf(i) /\ t.dup = intents[i].dup
  <2>1. PICK old : old = intents[i]
    OBVIOUS
  <2>2. old \in Intent /\ t = [old EXCEPT !.late = TRUE]
    BY <1>1, <2>1, StoreParts
  <2>3. /\ t \in Intent
        /\ t.key = old.key /\ t.attempts = old.attempts
        /\ t.status = old.status /\ t.dup = old.dup
    BY <2>2 DEF Intent
  <2> QED BY <2>1, <2>3 DEF StatusOf
<1>3. intents' = [intents EXCEPT ![i] = t] /\ failedOnce' = failedOnce
  BY <1>1 DEF PassExpiry
<1>4. /\ intents' \in Seq(Intent)
      /\ Len(intents') = Len(intents)
      /\ \A n \in Id : intents'[n] = IF n = i THEN t ELSE intents[n]
  BY <1>2, <1>3, StoreParts, ExceptSeq
<1>5. \A n \in Id : /\ intents'[n].key = intents[n].key
                    /\ intents'[n].attempts = intents[n].attempts
                    /\ intents'[n].status = StatusOf(n)
                    /\ intents'[n].dup = intents[n].dup
  BY <1>2, <1>4 DEF StatusOf
<1> QED BY <1>3, <1>4, <1>5, StoreParts DEF Kept, SameAttempts, CanTransition

\* What upsertWorkflowHandoffIntent does, and that it answers with an intent of
\* the store.
LEMMA UpsertFacts ==
    ASSUME StoreInv, NEW k \in Key, Upsert(k)
    PROVE  /\ (Kept /\ SameAttempts) \/ (Grown(k) /\ Len(intents) < MaxIntents)
           /\ Answer(k) \in DOMAIN intents'
<1>0. BlockingFor(k) \subseteq Id /\ ActiveFor(k) \subseteq Id
  BY DEF BlockingFor, ActiveFor, SameKey
<1>1. CASE ReuseTerminal(k)
  <2> DEFINE new == [n \in Id |-> IF n \in ActiveFor(k)
                                  THEN [intents[n] EXCEPT !.status = "superseded", !.dup = TRUE]
                                  ELSE intents[n]]
  <2>1. intents' = new
    BY <1>1 DEF ReuseTerminal, Store
  <2>2. failedOnce' = failedOnce
           \cup {n \in DOMAIN intents' : intents'[n].status = "failed"}
    BY <1>1 DEF ReuseTerminal, Store
  <2>3. \A n \in Id : n \notin ActiveFor(k) => new[n] = intents[n]
    OBVIOUS
  <2>4. ASSUME NEW n \in ActiveFor(k)
        PROVE  /\ new[n] \in Intent
               /\ new[n].key = intents[n].key /\ new[n].attempts = intents[n].attempts
               /\ new[n].status = "superseded"
    <3>1. PICK old : old = intents[n]
      OBVIOUS
    <3>2. old \in Intent /\ n \in Id
      BY <1>0, <3>1, StoreParts
    <3>3. new[n] = [old EXCEPT !.status = "superseded", !.dup = TRUE]
      BY <3>1, <3>2
    <3> HIDE DEF new
    <3>4. "superseded" \in Status
      BY DEF Status, Terminal
    <3> QED BY <3>1, <3>2, <3>3, <3>4 DEF Intent
  <2>5. PICK b \in BlockingFor(k) : TRUE
    BY <1>1 DEF ReuseTerminal
  <2>6. \A n \in ActiveFor(k) : HasTwin(n) /\ StatusOf(n) \in Active
    BY <2>5 DEF ActiveFor, BlockingFor, SameKey, HasTwin, Blocking, Terminal, Active
  <2>7. new \in [1 .. Len(intents) -> Intent]
    <3>1. \A n \in Id : new[n] \in Intent
      BY <2>3, <2>4, StoreParts
    <3>2. new = [n \in Id |-> new[n]]
      OBVIOUS
    <3> HIDE DEF new
    <3> QED BY <3>1, <3>2, StoreParts
  <2> HIDE DEF new
  <2>8. intents' \in Seq(Intent) /\ Len(intents') = Len(intents) /\ DOMAIN intents' = Id
    BY <2>1, <2>7, StoreParts, SeqOfFunction
  <2>9. ASSUME NEW n \in Id
        PROVE  /\ intents'[n].key = intents[n].key
               /\ intents'[n].attempts = intents[n].attempts
               /\ CanTransition(StatusOf(n), intents'[n].status)
               /\ intents'[n].dup =>
                    intents[n].dup \/ (intents'[n].status = "superseded" /\ HasTwin(n))
               /\ intents'[n].status = "escalated" => StatusOf(n) = "escalated"
    <3>1. CASE n \in ActiveFor(k)
      BY <2>1, <2>4, <2>6, <3>1, ActiveMayBeSuperseded
    <3>2. CASE n \notin ActiveFor(k)
      BY <2>1, <2>3, <3>2 DEF CanTransition, StatusOf
    <3> QED BY <3>1, <3>2
  <2>10. /\ failedOnce \subseteq failedOnce' /\ failedOnce' \subseteq Id
         /\ \A n \in Id : intents'[n].status = "failed" => n \in failedOnce'
    BY <2>2, <2>8, StoreParts
  <2>11. Kept /\ SameAttempts
    BY <2>8, <2>9, <2>10 DEF Kept, SameAttempts
  <2>12. Answer(k) \in Id
    <3>1. Answer(k) = Min(BlockingFor(k))
      BY <2>5 DEF Answer
    <3>2. BlockingFor(k) \in SUBSET Nat /\ BlockingFor(k) # {}
      BY <1>0, <2>5, StoreParts
    <3> QED BY <1>0, <3>1, <3>2, MinIsIn
  <2> QED BY <2>8, <2>11, <2>12
<1>2. CASE ReuseActive(k)
  <2>1. ActiveFor(k) \in SUBSET Nat /\ ActiveFor(k) # {} /\ BlockingFor(k) = {}
    BY <1>0, <1>2, StoreParts DEF ReuseActive
  <2>2. Answer(k) \in Id
    BY <1>0, <2>1, MinIsIn DEF Answer
  <2>3. intents' = intents /\ UNCHANGED storeVars
    BY <1>2 DEF ReuseActive, storeVars
  <2> QED BY <2>2, <2>3, StillIsKept DEF Id
<1>3. CASE Create(k)
  <2>1. Grown(k) /\ Len(intents) < MaxIntents /\ intents' = Append(intents, NewIntent(k))
    BY <1>3 DEF Create, Grown, Store
  <2>2. Answer(k) = Len(intents) + 1
    BY <2>1 DEF Grown, NothingToReuse, Answer
  <2>3. intents' \in Seq(Intent) /\ Len(intents') = Len(intents) + 1
    BY <2>1, StoreParts, NewIntentType, AppendProperties
  <2>4. DOMAIN intents' = 1 .. Len(intents) + 1
    BY <2>3, LenProperties
  <2> QED BY <2>1, <2>2, <2>4, StoreParts
<1> QED BY <1>1, <1>2, <1>3 DEF Upsert

\* What every move of the store leaves in place.
Steady(i) ==
    /\ i \in Id'
    /\ intents'[i].key = intents[i].key
    /\ Len(intents[i].attempts) <= Len(intents'[i].attempts)
    /\ \A n \in DOMAIN intents[i].attempts :
         /\ n \in DOMAIN intents'[i].attempts
         /\ intents'[i].attempts[n] = intents[i].attempts[n]
    /\ StatusOf(i) \in Terminal => StatusOf(i)' = StatusOf(i)

LEMMA KeptSteady ==
    ASSUME StoreInv, Kept
    PROVE  /\ Id' = Id
           /\ \A i \in Id : Steady(i) /\ StatusOf(i)' = intents'[i].status
<1>1. Id' = Id
  BY StoreParts, LenProperties DEF Kept, Id
<1>2. \A i \in Id : StatusOf(i)' = intents'[i].status
  BY DEF StatusOf
<1>3. ASSUME NEW i \in Id
      PROVE  /\ Len(intents[i].attempts) <= Len(intents'[i].attempts)
             /\ \A n \in DOMAIN intents[i].attempts :
                  /\ n \in DOMAIN intents'[i].attempts
                  /\ intents'[i].attempts[n] = intents[i].attempts[n]
  <2>1. CASE intents'[i].attempts = intents[i].attempts
    BY <2>1, StoreParts
  <2>2. ASSUME NEW c \in Channel, intents'[i].attempts = Append(intents[i].attempts, c)
        PROVE  /\ Len(intents[i].attempts) <= Len(intents'[i].attempts)
               /\ \A n \in DOMAIN intents[i].attempts :
                    /\ n \in DOMAIN intents'[i].attempts
                    /\ intents'[i].attempts[n] = intents[i].attempts[n]
    <3>1. PICK list \in Seq(Channel) : list = intents[i].attempts
      BY StoreParts
    <3>2. /\ Append(list, c) \in Seq(Channel)
          /\ Len(Append(list, c)) = Len(list) + 1
          /\ \A n \in 1 .. Len(list) : Append(list, c)[n] = list[n]
      BY <3>1, AppendProperties
    <3>3. DOMAIN list = 1 .. Len(list) /\ Len(list) \in Nat
          /\ DOMAIN Append(list, c) = 1 .. Len(Append(list, c))
      BY <3>1, <3>2, LenProperties
    <3> QED BY <2>2, <3>1, <3>2, <3>3
  <2> QED BY <2>1, <2>2 DEF Kept
<1>4. \A i \in Id : StatusOf(i) \in Terminal => StatusOf(i)' = StatusOf(i)
  BY <1>2, TerminalStays DEF Kept
<1> QED BY <1>1, <1>2, <1>3, <1>4 DEF Kept, Steady

\* A justified escalation stays justified.
LEMMA GivenUpStays ==
    ASSUME StoreInv, NEW i \in Id, Steady(i), GivenUp(i),
           Len(intents'[i].attempts) \in Nat
    PROVE  GivenUp(i)'
BY StoreParts, DeliveryAssumption DEF GivenUp, Steady

LEMMA KeptSide ==
    ASSUME StoreSide, Kept
    PROVE  StoreSide'
<1>0. StoreInv
  BY DEF StoreSide
<1>1. /\ Id' = Id
      /\ \A i \in Id : Steady(i) /\ StatusOf(i)' = intents'[i].status
  BY <1>0, KeptSteady
<1>2. StoreInv'
  <2>1. StoreTypeOK'
    BY <1>1 DEF StoreTypeOK, Kept
  <2>2. \A i \in Id : StatusOf(i)' = "failed" => i \in failedOnce'
    BY <1>1 DEF Kept
  <2>3. \A i \in Id : StatusOf(i) = "expired" => StatusOf(i)' = "expired"
    BY <1>1 DEF Steady, Terminal
  <2>4. RevivalInv'
    BY <1>0, <1>1, <2>2, <2>3 DEF StoreInv, RevivalInv, Kept, StatusOf
  <2> QED BY <2>1, <2>4 DEF StoreInv
<1>3. Len(intents)' <= MaxIntents
  BY DEF StoreSide, Kept
<1>4. \A i \in Id : HasTwin(i) => HasTwin(i)'
  BY <1>1 DEF HasTwin, Kept
<1>5. \A i \in Id : intents'[i].dup => StatusOf(i)' = "superseded" /\ HasTwin(i)'
  BY <1>1, <1>4 DEF StoreSide, Kept, Steady, Terminal
<1>6. \A i \in Id : StatusOf(i)' = "escalated" => GivenUp(i)'
  <2> SUFFICES ASSUME NEW i \in Id, StatusOf(i)' = "escalated" PROVE GivenUp(i)'
    OBVIOUS
  <2>1. StatusOf(i) = "escalated" \/ GivenUp(i)
    BY <1>1 DEF Kept
  <2>2. GivenUp(i)
    BY <2>1 DEF StoreSide, EscalationJustified, GivenUp
  <2>3. Len(intents'[i].attempts) \in Nat
    <3>1. \A n \in Id' : (Len(intents[n].attempts) \in Nat)'
      BY <1>2, StoreParts
    <3> QED BY <1>1, <3>1
  <2> QED BY <1>0, <1>1, <2>2, <2>3, GivenUpStays
<1> QED BY <1>1, <1>2, <1>3, <1>5, <1>6 DEF StoreSide, EscalationJustified, GivenUp

\* A new intent has no attempts and nothing held against it.
LEMMA GrownSide ==
    ASSUME StoreSide, NEW k \in Key, Grown(k), Len(intents) < MaxIntents
    PROVE  /\ StoreSide'
           /\ Id \subseteq Id'
           /\ \A i \in Id : Steady(i) /\ intents'[i] = intents[i]
           /\ \A i \in Id' \ Id : intents'[i].attempts = <<>>
<1>0. StoreInv
  BY DEF StoreSide
<1> DEFINE n == Len(intents)
<1>1. /\ n \in Nat
      /\ Id = 1 .. n
  BY <1>0, StoreParts
<1>2. /\ intents' \in Seq(Intent)
      /\ Len(intents') = n + 1
      /\ intents'[n + 1] = NewIntent(k)
      /\ \A i \in Id : intents'[i] = intents[i]
  BY <1>0, <1>1, StoreParts, NewIntentType, AppendProperties DEF Grown
<1>3. Id' = 1 .. (n + 1)
  BY <1>2, LenProperties DEF Id
<1> HIDE DEF n
<1>4. StoreInv'
  BY <1>0, GrownPreserves
<1>5. Len(intents)' <= MaxIntents
  BY <1>1, <1>2, StoreAssumption DEF n
<1>6. \A i \in Id : StatusOf(i)' = StatusOf(i)
  BY <1>2 DEF StatusOf
<1>7. \A i \in Id' \ Id : i = n + 1
  BY <1>1, <1>3
<1>8. \A i \in Id' \ Id : /\ intents'[i].attempts = <<>> /\ ~intents'[i].dup
                          /\ StatusOf(i)' = "prepared"
  BY <1>2, <1>7 DEF NewIntent, StatusOf
<1>9. \A i \in Id : i \in Id' /\ (HasTwin(i) => HasTwin(i)')
  BY <1>1, <1>2, <1>3 DEF HasTwin
<1>10. \A i \in Id : Steady(i)
  BY <1>0, <1>2, <1>6, <1>9, StoreParts DEF Steady
<1>11. \A i \in Id' : intents'[i].dup => StatusOf(i)' = "superseded" /\ HasTwin(i)'
  BY <1>2, <1>6, <1>8, <1>9 DEF StoreSide
<1>12. EscalationJustified'
  <2> SUFFICES ASSUME NEW i \in Id', StatusOf(i)' = "escalated"
               PROVE  GivenUp(i)'
    BY DEF EscalationJustified, GivenUp
  <2>1. i \in Id
    BY <1>8
  <2>2. GivenUp(i)
    BY <1>6, <2>1 DEF StoreSide, EscalationJustified, GivenUp
  <2> QED BY <1>2, <2>1, <2>2 DEF GivenUp
<1> QED BY <1>2, <1>4, <1>5, <1>8, <1>9, <1>10, <1>11, <1>12 DEF StoreSide

\* What every move of the store keeps.
LEMMA MoveSide ==
    ASSUME StoreSide, StoreMove
    PROVE  /\ StoreSide'
           /\ Id \subseteq Id' /\ Id' \subseteq 1 .. MaxIntents
           /\ Len(intents) <= Len(intents')
           /\ \A i \in Id : Steady(i)
           /\ \A i \in Id :
                \/ intents'[i].attempts = intents[i].attempts
                \/ \E c \in Channel : intents'[i].attempts = Append(intents[i].attempts, c)
           /\ \A i \in Id' \ Id : intents'[i].attempts = <<>>
<1>0. StoreInv
  BY DEF StoreSide
<1>1. CASE Kept
  <2>1. StoreSide' /\ Id' = Id /\ \A i \in Id : Steady(i)
    BY <1>0, <1>1, KeptSide, KeptSteady
  <2>2. Id \subseteq 1 .. MaxIntents /\ Len(intents) <= Len(intents')
    BY <1>0, <1>1, StoreParts, StoreAssumption DEF StoreSide, Kept
  <2> QED BY <1>1, <2>1, <2>2 DEF Kept
<1>2. ASSUME NEW k \in Key, Grown(k), Len(intents) < MaxIntents
      PROVE  /\ StoreSide'
             /\ Id \subseteq Id' /\ Id' \subseteq 1 .. MaxIntents
             /\ Len(intents) <= Len(intents')
             /\ \A i \in Id : Steady(i)
             /\ \A i \in Id : intents'[i].attempts = intents[i].attempts
             /\ \A i \in Id' \ Id : intents'[i].attempts = <<>>
  <2>1. /\ StoreSide'
        /\ Id \subseteq Id'
        /\ \A i \in Id : Steady(i) /\ intents'[i] = intents[i]
        /\ \A i \in Id' \ Id : intents'[i].attempts = <<>>
    BY <1>2, GrownSide
  <2>2. intents' \in Seq(Intent) /\ Len(intents') <= MaxIntents
    BY <2>1 DEF StoreSide, StoreInv, StoreTypeOK
  <2>3. Len(intents') \in Nat /\ Id' = 1 .. Len(intents')
    BY <2>2, LenProperties DEF Id
  <2>4. Id' \subseteq 1 .. MaxIntents
    BY <2>2, <2>3, StoreAssumption
  <2>5. Len(intents) <= Len(intents')
    BY <1>0, <1>2, StoreParts, NewIntentType, AppendProperties DEF Grown
  <2> QED BY <2>1, <2>4, <2>5
<1> QED BY <1>1, <1>2 DEF StoreMove

-----------------------------------------------------------------------------
\* Counting: calls that are committed or in flight, and recorded attempts.

\* Calls other than d stand still.
OthersWait(d) ==
    \A e \in Deliverer \ {d} :
        /\ at'[e] = at[e] /\ held'[e] = held[e] /\ seen'[e] = seen[e]
        /\ rung'[e] = rung[e] /\ ok'[e] = ok[e]

\* A set of calls, counted.
LEMMA CallsCounted ==
    ASSUME NEW S \in SUBSET Deliverer
    PROVE  /\ IsFiniteSet(S)
           /\ Cardinality(S) \in Nat
           /\ Cardinality(Deliverer) \in Nat
           /\ Cardinality(S) <= Cardinality(Deliverer)
<1>1. IsFiniteSet(Deliverer)
  BY DeliveryAssumption
<1>2. IsFiniteSet(S) /\ Cardinality(S) <= Cardinality(Deliverer)
  BY <1>1, FS_Subset
<1> QED BY <1>1, <1>2, FS_CardinalityType

\* One set of calls against another.
LEMMA CountMoves ==
    ASSUME NEW S \in SUBSET Deliverer, NEW T \in SUBSET Deliverer, NEW d
    PROVE  /\ T \subseteq S => Cardinality(T) <= Cardinality(S)
           /\ T \subseteq S \cup {d} => Cardinality(T) <= Cardinality(S) + 1
           /\ (T \subseteq S \ {d} /\ d \in S) => Cardinality(T) + 1 <= Cardinality(S)
           /\ (S \subseteq T \cup {d}) => Cardinality(S) <= Cardinality(T) + 1
           /\ (S \subseteq T /\ d \in T \ S) => Cardinality(S) + 1 <= Cardinality(T)
<1>1. IsFiniteSet(S) /\ IsFiniteSet(T) /\ Cardinality(S) \in Nat /\ Cardinality(T) \in Nat
  BY CallsCounted
<1>2. ASSUME NEW A \in SUBSET Deliverer, NEW B \in SUBSET Deliverer, B \subseteq A \cup {d}
      PROVE  Cardinality(B) <= Cardinality(A) + 1
  <2>1. IsFiniteSet(A) /\ Cardinality(A) \in Nat /\ Cardinality(B) \in Nat
    BY CallsCounted
  <2>2. /\ IsFiniteSet(A \cup {d})
        /\ Cardinality(A \cup {d}) = IF d \in A THEN Cardinality(A) ELSE Cardinality(A) + 1
    BY <2>1, FS_AddElement
  <2>3. Cardinality(B) <= Cardinality(A \cup {d})
    BY <1>2, <2>2, FS_Subset
  <2> QED BY <2>1, <2>2, <2>3
<1>3. ASSUME NEW A \in SUBSET Deliverer, NEW B \in SUBSET Deliverer,
             B \subseteq A \ {d}, d \in A
      PROVE  Cardinality(B) + 1 <= Cardinality(A)
  <2>1. IsFiniteSet(A) /\ Cardinality(A) \in Nat /\ Cardinality(B) \in Nat
    BY CallsCounted
  <2>2. IsFiniteSet(A \ {d}) /\ Cardinality(A \ {d}) = Cardinality(A) - 1
    BY <1>3, <2>1, FS_RemoveElement
  <2>3. Cardinality(B) <= Cardinality(A \ {d})
    BY <1>3, <2>2, FS_Subset
  <2> QED BY <2>1, <2>2, <2>3
<1>4. T \subseteq S => Cardinality(T) <= Cardinality(S)
  BY <1>1, FS_Subset
<1>5. (S \subseteq T /\ d \in T \ S) => Cardinality(S) + 1 <= Cardinality(T)
  <2> SUFFICES ASSUME S \subseteq T, d \in T \ S
               PROVE  Cardinality(S) + 1 <= Cardinality(T)
    OBVIOUS
  <2>1. S \subseteq T \ {d} /\ d \in T
    OBVIOUS
  <2> QED BY <1>3, <2>1
<1> QED BY <1>2, <1>3, <1>4, <1>5

\* The budget holds after a step in which at most one call, d, moved: it has
\* recorded what it was committed to, or recorded nothing and committed to
\* something only within the budget or after a fault.
LEMMA BudgetStep ==
    ASSUME StoreSide, StoreMove, BudgetInv, NEW d, OthersWait(d),
           faults \in Nat, faults' \in Nat, faults <= faults',
           \A i \in Id :
              \/ /\ intents'[i].attempts = intents[i].attempts
                 /\ d \in Committed(i)' =>
                      \/ d \in Committed(i)
                      \/ Len(intents[i].attempts) < MaxTotal
                      \/ faults' = faults + 1
              \/ /\ \E c \in Channel : intents'[i].attempts = Append(intents[i].attempts, c)
                 /\ d \in Committed(i)
                 /\ d \in Committed(i)' => Len(intents'[i].attempts) < MaxTotal
    PROVE  BudgetInv'
<1>0. StoreInv /\ MaxTotal \in Nat \ {0}
  BY DeliveryAssumption DEF StoreSide
<1>1. /\ Id \subseteq Id'
      /\ \A i \in Id' \ Id : intents'[i].attempts = <<>>
  BY MoveSide
<1>2. SUFFICES ASSUME NEW i \in Id'
               PROVE  Len(intents'[i].attempts) + Cardinality(Committed(i)')
                        <= MaxTotal + Cardinality(Deliverer) - 1 + faults'
  BY DEF BudgetInv
<1>3. PICK S \in SUBSET Deliverer : S = Committed(i)
  BY DEF Committed
<1>4. PICK T \in SUBSET Deliverer : T = Committed(i)'
  BY DEF Committed
<1>5. T \subseteq S \cup {d} /\ S \subseteq T \cup {d}
  BY <1>3, <1>4 DEF Committed, Commits, OthersWait
<1>6. PICK n \in Nat : n = Cardinality(Deliverer)
  BY CallsCounted
<1>7. /\ Cardinality(S) \in Nat /\ Cardinality(S) <= n
      /\ Cardinality(T) \in Nat /\ Cardinality(T) <= n
  BY <1>6, CallsCounted
<1>8. CASE i \in Id' \ Id
  <2>1. Len(intents'[i].attempts) = 0
    BY <1>1, <1>8, EmptySeq
  <2> QED BY <1>0, <1>4, <1>6, <1>7, <2>1
<1>9. CASE i \in Id
  <2>1. PICK list \in Seq(Channel) : list = intents[i].attempts
    BY <1>0, <1>9, StoreParts
  <2>2. Len(list) \in Nat
    BY LenProperties
  <2>3. Len(list) + Cardinality(S) <= MaxTotal + n - 1 + faults
    BY <1>3, <1>6, <1>9, <2>1 DEF BudgetInv
  <2>4. CASE /\ intents'[i].attempts = list
             /\ d \in T => d \in S \/ Len(list) < MaxTotal \/ faults' = faults + 1
    <3>1. CASE d \in T => d \in S
      <4>1. T \subseteq S
        BY <1>5, <3>1
      <4>2. Cardinality(T) <= Cardinality(S)
        BY <4>1, CountMoves
      <4> QED BY <1>0, <1>4, <1>6, <1>7, <2>2, <2>3, <2>4, <4>2
    <3>2. CASE Len(list) < MaxTotal
      BY <1>0, <1>4, <1>6, <1>7, <2>2, <2>4, <3>2
    <3>3. CASE faults' = faults + 1
      <4>1. Cardinality(T) <= Cardinality(S) + 1
        BY <1>5, CountMoves
      <4> QED BY <1>0, <1>4, <1>6, <1>7, <2>2, <2>3, <2>4, <3>3, <4>1
    <3> QED BY <2>4, <3>1, <3>2, <3>3
  <2>5. ASSUME NEW c \in Channel, intents'[i].attempts = Append(list, c), d \in S,
               d \in T => Len(intents'[i].attempts) < MaxTotal
        PROVE  Len(intents'[i].attempts) + Cardinality(T) <= MaxTotal + n - 1 + faults'
    <3>1. Len(intents'[i].attempts) = Len(list) + 1
      BY <2>5, AppendProperties
    <3>2. CASE d \in T
      BY <1>0, <1>7, <2>2, <2>5, <3>1, <3>2
    <3>3. CASE d \notin T
      <4>1. T \subseteq S \ {d}
        BY <1>5, <3>3
      <4>2. Cardinality(T) + 1 <= Cardinality(S)
        BY <2>5, <4>1, CountMoves
      <4> QED BY <1>0, <1>7, <2>2, <2>3, <3>1, <4>2
    <3> QED BY <3>2, <3>3
  <2> QED BY <1>3, <1>4, <1>6, <1>9, <2>1, <2>4, <2>5
<1> QED BY <1>8, <1>9

\* The attempts of a list on channel c.
On(list, c) == {n \in DOMAIN list : list[n] = c}

\* One attempt more.
LEMMA OnAppend ==
    ASSUME NEW list \in Seq(Channel), NEW c \in Channel
    PROVE  Cardinality(On(Append(list, c), c)) = Cardinality(On(list, c)) + 1
<1>1. /\ Len(list) \in Nat /\ DOMAIN list = 1 .. Len(list)
      /\ Append(list, c) \in Seq(Channel)
      /\ Len(Append(list, c)) = Len(list) + 1
      /\ \A n \in 1 .. Len(list) : Append(list, c)[n] = list[n]
      /\ Append(list, c)[Len(list) + 1] = c
  BY LenProperties, AppendProperties
<1>2. DOMAIN Append(list, c) = 1 .. Len(list) + 1
  BY <1>1, LenProperties
<1>3. On(Append(list, c), c) = On(list, c) \cup {Len(list) + 1}
  BY <1>1, <1>2 DEF On
<1>4. On(list, c) \subseteq 1 .. Len(list) /\ Len(list) + 1 \notin On(list, c)
  BY <1>1 DEF On
<1>5. IsFiniteSet(1 .. Len(list))
  BY <1>1, FS_Interval
<1>6. IsFiniteSet(On(list, c))
  BY <1>4, <1>5, FS_Subset
<1> QED BY <1>3, <1>4, <1>6, FS_AddElement

\* No attempt is lost where the attempts of an intent only grow.
LEMMA OnGrows ==
    ASSUME NEW old \in Seq(Channel), NEW new \in Seq(Channel), NEW c,
           \A n \in DOMAIN old : n \in DOMAIN new /\ new[n] = old[n]
    PROVE  /\ Cardinality(On(old, c)) \in Nat
           /\ Cardinality(On(new, c)) \in Nat
           /\ Cardinality(On(old, c)) <= Cardinality(On(new, c))
<1>1. /\ Len(old) \in Nat /\ DOMAIN old = 1 .. Len(old)
      /\ Len(new) \in Nat /\ DOMAIN new = 1 .. Len(new)
  BY LenProperties
<1>2. IsFiniteSet(1 .. Len(old)) /\ IsFiniteSet(1 .. Len(new))
  BY <1>1, FS_Interval
<1>3. /\ On(old, c) \subseteq 1 .. Len(old) /\ On(new, c) \subseteq 1 .. Len(new)
      /\ On(old, c) \subseteq On(new, c)
  BY <1>1 DEF On
<1>4. IsFiniteSet(On(old, c)) /\ IsFiniteSet(On(new, c))
  BY <1>2, <1>3, FS_Subset
<1> QED BY <1>3, <1>4, FS_Subset, FS_CardinalityType

\* The dispatches stay on record after a step in which at most one call, d,
\* moved: it dispatched nothing and lost nothing from flight, or recorded what
\* it had in flight, or dispatched and has that in flight, or a fault was had.
LEMMA RecordStep ==
    ASSUME StoreSide, StoreMove, RecordInv, NEW d, OthersWait(d),
           faults \in Nat, faults' \in Nat, faults <= faults',
           sent \in [1 .. MaxIntents -> [Channel -> Nat]],
           \A i \in (1 .. MaxIntents) \ Id, c \in Channel : sent'[i][c] = 0,
           \A i \in Id, c \in Channel :
              StatusOf(i) \notin Terminal =>
                \/ /\ sent'[i][c] = sent[i][c]
                   /\ d \in InFlight(i, c) => d \in InFlight(i, c)'
                \/ /\ sent'[i][c] = sent[i][c]
                   /\ intents'[i].attempts = Append(intents[i].attempts, c)
                   /\ d \in InFlight(i, c)
                \/ /\ sent'[i][c] = sent[i][c] + 1
                   /\ d \notin InFlight(i, c) /\ d \in InFlight(i, c)'
                \/ /\ sent'[i][c] = sent[i][c]
                   /\ faults' = faults + 1
    PROVE  RecordInv'
<1>0. StoreInv
  BY DEF StoreSide
<1>1. /\ Id \subseteq Id' /\ Id' \subseteq 1 .. MaxIntents
      /\ \A i \in Id : Steady(i)
      /\ StoreSide'
  BY MoveSide
<1>2. \A i \in (1 .. MaxIntents) \ Id', c \in Channel : sent'[i][c] = 0
  BY <1>1
<1>3. ASSUME NEW i \in Id', StatusOf(i)' \notin Terminal, NEW c \in Channel
      PROVE  sent'[i][c] <= AttemptsOn(intents'[i], c)
                              + Cardinality(InFlight(i, c)') + faults'
  <2>1. PICK new \in Seq(Channel) : new = intents'[i].attempts
    <3>1. intents' \in Seq(Intent)
      BY <1>1 DEF StoreSide, StoreInv, StoreTypeOK
    <3>2. intents'[i] \in Intent
      BY <1>3, <3>1, ElementOfSeq, LenProperties DEF Id
    <3> QED BY <3>2 DEF Intent
  <2>2. PICK S \in SUBSET Deliverer : S = InFlight(i, c)
    BY DEF InFlight
  <2>3. PICK T \in SUBSET Deliverer : T = InFlight(i, c)'
    BY DEF InFlight
  <2>4. T \subseteq S \cup {d} /\ S \subseteq T \cup {d}
    BY <2>2, <2>3 DEF InFlight, OthersWait, Via
  <2>5. Cardinality(S) \in Nat /\ Cardinality(T) \in Nat
    BY CallsCounted
  <2>6. AttemptsOn(intents'[i], c) = Cardinality(On(new, c))
    BY <2>1 DEF AttemptsOn, On
  <2>7. CASE i \notin Id
    <3>1. sent'[i][c] = 0
      BY <1>1, <2>7
    <3>2. Cardinality(On(new, c)) \in Nat
      BY OnGrows
    <3> QED BY <2>3, <2>5, <2>6, <3>1, <3>2
  <2>8. CASE i \in Id
    <3>1. PICK old \in Seq(Channel) : old = intents[i].attempts
      BY <1>0, <2>8, StoreParts
    <3>2. \A n \in DOMAIN old : n \in DOMAIN new /\ new[n] = old[n]
      BY <1>1, <2>1, <2>8, <3>1 DEF Steady
    <3>3. /\ Cardinality(On(old, c)) \in Nat /\ Cardinality(On(new, c)) \in Nat
          /\ Cardinality(On(old, c)) <= Cardinality(On(new, c))
      BY <3>2, OnGrows
    <3>4. StatusOf(i) \notin Terminal
      BY <1>1, <1>3, <2>8 DEF Steady
    <3>5. AttemptsOn(intents[i], c) = Cardinality(On(old, c))
      BY <3>1 DEF AttemptsOn, On
    <3>6. sent[i][c] <= Cardinality(On(old, c)) + Cardinality(S) + faults
      BY <2>2, <2>8, <3>4, <3>5 DEF RecordInv, DispatchesOnRecord
    <3>7. sent[i][c] \in Nat
      BY <1>1, <2>8
    <3> SUFFICES sent'[i][c] <= Cardinality(On(new, c)) + Cardinality(T) + faults'
      BY <2>3, <2>6
    <3>8. CASE sent'[i][c] = sent[i][c] /\ (d \in S => d \in T)
      <4>1. S \subseteq T
        BY <2>4, <3>8
      <4>2. Cardinality(S) <= Cardinality(T)
        BY <4>1, CountMoves
      <4> QED BY <2>5, <3>3, <3>6, <3>7, <3>8, <4>2
    <3>9. CASE sent'[i][c] = sent[i][c] /\ new = Append(old, c) /\ d \in S
      <4>1. Cardinality(S) <= Cardinality(T) + 1
        BY <2>4, CountMoves
      <4>2. Cardinality(On(new, c)) = Cardinality(On(old, c)) + 1
        BY <3>9, OnAppend
      <4> QED BY <2>5, <3>3, <3>6, <3>7, <3>9, <4>1, <4>2
    <3>10. CASE sent'[i][c] = sent[i][c] + 1 /\ d \notin S /\ d \in T
      <4>1. S \subseteq T /\ d \in T \ S
        BY <2>4, <3>10
      <4>2. Cardinality(S) + 1 <= Cardinality(T)
        BY <4>1, CountMoves
      <4> QED BY <2>5, <3>3, <3>6, <3>7, <3>10, <4>2
    <3>11. CASE sent'[i][c] = sent[i][c] /\ faults' = faults + 1
      <4>1. Cardinality(S) <= Cardinality(T) + 1
        BY <2>4, CountMoves
      <4> QED BY <2>5, <3>3, <3>6, <3>7, <3>11, <4>1
    <3> QED BY <2>1, <2>2, <2>3, <2>8, <3>1, <3>4, <3>8, <3>9, <3>10, <3>11
  <2> QED BY <2>7, <2>8
<1> QED BY <1>2, <1>3 DEF RecordInv, DispatchesOnRecord

-----------------------------------------------------------------------------
\* The calls.

LEMMA NoCopyType == NoCopy \in Intent
<1>1. (CHOOSE k \in Key : TRUE) \in Key
  BY DeliveryAssumption
<1> QED BY <1>1, NewIntentType DEF NoCopy

LEMMA LadderType ==
    /\ Len(Ladder) \in Nat
    /\ DOMAIN Ladder = 1 .. Len(Ladder)
    /\ \A n \in 1 .. Len(Ladder) : Ladder[n] \in Channel
BY DeliveryAssumption, LenProperties, ElementOfSeq

\* The climb ends on a rung of the ladder or one past its end.
LEMMA NextOpenRungType ==
    ASSUME NEW copy, NEW r \in 1 .. Len(Ladder) + 1
    PROVE  NextOpenRung(copy, r) \in 1 .. Len(Ladder) + 1
<1>1. Len(Ladder) \in Nat
  BY LadderType
<1>2. OpenRungs(copy, r) \subseteq 1 .. Len(Ladder)
  BY <1>1 DEF OpenRungs
<1>3. CASE OpenRungs(copy, r) = {}
  BY <1>1, <1>3 DEF NextOpenRung
<1>4. CASE OpenRungs(copy, r) # {}
  <2>1. Min(OpenRungs(copy, r)) \in OpenRungs(copy, r)
    BY <1>1, <1>2, <1>4, MinIsIn
  <2> QED BY <1>1, <1>2, <1>4, <2>1 DEF NextOpenRung
<1> QED BY <1>3, <1>4

\* A call that stands still stays good.
LEMMA WaitingStaysGood ==
    ASSUME StoreSide, StoreMove, NEW e \in Deliverer, GoodCall(e), CallsTyped,
           at'[e] = at[e], held'[e] = held[e], seen'[e] = seen[e], rung'[e] = rung[e]
    PROVE  GoodCall(e)'
<1>0. StoreInv
  BY DEF StoreSide
<1>1. /\ Id \subseteq Id'
      /\ \A i \in Id : Steady(i)
      /\ StoreSide'
  BY MoveSide
<1>2. Via(e)' = Via(e)
  BY DEF Via
<1>3. CASE at[e] = "idle"
  BY <1>3 DEF GoodCall
<1>4. CASE at[e] # "idle"
  <2>1. held[e] \in Id /\ Steady(held[e])
    BY <1>1, <1>4 DEF GoodCall
  <2>2. /\ Len(seen[e].attempts) \in Nat /\ Len(intents[held[e]].attempts) \in Nat
    <3>1. seen[e].attempts \in Seq(Channel)
      BY DEF CallsTyped, Intent
    <3> QED BY <1>0, <2>1, <3>1, StoreParts, LenProperties
  <2>3. intents'[held[e]].attempts \in Seq(Channel)
    <3>1. intents' \in Seq(Intent)
      BY <1>1 DEF StoreSide, StoreInv, StoreTypeOK
    <3>2. intents'[held[e]] \in Intent
      BY <1>1, <2>1, <3>1, ElementOfSeq, LenProperties DEF Id
    <3> QED BY <3>2 DEF Intent
  <2>4. Len(intents'[held[e]].attempts) \in Nat
    BY <2>3, LenProperties
  <2>5. Len(seen[e].attempts) <= Len(intents'[held[e]].attempts)
    BY <1>4, <2>1, <2>2, <2>4 DEF GoodCall, Steady
  <2>6. at[e] \in {"record", "settle", "catch"} => rung[e] <= Len(Ladder)
    BY DEF GoodCall
  <2>7. at[e] = "settle" =>
          \/ StatusOf(held[e]) \in Terminal
          \/ \E n \in DOMAIN intents[held[e]].attempts :
               intents[held[e]].attempts[n] = Via(e)
    BY DEF GoodCall
  <2>8. at[e] = "settle" =>
          \/ StatusOf(held[e])' \in Terminal
          \/ \E n \in DOMAIN intents'[held[e]].attempts :
               intents'[held[e]].attempts[n] = Via(e)
    BY <2>1, <2>7 DEF Steady
  <2>9. /\ held[e] \in Id'
        /\ StatusOf(held[e])' = intents'[held[e]].status
    BY <1>1, <2>1 DEF StatusOf
  <2> QED BY <1>2, <2>5, <2>6, <2>8, <2>9 DEF GoodCall, StatusOf
<1> QED BY <1>3, <1>4

\* The invariant, call by call.
LEMMA CallMoves ==
    ASSUME DeliveryInv, StoreMove, NEW d, OthersWait(d), CallsTyped',
           d \in Deliverer => GoodCall(d)', BudgetInv', RecordInv'
    PROVE  DeliveryInv'
<1>1. StoreSide'
  BY MoveSide DEF DeliveryInv
<1>2. ASSUME NEW e \in Deliverer PROVE GoodCall(e)'
  BY WaitingStaysGood DEF DeliveryInv, OthersWait
<1> QED BY <1>1, <1>2 DEF DeliveryInv

\* A step of somebody else: an agent, the clock, a pass.
LEMMA CallsStandStill ==
    ASSUME DeliveryInv, Kept, SameAttempts, UNCHANGED <<callVars, sent, faults>>
    PROVE  DeliveryInv'
<1>1. /\ at' = at /\ held' = held /\ seen' = seen /\ rung' = rung /\ ok' = ok
      /\ sent' = sent /\ faults' = faults
  BY DEF callVars
<1>2. StoreMove /\ StoreSide /\ StoreInv
  BY DEF StoreMove, DeliveryInv, StoreSide
<1>3. PICK d : d = 0
  OBVIOUS
<1>4. OthersWait(d)
  BY <1>1 DEF OthersWait
<1>5. CallsTyped' /\ faults \in Nat
  BY <1>1, DeliveryAssumption DEF DeliveryInv, CallsTyped
<1>6. \A e \in Deliverer : GoodCall(e)'
  BY <1>1, <1>2, WaitingStaysGood DEF DeliveryInv
<1>7. Id' = Id
  BY <1>2, KeptSteady
<1>8. \A i : Committed(i)' = Committed(i)
  BY <1>1 DEF Committed, Commits
<1>9. \A i, c : InFlight(i, c)' = InFlight(i, c)
  BY <1>1 DEF InFlight, Via
<1>10. BudgetInv'
  BY <1>1, <1>2, <1>4, <1>5, <1>8, BudgetStep DEF DeliveryInv, SameAttempts
<1>11. \A i \in (1 .. MaxIntents) \ Id, c \in Channel : sent'[i][c] = 0
  BY <1>1 DEF DeliveryInv, RecordInv
<1>12. RecordInv'
  BY <1>1, <1>2, <1>4, <1>5, <1>9, <1>11, RecordStep DEF DeliveryInv, CallsTyped
<1> QED BY <1>2, <1>4, <1>5, <1>6, <1>10, <1>12, CallMoves

\* The types the invariant gives a step of call d.
LEMMA CallTypes ==
    ASSUME DeliveryInv, NEW d \in Deliverer
    PROVE  /\ StoreSide /\ StoreInv /\ CallsTyped /\ GoodCall(d)
           /\ faults \in Nat /\ MaxFaults \in Nat /\ MaxIntents \in Nat
           /\ seen[d] \in Intent /\ seen[d].status \in Status
           /\ Len(seen[d].attempts) \in Nat
           /\ rung[d] \in 1 .. Len(Ladder) + 1
           /\ at[d] # "idle" =>
                /\ held[d] \in Id
                /\ Len(intents[held[d]].attempts) \in Nat
<1>1. StoreSide /\ StoreInv /\ CallsTyped /\ GoodCall(d)
  BY DEF DeliveryInv, StoreSide
<1>2. seen[d] \in Intent
  BY <1>1 DEF CallsTyped
<1>3. seen[d].status \in Status /\ seen[d].attempts \in Seq(Channel)
  BY <1>2 DEF Intent
<1>4. at[d] # "idle" => held[d] \in Id
  BY <1>1 DEF GoodCall
<1>5. at[d] # "idle" => Len(intents[held[d]].attempts) \in Nat
  BY <1>1, <1>4, StoreParts
<1> QED BY <1>1, <1>2, <1>3, <1>4, <1>5, LenProperties, DeliveryAssumption, StoreAssumption
        DEF CallsTyped

\* A call that sees no budget left is right about it, however stale its copy.
LEMMA StaleButRight ==
    ASSUME DeliveryInv, NEW d \in Deliverer, at[d] # "idle", ~HasTotalBudget(seen[d])
    PROVE  GivenUp(held[d])
<1>1. /\ Len(seen[d].attempts) <= Len(intents[held[d]].attempts)
      /\ Len(seen[d].attempts) \in Nat /\ Len(intents[held[d]].attempts) \in Nat
  BY CallTypes DEF GoodCall
<1> QED BY <1>1, DeliveryAssumption DEF HasTotalBudget, GivenUp

\* A call returns, in good order or by a crash.
LEMMA Returns ==
    ASSUME DeliveryInv, NEW d \in Deliverer, Kept, SameAttempts, Return(d), sent' = sent,
           \/ faults' = faults /\ at[d] \notin {"record", "catch"}
           \/ faults' = faults + 1 /\ faults < MaxFaults
    PROVE  DeliveryInv'
<1>1. /\ StoreSide /\ StoreInv /\ CallsTyped /\ StoreMove
      /\ faults \in Nat /\ faults' \in Nat /\ faults <= faults'
  BY CallTypes DEF StoreMove
<1>2. OthersWait(d)
  BY DEF OthersWait, Return, Goto
<1>3. CallsTyped'
  <2>1. faults' \in 0 .. MaxFaults /\ 1 \in 1 .. Len(Ladder) + 1 /\ 0 \in 0 .. MaxIntents
    BY <1>1, CallTypes, LadderType DEF CallsTyped
  <2> QED BY <1>1, <2>1, NoCopyType DEF CallsTyped, Return, Goto, Place
<1>4. at'[d] = "idle"
  BY <1>1 DEF CallsTyped, Return, Goto
<1>5. GoodCall(d)'
  BY <1>4 DEF GoodCall
<1>6. \A i : d \notin Committed(i)'
  BY <1>4 DEF Committed, Commits
<1>7. \A i, c : d \notin InFlight(i, c)'
  BY <1>4 DEF InFlight
<1>8. Id' = Id
  BY <1>1, KeptSteady
<1>9. BudgetInv'
  BY <1>1, <1>2, <1>6, BudgetStep DEF DeliveryInv, SameAttempts
<1>10. RecordInv'
  <2>1. \A i \in (1 .. MaxIntents) \ Id, c \in Channel : sent'[i][c] = 0
    BY DEF DeliveryInv, RecordInv
  <2>2. \A i, c : at[d] \notin {"record", "catch"} => d \notin InFlight(i, c)
    BY DEF InFlight
  <2> QED BY <1>1, <1>2, <1>7, <2>1, <2>2, RecordStep DEF DeliveryInv, CallsTyped
<1> QED BY <1>1, <1>2, <1>3, <1>5, <1>9, <1>10, CallMoves

\* A call that has no dispatch to record moves on without recording anything.
LEMMA MovesOn ==
    ASSUME DeliveryInv, NEW d \in Deliverer, StoreMove, SameAttempts, OthersWait(d),
           CallsTyped', GoodCall(d)', sent' = sent, faults' = faults,
           \A i, c : d \in InFlight(i, c) => d \in InFlight(i, c)',
           \A i \in Id : d \in Committed(i)' =>
              d \in Committed(i) \/ Len(intents[i].attempts) < MaxTotal
    PROVE  DeliveryInv'
<1>1. /\ StoreSide /\ StoreInv /\ CallsTyped /\ faults \in Nat
  BY CallTypes
<1>2. BudgetInv'
  BY <1>1, BudgetStep DEF DeliveryInv, SameAttempts
<1>3. \A i \in (1 .. MaxIntents) \ Id, c \in Channel : sent'[i][c] = 0
  BY DEF DeliveryInv, RecordInv
<1>4. \A i \in Id, c \in Channel :
        sent'[i][c] = sent[i][c] /\ (d \in InFlight(i, c) => d \in InFlight(i, c)')
  OBVIOUS
<1>5. RecordInv /\ sent \in [1 .. MaxIntents -> [Channel -> Nat]] /\ faults <= faults'
  BY <1>1 DEF DeliveryInv, CallsTyped
<1>6. RecordInv'
  BY <1>1, <1>3, <1>4, <1>5, RecordStep
<1> QED BY <1>1, <1>2, <1>6, CallMoves

\* A call starts with a copy of an intent as this step leaves it.
LEMMA TakesUp ==
    ASSUME DeliveryInv, NEW d \in Deliverer, StoreMove, SameAttempts,
           NEW i \in Id', TakeUp(d, i)
    PROVE  DeliveryInv'
<1>1. /\ StoreSide /\ StoreInv /\ CallsTyped
      /\ sent' = sent /\ faults' = faults
  BY CallTypes DEF TakeUp
<1>2. OthersWait(d)
  BY DEF OthersWait, TakeUp, Goto
<1>3. Id' \subseteq 1 .. MaxIntents /\ StoreSide'
  BY <1>1, MoveSide
<1>4. intents'[i] \in Intent
  <2>1. intents' \in Seq(Intent)
    BY <1>3 DEF StoreSide, StoreInv, StoreTypeOK
  <2> QED BY <2>1, ElementOfSeq, LenProperties DEF Id
<1>5. Len(intents'[i].attempts) \in Nat
  BY <1>4, LenProperties DEF Intent
<1>6. /\ at'[d] = "start" /\ held'[d] = i /\ seen'[d] = intents'[i]
      /\ at[d] = "idle"
  BY <1>1 DEF TakeUp, Goto, CallsTyped
<1>7. CallsTyped'
  <2>1. i \in 0 .. MaxIntents
    BY <1>3, CallTypes
  <2> QED BY <1>1, <1>4, <2>1 DEF CallsTyped, TakeUp, Goto, Place
<1>8. GoodCall(d)'
  BY <1>5, <1>6 DEF GoodCall
<1>9. \A n : d \notin Committed(n)'
  BY <1>6 DEF Committed, Commits
<1>10. \A n, c : d \notin InFlight(n, c)
  BY <1>6 DEF InFlight
<1> QED BY <1>1, <1>2, <1>7, <1>8, <1>9, <1>10, MovesOn

\* A call records an attempt on the channel of its rung, looks at the intent
\* again and goes on to place p.
LEMMA Records ==
    ASSUME DeliveryInv, NEW d \in Deliverer, rung[d] <= Len(Ladder),
           at[d] \in {"record", "catch"} \/ (at[d] = "ladder" /\ HasTotalBudget(seen[d])),
           AppendAttempt(held[d], Via(d)), Refresh(d),
           NEW p \in {"ladder", "settle"}, Goto(d, p),
           NEW r \in 1 .. Len(Ladder) + 1, rung' = [rung EXCEPT ![d] = r],
           p = "settle" => r = rung[d],
           UNCHANGED <<held, ok, sent, faults>>
    PROVE  DeliveryInv' /\ StoreMove
<1>1. /\ StoreSide /\ StoreInv /\ CallsTyped /\ GoodCall(d)
      /\ faults \in Nat /\ faults' = faults /\ sent' = sent
      /\ rung[d] \in 1 .. Len(Ladder) + 1
  BY CallTypes
<1>2. PICK h : h = held[d]
  OBVIOUS
<1>3. PICK c : c = Via(d)
  OBVIOUS
<1>4. h \in Id /\ c \in Channel
  BY <1>1, <1>2, <1>3, LadderType DEF GoodCall, Via
<1>5. /\ Kept
      /\ \A n \in Id : n # h => intents'[n].attempts = intents[n].attempts
      /\ intents'[h].status = StatusOf(h)
      /\ intents'[h].attempts = IF TakesAttempts(h) THEN Append(intents[h].attempts, c)
                                ELSE intents[h].attempts
  BY <1>1, <1>2, <1>3, <1>4, AppendFacts
<1>6. Id' = Id /\ StoreMove
  BY <1>1, <1>5, KeptSteady DEF StoreMove
<1>7. intents'[h] \in Intent
  BY <1>4, <1>5, <1>6, ElementOfSeq, LenProperties DEF Kept, Id
<1>8. OthersWait(d)
  BY DEF OthersWait, Goto, Refresh
<1>9. CallsTyped'
  BY <1>1, <1>2, <1>7 DEF CallsTyped, Goto, Refresh, Place
<1>10. /\ at'[d] = p /\ held'[d] = h /\ seen'[d] = intents'[h] /\ rung'[d] = r
  BY <1>1, <1>2 DEF CallsTyped, Goto, Refresh
<1>11. Len(intents'[h].attempts) \in Nat
  BY <1>7, LenProperties DEF Intent
<1>12. GoodCall(d)'
  <2>1. ASSUME p = "settle"
        PROVE  \/ StatusOf(h)' \in Terminal
               \/ \E n \in DOMAIN intents'[h].attempts : intents'[h].attempts[n] = Via(d)'
    <3>1. Via(d)' = c
      BY <1>3, <1>10, <2>1 DEF Via
    <3>2. CASE TakesAttempts(h)
      <4>1. PICK list \in Seq(Channel) : list = intents[h].attempts
        BY <1>1, <1>4, StoreParts
      <4>2. intents'[h].attempts = Append(list, c)
        BY <1>5, <3>2, <4>1
      <4>3. /\ Append(list, c) \in Seq(Channel) /\ Len(Append(list, c)) = Len(list) + 1
            /\ Append(list, c)[Len(list) + 1] = c /\ Len(list) \in Nat
        BY <1>4, <4>1, AppendProperties, LenProperties
      <4>4. Len(list) + 1 \in DOMAIN Append(list, c)
        BY <4>3, LenProperties
      <4> QED BY <3>1, <4>2, <4>3, <4>4
    <3>3. CASE ~TakesAttempts(h)
      BY <1>5, <3>3 DEF TakesAttempts, StatusOf
    <3> QED BY <3>2, <3>3
  <2> QED BY <1>4, <1>6, <1>10, <1>11, <2>1 DEF GoodCall
<1>13. BudgetInv'
  <2>1. ASSUME NEW i \in Id, i # h
        PROVE  intents'[i].attempts = intents[i].attempts /\ d \notin Committed(i)'
    BY <1>5, <1>10, <2>1 DEF Committed, Commits
  <2>2. d \in Committed(h)
    BY <1>2 DEF Committed, Commits
  <2>3. d \in Committed(h)' => Len(intents'[h].attempts) < MaxTotal
    BY <1>10 DEF Committed, Commits, HasTotalBudget
  <2>4. ASSUME NEW i \in Id
        PROVE  \/ /\ intents'[i].attempts = intents[i].attempts
                  /\ d \in Committed(i)' => d \in Committed(i)
               \/ /\ \E ch \in Channel : intents'[i].attempts = Append(intents[i].attempts, ch)
                  /\ d \in Committed(i)
                  /\ d \in Committed(i)' => Len(intents'[i].attempts) < MaxTotal
    BY <1>4, <1>5, <2>1, <2>2, <2>3
  <2> QED BY <1>1, <1>6, <1>8, <2>4, BudgetStep DEF DeliveryInv
<1>14. RecordInv'
  <2>1. \A i \in (1 .. MaxIntents) \ Id, ch \in Channel : sent'[i][ch] = 0
    BY <1>1 DEF DeliveryInv, RecordInv
  <2>2. ASSUME NEW i \in Id, NEW ch \in Channel, StatusOf(i) \notin Terminal
        PROVE  \/ d \notin InFlight(i, ch)
               \/ intents'[i].attempts = Append(intents[i].attempts, ch) /\ d \in InFlight(i, ch)
    BY <1>2, <1>3, <1>5, <2>2 DEF InFlight, TakesAttempts
  <2>3. \A i \in Id, ch \in Channel : StatusOf(i) \notin Terminal =>
          /\ sent'[i][ch] = sent[i][ch]
          /\ \/ d \in InFlight(i, ch) => d \in InFlight(i, ch)'
             \/ intents'[i].attempts = Append(intents[i].attempts, ch) /\ d \in InFlight(i, ch)
    BY <1>1, <2>2
  <2>4. /\ RecordInv /\ faults' \in Nat /\ faults <= faults'
        /\ sent \in [1 .. MaxIntents -> [Channel -> Nat]]
    BY <1>1 DEF DeliveryInv, CallsTyped
  <2> QED BY <1>1, <1>6, <1>8, <2>1, <2>3, <2>4, RecordStep
<1> QED BY <1>6, <1>8, <1>9, <1>12, <1>13, <1>14, CallMoves

\* The steps of a call, one by one. First those that end it.
LEMMA SkipTerminalStep ==
    ASSUME DeliveryInv, NEW d \in Deliverer, SkipTerminal(d)
    PROVE  DeliveryInv' /\ StoreMove
<1>1. Kept /\ SameAttempts
  BY CallTypes, StillIsKept DEF SkipTerminal
<1> QED BY <1>1, Returns DEF SkipTerminal, StoreMove

LEMMA EscalateExhaustedStep ==
    ASSUME DeliveryInv, NEW d \in Deliverer, EscalateExhausted(d)
    PROVE  DeliveryInv' /\ StoreMove
<1>1. held[d] \in Id /\ StoreInv
  BY CallTypes DEF EscalateExhausted
<1>2. GivenUp(held[d])
  BY StaleButRight DEF EscalateExhausted
<1>3. "escalated" \in Status
  BY DEF Status, Terminal
<1>4. Kept /\ SameAttempts
  BY <1>1, <1>2, <1>3, TransitionFacts DEF EscalateExhausted
<1> QED BY <1>4, Returns DEF EscalateExhausted, StoreMove

LEMMA GateRefusesStep ==
    ASSUME DeliveryInv, NEW d \in Deliverer, GateRefuses(d)
    PROVE  DeliveryInv' /\ StoreMove
<1>1. held[d] \in Id /\ StoreInv
  BY CallTypes DEF GateRefuses
<1>2. "superseded" \in Status
  BY DEF Status, Terminal
<1>3. Kept /\ SameAttempts
  BY <1>1, <1>2, TransitionFacts DEF GateRefuses
<1> QED BY <1>3, Returns DEF GateRefuses, StoreMove

LEMMA ConcludeStep ==
    ASSUME DeliveryInv, NEW d \in Deliverer, Conclude(d)
    PROVE  DeliveryInv' /\ StoreMove
<1>1. held[d] \in Id /\ StoreInv
  BY CallTypes DEF Conclude
<1>2. /\ ConcludedAs(seen[d]) \in Status
      /\ ConcludedAs(seen[d]) = "escalated" => ~HasTotalBudget(seen[d])
  BY DEF ConcludedAs, Status, Terminal
<1>3. ConcludedAs(seen[d]) = "escalated" => GivenUp(held[d])
  BY <1>2, StaleButRight DEF Conclude
<1>4. Kept /\ SameAttempts
  BY <1>1, <1>2, <1>3, TransitionFacts DEF Conclude
<1> QED BY <1>4, Returns DEF Conclude, StoreMove

\* The human rung settles an intent as escalated: its attempt is on record.
LEMMA SettleStep ==
    ASSUME DeliveryInv, NEW d \in Deliverer, Settle(d)
    PROVE  DeliveryInv' /\ StoreMove
<1>1. held[d] \in Id /\ StoreInv /\ GoodCall(d) /\ seen[d] \in Intent
  BY CallTypes DEF Settle
<1>2. SettledAs(Via(d)) \in Status
  BY DEF SettledAs, Status, Terminal, Active
<1>3. SettledAs(Via(d)) = "escalated" => Via(d) = "human_escalation"
  BY DEF SettledAs
<1>4. SettledAs(Via(d)) = "escalated" => StatusOf(held[d]) \in Terminal \/ GivenUp(held[d])
  BY <1>1, <1>3 DEF Settle, GoodCall, GivenUp
<1>5. intents[held[d]] \in Intent
  BY <1>1, StoreParts
<1>6. PICK s \in SettledSessions(d) : Patch(held[d], SettledAs(Via(d)), s, FALSE)
  BY DEF Settle
<1>7. s \in Session \cup {NoSession}
  BY <1>1, <1>5, <1>6 DEF SettledSessions, Intent
<1>8. PICK dup \in BOOLEAN : dup = FALSE
  OBVIOUS
<1>9. Kept /\ SameAttempts
  BY <1>1, <1>2, <1>4, <1>6, <1>7, <1>8, PatchFacts
<1> QED BY <1>9, Returns DEF Settle, StoreMove

LEMMA CrashStep ==
    ASSUME DeliveryInv, NEW d \in Deliverer, Crash(d)
    PROVE  DeliveryInv' /\ StoreMove
<1>1. Kept /\ SameAttempts
  BY CallTypes, StillIsKept DEF Crash
<1> QED BY <1>1, Returns DEF Crash, StoreMove

\* Then those that begin it.
LEMMA RequestStep ==
    ASSUME DeliveryInv, NEW d \in Deliverer, NEW k \in Key, Request(d, k)
    PROVE  DeliveryInv' /\ StoreMove
<1>1. StoreInv /\ StoreSide
  BY CallTypes
<1>2. /\ (Kept /\ SameAttempts) \/ (Grown(k) /\ Len(intents) < MaxIntents)
      /\ Answer(k) \in Id'
  BY <1>1, UpsertFacts DEF Request, Id
<1>3. StoreMove /\ SameAttempts
  <2>1. (Grown(k) /\ Len(intents) < MaxIntents) => SameAttempts
    BY <1>1, GrownSide DEF SameAttempts
  <2> QED BY <1>2, <2>1 DEF StoreMove
<1>4. PICK i \in Id' : i = Answer(k)
  BY <1>2
<1>5. TakeUp(d, i)
  BY <1>4 DEF Request
<1> QED BY <1>3, <1>4, <1>5, TakesUp

LEMMA SweepStep ==
    ASSUME DeliveryInv, NEW d \in Deliverer, NEW i \in Id, Sweep(d, i)
    PROVE  DeliveryInv' /\ StoreMove
<1>1. Kept /\ SameAttempts
  BY CallTypes, StillIsKept DEF Sweep
<1>2. i \in Id'
  BY CallTypes, <1>1, KeptSteady
<1> QED BY <1>1, <1>2, TakesUp DEF Sweep, StoreMove

LEMMA BeginStep ==
    ASSUME DeliveryInv, NEW d \in Deliverer, Begin(d)
    PROVE  DeliveryInv' /\ StoreMove
<1>1. /\ held[d] \in Id /\ StoreInv /\ CallsTyped
      /\ seen[d].status \in Status /\ seen[d].status \notin Terminal
  BY CallTypes DEF Begin
<1>2. /\ BeginTarget(seen[d].status) \in Status
      /\ BeginTarget(seen[d].status) # "escalated"
  BY <1>1 DEF BeginTarget, Status, Active, Terminal
<1>3. Kept /\ SameAttempts
  BY <1>1, <1>2, TransitionFacts DEF Begin
<1>4. CASE Return(d)
  BY <1>3, <1>4, Returns DEF Begin, StoreMove
<1>5. CASE /\ Goto(d, "ladder")
           /\ Refresh(d)
           /\ Climb(d, intents'[held[d]], 1)
           /\ UNCHANGED <<held, ok, sent, faults>>
  <2>1. Id' = Id
    BY <1>1, <1>3, KeptSteady
  <2>2. intents'[held[d]] \in Intent
    BY <1>1, <1>3, <2>1, ElementOfSeq, LenProperties DEF Kept, Id
  <2>3. NextOpenRung(intents'[held[d]], 1) \in 1 .. Len(Ladder) + 1
    BY NextOpenRungType, LadderType
  <2>4. CallsTyped'
    BY <1>1, <1>5, <2>2, <2>3 DEF CallsTyped, Goto, Refresh, Climb, Place
  <2>5. at'[d] = "ladder" /\ held'[d] = held[d] /\ seen'[d] = intents'[held[d]]
    BY <1>1, <1>5 DEF CallsTyped, Goto, Refresh
  <2>6. Len(intents'[held[d]].attempts) \in Nat
    BY <2>2, LenProperties DEF Intent
  <2>7. GoodCall(d)'
    BY <1>1, <2>1, <2>5, <2>6 DEF GoodCall
  <2>8. OthersWait(d)
    BY <1>5 DEF OthersWait, Goto, Refresh, Climb
  <2>9. \A i, c : d \notin InFlight(i, c)
    BY DEF InFlight, Begin
  <2>10. \A i \in Id : d \in Committed(i)' => Len(intents[i].attempts) < MaxTotal
    BY <1>3, <2>5 DEF Committed, Commits, HasTotalBudget, SameAttempts
  <2>11. StoreMove
    BY <1>3 DEF StoreMove
  <2> QED BY <1>3, <1>5, <2>4, <2>7, <2>8, <2>9, <2>10, <2>11, MovesOn
<1> QED BY <1>4, <1>5 DEF Begin

\* The steps on the ladder.
LEMMA ClimbsTo ==
    ASSUME DeliveryInv, NEW d \in Deliverer, rung[d] <= Len(Ladder), NEW copy
    PROVE  NextOpenRung(copy, After(rung[d])) \in 1 .. Len(Ladder) + 1
<1>1. After(rung[d]) \in 1 .. Len(Ladder) + 1
  BY CallTypes, LadderType DEF After
<1> QED BY <1>1, NextOpenRungType

LEMMA SkipRungStep ==
    ASSUME DeliveryInv, NEW d \in Deliverer, SkipRung(d)
    PROVE  DeliveryInv' /\ StoreMove
<1>1. rung[d] <= Len(Ladder) /\ at[d] = "ladder" /\ HasTotalBudget(seen[d])
  BY DEF SkipRung, OnRung
<1>2. PICK r \in 1 .. Len(Ladder) + 1 : r = NextOpenRung(intents'[held[d]], After(rung[d]))
  BY <1>1, ClimbsTo
<1>3. at \in [Deliverer -> Place]
  BY CallTypes DEF CallsTyped
<1>4. Goto(d, "ladder") /\ rung' = [rung EXCEPT ![d] = r]
  BY <1>1, <1>2, <1>3 DEF SkipRung, Climb, Goto
<1>5. PICK p \in {"ladder", "settle"} : p = "ladder"
  OBVIOUS
<1> QED BY <1>1, <1>4, <1>5, Records DEF SkipRung

LEMMA RecordActionStep ==
    ASSUME DeliveryInv, NEW d \in Deliverer, Record(d)
    PROVE  DeliveryInv' /\ StoreMove
<1>1. rung[d] <= Len(Ladder) /\ rung[d] \in 1 .. Len(Ladder) + 1
  BY CallTypes DEF Record, GoodCall
<1>2. CASE ok[d]
  <2>1. rung' = [rung EXCEPT ![d] = rung[d]] /\ Goto(d, "settle")
    BY <1>2, CallTypes DEF Record, CallsTyped
  <2>2. PICK p \in {"ladder", "settle"} : p = "settle"
    OBVIOUS
  <2> QED BY <1>1, <2>1, <2>2, Records DEF Record
<1>3. CASE ~ok[d]
  <2>1. PICK r \in 1 .. Len(Ladder) + 1 : r = NextOpenRung(intents'[held[d]], After(rung[d]))
    BY <1>1, ClimbsTo
  <2>2. rung' = [rung EXCEPT ![d] = r] /\ Goto(d, "ladder")
    BY <1>3, <2>1 DEF Record, NextRung, Climb
  <2>3. PICK p \in {"ladder", "settle"} : p = "ladder"
    OBVIOUS
  <2> QED BY <1>1, <2>2, <2>3, Records DEF Record
<1> QED BY <1>2, <1>3

LEMMA CatchStep ==
    ASSUME DeliveryInv, NEW d \in Deliverer, Catch(d)
    PROVE  DeliveryInv' /\ StoreMove
<1>1. rung[d] <= Len(Ladder)
  BY CallTypes DEF Catch, GoodCall
<1>2. PICK r \in 1 .. Len(Ladder) + 1 : r = NextOpenRung(intents'[held[d]], After(rung[d]))
  BY <1>1, ClimbsTo
<1>3. rung' = [rung EXCEPT ![d] = r] /\ Goto(d, "ladder")
  BY <1>2 DEF Catch, NextRung, Climb
<1>4. PICK p \in {"ladder", "settle"} : p = "ladder"
  OBVIOUS
<1> QED BY <1>1, <1>3, <1>4, Records DEF Catch

LEMMA DispatchStep ==
    ASSUME DeliveryInv, NEW d \in Deliverer, Dispatch(d)
    PROVE  DeliveryInv' /\ StoreMove
<1>1. /\ StoreSide /\ StoreInv /\ CallsTyped /\ GoodCall(d) /\ faults \in Nat
      /\ at[d] = "ladder" /\ HasTotalBudget(seen[d]) /\ rung[d] <= Len(Ladder)
      /\ held[d] \in Id
      /\ rung[d] \in 1 .. Len(Ladder) + 1
  BY CallTypes DEF Dispatch, OnRung
<1>2. UNCHANGED storeVars /\ held' = held /\ seen' = seen /\ rung' = rung /\ faults' = faults
  BY DEF Dispatch
<1>3. Kept /\ SameAttempts /\ StoreMove
  BY <1>1, <1>2, StillIsKept DEF StoreMove
<1>4. Id' = Id /\ \A i \in Id : Steady(i)
  BY <1>1, <1>3, KeptSteady
<1>5. PICK h \in Id : h = held[d]
  BY <1>1
<1>6. PICK c \in Channel : c = Via(d)
  BY <1>1, LadderType DEF Via
<1>7. Id \subseteq 1 .. MaxIntents
  BY <1>1, <1>3, <1>4, MoveSide
<1>8. PICK row : row = [sent[h] EXCEPT ![c] = @ + 1]
  OBVIOUS
<1>9. /\ sent[h] \in [Channel -> Nat]
      /\ row \in [Channel -> Nat]
      /\ row[c] = sent[h][c] + 1
      /\ \A ch \in Channel : ch # c => row[ch] = sent[h][ch]
  BY <1>1, <1>5, <1>6, <1>7, <1>8 DEF CallsTyped
<1>10. sent' = sent \/ sent' = [sent EXCEPT ![h] = row]
  BY <1>5, <1>6, <1>8 DEF Dispatch
<1>11. at' = [at EXCEPT ![d] = "record"] /\ at'[d] = "record"
  BY <1>1 DEF Dispatch, Goto, CallsTyped
<1>12. \E b \in BOOLEAN : ok' = [ok EXCEPT ![d] = b]
  <2>1. CASE Via(d) = "human_escalation"
    BY <2>1 DEF Dispatch
  <2>2. CASE Via(d) # "human_escalation"
    BY <2>2 DEF Dispatch
  <2> QED BY <2>1, <2>2
<1>13. CallsTyped'
  <2>1. sent' \in [1 .. MaxIntents -> [Channel -> Nat]]
    BY <1>1, <1>9, <1>10 DEF CallsTyped
  <2>2. at' \in [Deliverer -> Place] /\ ok' \in [Deliverer -> BOOLEAN]
    BY <1>1, <1>11, <1>12 DEF CallsTyped, Place
  <2> QED BY <1>1, <1>2, <2>1, <2>2 DEF CallsTyped
<1>14. OthersWait(d)
  BY <1>2, <1>11, <1>12 DEF OthersWait
<1>15. GoodCall(d)'
  <2>1. Len(seen[d].attempts) <= Len(intents[h].attempts)
    BY <1>1, <1>5 DEF GoodCall
  <2>2. intents'[h].attempts = intents[h].attempts
    BY <1>3 DEF SameAttempts
  <2> QED BY <1>1, <1>2, <1>4, <1>5, <1>11, <2>1, <2>2 DEF GoodCall
<1>16. BudgetInv'
  <2>1. \A i : d \in Committed(i)' => d \in Committed(i)
    BY <1>1, <1>2 DEF Committed, Commits
  <2> QED BY <1>1, <1>2, <1>3, <1>14, <2>1, BudgetStep DEF DeliveryInv, SameAttempts
<1>17. RecordInv'
  <2>1. \A i, ch : d \notin InFlight(i, ch)
    BY <1>1 DEF InFlight
  <2>2. \A i \in (1 .. MaxIntents) \ Id, ch \in Channel : sent'[i][ch] = 0
    BY <1>1, <1>5, <1>10 DEF DeliveryInv, RecordInv, CallsTyped
  <2>3. d \in InFlight(h, c)'
    BY <1>2, <1>5, <1>6, <1>11 DEF InFlight, Via
  <2>4. ASSUME NEW i \in Id, NEW ch \in Channel
        PROVE  \/ /\ sent'[i][ch] = sent[i][ch]
                  /\ d \in InFlight(i, ch) => d \in InFlight(i, ch)'
               \/ /\ sent'[i][ch] = sent[i][ch] + 1
                  /\ d \notin InFlight(i, ch) /\ d \in InFlight(i, ch)'
    <3>1. sent'[i][ch] = sent[i][ch] \/ (i = h /\ ch = c /\ sent'[i][ch] = sent[i][ch] + 1)
      BY <1>1, <1>7, <1>9, <1>10 DEF CallsTyped
    <3> QED BY <2>1, <2>3, <3>1
  <2>5. RecordInv /\ faults' \in Nat /\ faults <= faults'
        /\ sent \in [1 .. MaxIntents -> [Channel -> Nat]]
    BY <1>1, <1>2 DEF DeliveryInv, CallsTyped
  <2> QED BY <1>1, <1>3, <1>14, <2>2, <2>4, <2>5, RecordStep
<1> QED BY <1>3, <1>13, <1>14, <1>15, <1>16, <1>17, CallMoves

\* A lock timeout after the dispatch is a fault: the call may be about to record
\* an attempt that it has recorded before.
LEMMA LockTimeoutStep ==
    ASSUME DeliveryInv, NEW d \in Deliverer, LockTimeout(d)
    PROVE  DeliveryInv' /\ StoreMove
<1>1. /\ StoreSide /\ StoreInv /\ CallsTyped /\ GoodCall(d)
      /\ faults \in Nat /\ MaxFaults \in Nat /\ faults < MaxFaults /\ faults' = faults + 1
      /\ at[d] \in {"record", "settle"} /\ at[d] # "idle"
      /\ held[d] \in Id
  BY CallTypes DEF LockTimeout
<1>2. /\ UNCHANGED storeVars /\ held' = held /\ seen' = seen /\ rung' = rung /\ ok' = ok
      /\ sent' = sent
  BY DEF LockTimeout
<1>3. Kept /\ SameAttempts /\ StoreMove
  BY <1>1, <1>2, StillIsKept DEF StoreMove
<1>4. Id' = Id
  BY <1>1, <1>3, KeptSteady
<1>5. at' = [at EXCEPT ![d] = "catch"] /\ at'[d] = "catch"
  BY <1>1 DEF LockTimeout, Goto, CallsTyped
<1>6. CallsTyped'
  <2>1. faults' \in 0 .. MaxFaults /\ at' \in [Deliverer -> Place]
    BY <1>1, <1>5 DEF CallsTyped, Place
  <2> QED BY <1>1, <1>2, <2>1 DEF CallsTyped
<1>7. OthersWait(d)
  BY <1>2, <1>5 DEF OthersWait
<1>8. GoodCall(d)'
  <2>1. Len(seen[d].attempts) <= Len(intents[held[d]].attempts) /\ rung[d] <= Len(Ladder)
    BY <1>1 DEF GoodCall
  <2>2. intents'[held[d]].attempts = intents[held[d]].attempts
    BY <1>1, <1>3 DEF SameAttempts
  <2> QED BY <1>1, <1>2, <1>4, <1>5, <2>1, <2>2 DEF GoodCall
<1>9. BudgetInv'
  BY <1>1, <1>3, <1>7, BudgetStep DEF DeliveryInv, SameAttempts
<1>10. RecordInv'
  <2>1. \A i \in (1 .. MaxIntents) \ Id, ch \in Channel : sent'[i][ch] = 0
    BY <1>2 DEF DeliveryInv, RecordInv
  <2>2. \A i \in Id, ch \in Channel : sent'[i][ch] = sent[i][ch] /\ faults' = faults + 1
    BY <1>1, <1>2
  <2>3. RecordInv /\ faults' \in Nat /\ faults <= faults'
        /\ sent \in [1 .. MaxIntents -> [Channel -> Nat]]
    BY <1>1 DEF DeliveryInv, CallsTyped
  <2> QED BY <1>1, <1>3, <1>7, <2>1, <2>2, <2>3, RecordStep
<1> QED BY <1>3, <1>6, <1>7, <1>8, <1>9, <1>10, CallMoves

\* The steps of the others.
LEMMA AgentStep ==
    ASSUME DeliveryInv, NEW i \in Id, Agent(i)
    PROVE  DeliveryInv' /\ StoreMove
<1>1. PICK to \in AgentStatus : Transition(i, to)
  BY DEF Agent
<1>2. to \in Status /\ to # "escalated"
  BY DeliveryAssumption DEF Status, Active, Terminal
<1>3. Kept /\ SameAttempts
  BY <1>1, <1>2, TransitionFacts DEF DeliveryInv, StoreSide
<1> QED BY <1>3, CallsStandStill DEF Agent, StoreMove

LEMMA ExpiryStep ==
    ASSUME DeliveryInv, NEW i \in Id, Expiry(i)
    PROVE  DeliveryInv' /\ StoreMove
<1>1. Kept /\ SameAttempts
  BY ExpiryFacts DEF Expiry, DeliveryInv, StoreSide
<1> QED BY <1>1, CallsStandStill DEF Expiry, StoreMove

LEMMA DeliveryInit_Inv == ASSUME DeliveryInit PROVE DeliveryInv
<1>1. intents = <<>> /\ Id = {} /\ Len(intents) = 0
  BY EmptySeq DEF DeliveryInit, StoreInit, Id
<1>2. StoreSide
  BY <1>1, StoreInit_Inv, StoreAssumption DEF DeliveryInit, StoreSide, EscalationJustified
<1>3. CallsTyped
  BY NoCopyType, LadderType, StoreAssumption, DeliveryAssumption
     DEF DeliveryInit, CallsTyped, Place
<1>4. \A d \in Deliverer : GoodCall(d)
  BY DEF DeliveryInit, GoodCall
<1>5. BudgetInv /\ DispatchesOnRecord
  BY <1>1 DEF BudgetInv, DispatchesOnRecord
<1>6. RecordInv
  BY <1>5 DEF RecordInv, DeliveryInit
<1> QED BY <1>2, <1>3, <1>4, <1>5, <1>6 DEF DeliveryInv

LEMMA DeliveryNext_Inv ==
    ASSUME DeliveryInv, DeliveryNext
    PROVE  DeliveryInv' /\ StoreMove
<1>1. ASSUME NEW d \in Deliverer, NEW k \in Key, Request(d, k) PROVE DeliveryInv' /\ StoreMove
  BY <1>1, RequestStep
<1>2. ASSUME NEW d \in Deliverer, NEW i \in Id, Sweep(d, i) PROVE DeliveryInv' /\ StoreMove
  BY <1>2, SweepStep
<1>3. ASSUME NEW d \in Deliverer, Proceed(d) PROVE DeliveryInv' /\ StoreMove
  BY <1>3, SkipTerminalStep, EscalateExhaustedStep, GateRefusesStep, BeginStep, SkipRungStep,
     DispatchStep, RecordActionStep, SettleStep, ConcludeStep, CatchStep DEF Proceed
<1>4. ASSUME NEW d \in Deliverer, LockTimeout(d) \/ Crash(d) PROVE DeliveryInv' /\ StoreMove
  BY <1>4, LockTimeoutStep, CrashStep
<1>5. ASSUME NEW i \in Id, Agent(i) \/ Expiry(i) PROVE DeliveryInv' /\ StoreMove
  BY <1>5, AgentStep, ExpiryStep
<1> QED BY <1>1, <1>2, <1>3, <1>4, <1>5 DEF DeliveryNext

LEMMA DeliveryStutter ==
    ASSUME DeliveryInv, UNCHANGED deliveryVars
    PROVE  DeliveryInv'
<1>1. Kept /\ SameAttempts /\ UNCHANGED <<callVars, sent, faults>>
  BY StillIsKept DEF deliveryVars, DeliveryInv, StoreSide
<1> QED BY <1>1, CallsStandStill

LEMMA DeliveryInvariant == DeliverySpec => []DeliveryInv
BY DeliveryInit_Inv, DeliveryNext_Inv, DeliveryStutter, PTL DEF DeliverySpec

\* What the invariant says of the budget: the calls that are committed only help.
LEMMA BudgetFromInv == ASSUME DeliveryInv PROVE BudgetOverrunBounded
<1> SUFFICES ASSUME NEW i \in Id
             PROVE  Len(intents[i].attempts) <= MaxTotal + Cardinality(Deliverer) - 1 + faults
  BY DEF BudgetOverrunBounded
<1>1. PICK S \in SUBSET Deliverer : S = Committed(i)
  BY DEF Committed
<1>2. Cardinality(S) \in Nat /\ Cardinality(Deliverer) \in Nat
  BY CallsCounted
<1>3. Len(intents[i].attempts) \in Nat /\ faults \in Nat
  BY StoreParts, DeliveryAssumption DEF DeliveryInv, StoreSide, CallsTyped
<1>4. Len(intents[i].attempts) + Cardinality(S) <= MaxTotal + Cardinality(Deliverer) - 1 + faults
  BY <1>1 DEF DeliveryInv, BudgetInv
<1> QED BY <1>2, <1>3, <1>4, DeliveryAssumption

-----------------------------------------------------------------------------
\* Deliverers and store keep their types, for every ladder and every number of
\* concurrent calls of deliverWorkflowHandoffIntent.
THEOREM DeliveryTypeCorrect == DeliverySpec => []DeliveryTypeOK
<1>1. DeliveryInv => DeliveryTypeOK
  BY DEF DeliveryInv, StoreSide, StoreInv, CallsTyped, DeliveryTypeOK
<1> QED BY <1>1, DeliveryInvariant, PTL

\* hasTotalBudget is asked of a copy, and still the attempts on an intent exceed
\* maxAttemptsTotal by no more than one for each other call that delivers it and
\* one for each lock timeout.
THEOREM BudgetOverrunBoundedHolds == DeliverySpec => []BudgetOverrunBounded
BY DeliveryInvariant, BudgetFromInv, PTL

\* Every dispatch made for an open handoff is on record, in flight or lost to a
\* fault: recordAttempt is reached from every outcome of a dispatch.
THEOREM DispatchesOnRecordHolds == DeliverySpec => []DispatchesOnRecord
<1>1. DeliveryInv => DispatchesOnRecord
  BY DEF DeliveryInv, RecordInv
<1> QED BY <1>1, DeliveryInvariant, PTL

\* An intent is escalated only when its attempts are used up or its attempt on
\* the human rung is on record, however stale the copy that decided it.
THEOREM EscalationJustifiedHolds == DeliverySpec => []EscalationJustified
<1>1. DeliveryInv => EscalationJustified
  BY DEF DeliveryInv, StoreSide
<1> QED BY <1>1, DeliveryInvariant, PTL

-----------------------------------------------------------------------------
\* The maintenance passes.

\* Every intent that is not spared has a twin: the one that is, or one that has
\* closed the key.
LEMMA DuplicatesHaveTwins ==
    ASSUME StoreInv, NEW p
    PROVE  \A i \in Duplicates(intents, p) : i \in Id /\ HasTwin(i)
<1> SUFFICES ASSUME NEW k \in Key,
                    NEW i \in SnapActive(intents, k) \ Spared(intents, p, k)
             PROVE  i \in Id /\ HasTwin(i)
  BY DEF Duplicates
<1>1. /\ i \in Id /\ intents[i].key = k /\ intents[i].status \in Active
      /\ SnapActive(intents, k) \subseteq Id
      /\ \A n \in SnapActive(intents, k) : intents[n].key = k
  BY DEF SnapActive, SnapGroup, Id
<1>2. CASE SnapBlocking(intents, k) # {}
  <2>1. PICK b \in SnapBlocking(intents, k) : TRUE
    BY <1>2
  <2>2. b \in Id /\ intents[b].key = k /\ intents[b].status \in Blocking
    BY DEF SnapBlocking, SnapGroup, Id
  <2>3. b # i
    BY <1>1, <2>2 DEF Blocking, Terminal, Active
  <2> QED BY <1>1, <2>2, <2>3 DEF HasTwin
<1>3. CASE SnapBlocking(intents, k) = {}
  <2>1. PICK x \in SnapActive(intents, k) : Spared(intents, p, k) = {x}
    <3>1. CASE p \in SnapActive(intents, k)
      BY <1>3, <3>1 DEF Spared
    <3>2. CASE p \notin SnapActive(intents, k)
      <4>1. SnapActive(intents, k) \in SUBSET Nat /\ SnapActive(intents, k) # {}
        BY <1>1, StoreParts
      <4>2. Min(SnapActive(intents, k)) \in SnapActive(intents, k)
        BY <4>1, MinIsIn
      <4> QED BY <1>3, <3>2, <4>1, <4>2 DEF Spared
    <3> QED BY <3>1, <3>2
  <2> QED BY <1>1, <2>1 DEF HasTwin
<1> QED BY <1>2, <1>3

\* The second loop asks only for statuses that are no escalation.
LEMMA VerdictTypes ==
    ASSUME NEW t, NEW i, NEW p, NEW to \in Verdicts(t, i, p)
    PROVE  to \in Status /\ to # "escalated"
BY DEF Verdicts, Overdue, Status, Terminal, Active

\* What a pass has read of the store stays true of it.
LEMMA PassWaits ==
    ASSUME DeliveryInv, StoreMove, NEW j, GoodPass(j), phase'[j] = phase[j],
           snap'[j] = snap[j], pending'[j] = pending[j], todo'[j] = todo[j],
           next'[j] = next[j]
    PROVE  GoodPass(j)'
<1>1. /\ StoreSide /\ Id \subseteq Id' /\ \A i \in Id : Steady(i)
      /\ Len(intents) <= Len(intents') /\ StoreSide' /\ StoreInv
  BY MoveSide DEF DeliveryInv, StoreSide
<1>2. Len(intents) \in Nat /\ Len(intents') \in Nat /\ Len(snap[j]) \in Nat
  BY <1>1, StoreParts, LenProperties DEF StoreSide, StoreInv, StoreTypeOK, GoodPass
<1>3. Len(snap[j]) <= Len(intents')
  BY <1>1, <1>2 DEF GoodPass
<1>4. \A i \in Id : HasTwin(i) => HasTwin(i)'
  BY <1>1 DEF HasTwin, Steady
<1> QED BY <1>1, <1>3, <1>4 DEF GoodPass

\* Passes other than j stand still.
OtherPassesWait(j) ==
    \A e \in Janitor \ {j} :
        /\ phase'[e] = phase[e] /\ snap'[e] = snap[e] /\ pending'[e] = pending[e]
        /\ todo'[e] = todo[e] /\ next'[e] = next[e]

\* The invariant, pass by pass.
LEMMA PassMoves ==
    ASSUME MaintenanceInv, DeliveryInv', StoreMove, PassFunctions', NEW j,
           OtherPassesWait(j), j \in Janitor => GoodPass(j)'
    PROVE  MaintenanceInv'
<1>1. ASSUME NEW e \in Janitor PROVE GoodPass(e)'
  BY PassWaits DEF MaintenanceInv, OtherPassesWait
<1> QED BY <1>1 DEF MaintenanceInv

\* A step that changes no call, and the store by a transition at most.
LEMMA StoreOnly ==
    ASSUME DeliveryInv, Kept, SameAttempts, UNCHANGED <<callVars, sent, faults>>
    PROVE  /\ DeliveryInv' /\ StoreMove /\ Id' = Id /\ Len(intents') = Len(intents)
           /\ \A i \in Id : HasTwin(i) => HasTwin(i)'
<1>1. StoreInv
  BY DEF DeliveryInv, StoreSide
<1>2. Id' = Id
  BY <1>1, KeptSteady
<1> QED BY <1>2, CallsStandStill DEF StoreMove, Kept, HasTwin

LEMMA StartPassStep ==
    ASSUME MaintenanceInv, NEW j \in Janitor, StartPass(j)
    PROVE  MaintenanceInv'
<1>1. /\ DeliveryInv /\ StoreInv /\ PassFunctions /\ GoodPass(j)
  BY DEF MaintenanceInv, DeliveryInv, StoreSide
<1>2. Kept /\ SameAttempts /\ UNCHANGED <<callVars, sent, faults>> /\ intents' = intents
  BY <1>1, StillIsKept DEF StartPass, deliveryVars, storeVars
<1>3. /\ DeliveryInv' /\ StoreMove /\ Id' = Id
      /\ \A i \in Id : HasTwin(i) => HasTwin(i)'
  BY <1>1, <1>2, StoreOnly
<1>4. PICK p \in {0} \cup Id : /\ pending' = [pending EXCEPT ![j] = p]
                               /\ todo' = [todo EXCEPT ![j] = Duplicates(intents, p)]
  BY DEF StartPass
<1>5. PICK dups : dups = Duplicates(intents, p)
  OBVIOUS
<1>6. dups \subseteq Id /\ \A i \in dups : HasTwin(i)
  BY <1>1, <1>5, DuplicatesHaveTwins
<1>7. /\ phase' = [phase EXCEPT ![j] = "dedupe"]
      /\ snap' = [snap EXCEPT ![j] = intents]
      /\ pending' = [pending EXCEPT ![j] = p]
      /\ todo' = [todo EXCEPT ![j] = dups]
      /\ next' = [next EXCEPT ![j] = 1]
  BY <1>4, <1>5 DEF StartPass
<1>8. PassFunctions' /\ OtherPassesWait(j)
  BY <1>1, <1>7 DEF PassFunctions, OtherPassesWait
<1>9. /\ phase'[j] = "dedupe" /\ snap'[j] = intents /\ pending'[j] = p /\ todo'[j] = dups
      /\ next'[j] = 1
  BY <1>1, <1>7 DEF PassFunctions
<1>10. /\ Len(intents) \in Nat /\ intents \in Seq(Intent) /\ p \in 0 .. MaxIntents
  <2>1. Len(intents) <= MaxIntents /\ Len(intents) \in Nat /\ Id = 1 .. Len(intents)
    BY <1>1, StoreParts DEF DeliveryInv, StoreSide
  <2> QED BY <1>1, <2>1, StoreParts, StoreAssumption
<1>11. GoodPass(j)'
  BY <1>2, <1>3, <1>6, <1>9, <1>10 DEF GoodPass, Phase
<1> QED BY <1>3, <1>8, <1>11, PassMoves

LEMMA SupersedeDuplicateStep ==
    ASSUME MaintenanceInv, NEW j \in Janitor, SupersedeDuplicate(j)
    PROVE  MaintenanceInv'
<1>1. /\ DeliveryInv /\ StoreInv /\ PassFunctions /\ GoodPass(j)
  BY DEF MaintenanceInv, DeliveryInv, StoreSide
<1>2. PICK i : i = Min(todo[j])
  OBVIOUS
<1>3. i \in todo[j] /\ i \in Id /\ HasTwin(i)
  <2>1. todo[j] \in SUBSET Nat /\ todo[j] # {}
    BY <1>1, StoreParts DEF GoodPass, SupersedeDuplicate
  <2>2. i \in todo[j]
    BY <1>2, <2>1, MinIsIn
  <2> QED BY <1>1, <2>2 DEF GoodPass
<1>4. /\ Patch(i, "superseded", intents[i].session, TRUE)
      /\ todo' = [todo EXCEPT ![j] = @ \ {i}]
      /\ UNCHANGED <<callVars, sent, faults, phase, snap, pending, next>>
  BY <1>2 DEF SupersedeDuplicate
<1>5. Kept /\ SameAttempts
  <2>1. PICK dup \in BOOLEAN : dup = TRUE
    OBVIOUS
  <2>2. PICK s \in Session \cup {NoSession} : s = intents[i].session
    BY <1>1, <1>3, StoreParts DEF Intent
  <2>3. PICK to \in Status : to = "superseded"
    BY DEF Status, Terminal
  <2> QED BY <1>1, <1>3, <1>4, <2>1, <2>2, <2>3, PatchFacts
<1>6. /\ DeliveryInv' /\ StoreMove /\ Id' = Id /\ Len(intents') = Len(intents)
      /\ \A n \in Id : HasTwin(n) => HasTwin(n)'
  BY <1>1, <1>4, <1>5, StoreOnly
<1>7. PassFunctions' /\ OtherPassesWait(j)
  BY <1>1, <1>4 DEF PassFunctions, OtherPassesWait
<1>8. /\ phase'[j] = phase[j] /\ snap'[j] = snap[j] /\ pending'[j] = pending[j]
      /\ todo'[j] = todo[j] \ {i} /\ next'[j] = next[j]
  BY <1>1, <1>4 DEF PassFunctions
<1>9. GoodPass(j)'
  BY <1>1, <1>6, <1>8 DEF GoodPass
<1> QED BY <1>6, <1>7, <1>9, PassMoves

LEMMA DedupeDoneStep ==
    ASSUME MaintenanceInv, NEW j \in Janitor, DedupeDone(j)
    PROVE  MaintenanceInv'
<1>1. /\ DeliveryInv /\ StoreInv /\ PassFunctions /\ GoodPass(j)
  BY DEF MaintenanceInv, DeliveryInv, StoreSide
<1>2. Kept /\ SameAttempts /\ UNCHANGED <<callVars, sent, faults>>
  BY <1>1, StillIsKept DEF DedupeDone, deliveryVars
<1>3. /\ DeliveryInv' /\ StoreMove /\ Id' = Id /\ Len(intents') = Len(intents)
      /\ \A n \in Id : HasTwin(n) => HasTwin(n)'
  BY <1>1, <1>2, StoreOnly
<1>4. PassFunctions' /\ OtherPassesWait(j)
  BY <1>1 DEF DedupeDone, PassFunctions, OtherPassesWait
<1>5. /\ phase'[j] = "verdict" /\ snap'[j] = snap[j] /\ pending'[j] = pending[j]
      /\ todo'[j] = todo[j] /\ next'[j] = next[j]
  BY <1>1 DEF DedupeDone, PassFunctions
<1>6. GoodPass(j)'
  BY <1>1, <1>3, <1>5 DEF GoodPass, Phase
<1> QED BY <1>3, <1>4, <1>6, PassMoves

LEMMA JudgeStep ==
    ASSUME MaintenanceInv, NEW j \in Janitor, Judge(j)
    PROVE  MaintenanceInv'
<1>1. /\ DeliveryInv /\ StoreInv /\ PassFunctions /\ GoodPass(j)
  BY DEF MaintenanceInv, DeliveryInv, StoreSide
<1>2. PICK i : i = next[j]
  OBVIOUS
<1>3. /\ i \in Id /\ i + 1 \in 1 .. Len(snap[j]) + 1
  <2>1. Len(snap[j]) \in Nat /\ Len(intents) \in Nat /\ Id = 1 .. Len(intents)
    BY <1>1, StoreParts, LenProperties DEF GoodPass
  <2> QED BY <1>1, <1>2, <2>1 DEF Judge, GoodPass
<1>4. Kept /\ SameAttempts
  <2>1. CASE UNCHANGED storeVars
    BY <1>1, <2>1, StillIsKept
  <2>2. ASSUME NEW to \in Verdicts(snap[j][i], i, pending[j]), Transition(i, to)
        PROVE  Kept /\ SameAttempts
    BY <1>1, <1>3, <2>2, VerdictTypes, TransitionFacts
  <2> QED BY <1>2, <2>1, <2>2 DEF Judge
<1>5. /\ UNCHANGED <<callVars, sent, faults, phase, snap, pending, todo>>
      /\ next' = [next EXCEPT ![j] = @ + 1]
  BY DEF Judge
<1>6. /\ DeliveryInv' /\ StoreMove /\ Id' = Id /\ Len(intents') = Len(intents)
      /\ \A n \in Id : HasTwin(n) => HasTwin(n)'
  BY <1>1, <1>4, <1>5, StoreOnly
<1>7. PassFunctions' /\ OtherPassesWait(j)
  BY <1>1, <1>5 DEF PassFunctions, OtherPassesWait
<1>8. /\ phase'[j] = phase[j] /\ snap'[j] = snap[j] /\ pending'[j] = pending[j]
      /\ todo'[j] = todo[j] /\ next'[j] = i + 1
  BY <1>1, <1>2, <1>5 DEF PassFunctions
<1>9. GoodPass(j)'
  BY <1>1, <1>3, <1>6, <1>8 DEF GoodPass
<1> QED BY <1>6, <1>7, <1>9, PassMoves

LEMMA EndPassStep ==
    ASSUME MaintenanceInv, NEW j \in Janitor, EndPass(j)
    PROVE  MaintenanceInv'
<1>1. /\ DeliveryInv /\ StoreInv /\ PassFunctions /\ GoodPass(j)
  BY DEF MaintenanceInv, DeliveryInv, StoreSide
<1>2. Kept /\ SameAttempts /\ UNCHANGED <<callVars, sent, faults>>
  BY <1>1, StillIsKept DEF EndPass, deliveryVars
<1>3. /\ DeliveryInv' /\ StoreMove /\ Id' = Id /\ Len(intents') = Len(intents)
      /\ \A n \in Id : HasTwin(n) => HasTwin(n)'
  BY <1>1, <1>2, StoreOnly
<1>4. PassFunctions' /\ OtherPassesWait(j)
  BY <1>1 DEF EndPass, PassFunctions, OtherPassesWait
<1>5. /\ phase'[j] = "idle" /\ snap'[j] = <<>> /\ pending'[j] = 0
      /\ todo'[j] = todo[j] /\ next'[j] = 1
  BY <1>1 DEF EndPass, PassFunctions
<1>6. <<>> \in Seq(Intent) /\ Len(<<>>) = 0 /\ Len(intents) \in Nat
  BY <1>1, StoreParts, EmptySeq
<1>7. GoodPass(j)'
  BY <1>1, <1>3, <1>5, <1>6, StoreAssumption DEF GoodPass, Phase
<1> QED BY <1>3, <1>4, <1>7, PassMoves

LEMMA MaintenanceInit_Inv == ASSUME MaintenanceInit PROVE MaintenanceInv
<1>1. DeliveryInv /\ Len(intents) = 0
  BY DeliveryInit_Inv, EmptySeq DEF MaintenanceInit, DeliveryInit, StoreInit
<1>2. PassFunctions
  BY DEF MaintenanceInit, PassFunctions
<1>3. <<>> \in Seq(Intent) /\ Len(<<>>) = 0
  BY EmptySeq
<1>4. \A j \in Janitor : GoodPass(j)
  BY <1>1, <1>3, StoreAssumption DEF MaintenanceInit, GoodPass, Phase
<1> QED BY <1>1, <1>2, <1>4 DEF MaintenanceInv

LEMMA MaintenanceStep_Inv ==
    ASSUME MaintenanceInv, [MaintenanceNext]_maintenanceVars
    PROVE  MaintenanceInv'
<1>1. ASSUME DeliveryInv', StoreMove, UNCHANGED passVars
      PROVE  MaintenanceInv'
  <2>1. PassFunctions' /\ \A j : OtherPassesWait(j)
    BY <1>1 DEF MaintenanceInv, PassFunctions, OtherPassesWait, passVars
  <2>2. \A j \in Janitor : GoodPass(j)'
    BY <1>1, PassWaits DEF MaintenanceInv, passVars
  <2> QED BY <1>1, <2>1, <2>2, PassMoves
<1>2. CASE DeliveryNext /\ UNCHANGED passVars
  BY <1>1, <1>2, DeliveryNext_Inv DEF MaintenanceInv
<1>3. CASE UNCHANGED maintenanceVars
  <2>1. DeliveryInv' /\ StoreMove
    BY <1>3, DeliveryStutter, StillIsKept
       DEF maintenanceVars, deliveryVars, MaintenanceInv, DeliveryInv, StoreSide, StoreMove
  <2> QED BY <1>1, <1>3, <2>1 DEF maintenanceVars
<1>4. ASSUME NEW j \in Janitor, Pass(j) PROVE MaintenanceInv'
  BY <1>4, StartPassStep, SupersedeDuplicateStep, DedupeDoneStep, JudgeStep, EndPassStep DEF Pass
<1> QED BY <1>2, <1>3, <1>4 DEF MaintenanceNext

LEMMA MaintenanceInvariant == MaintenanceSpec => []MaintenanceInv
BY MaintenanceInit_Inv, MaintenanceStep_Inv, PTL DEF MaintenanceSpec

-----------------------------------------------------------------------------
\* The passes keep their types beside any number of calls and of one another.
THEOREM MaintenanceTypeCorrect == MaintenanceSpec => []MaintenanceTypeOK
<1>1. ASSUME MaintenanceInv PROVE MaintenanceTypeOK
  <2>1. DeliveryTypeOK
    BY <1>1 DEF MaintenanceInv, DeliveryInv, StoreSide, StoreInv, CallsTyped, DeliveryTypeOK
  <2>2. Len(intents) \in Nat /\ Len(intents) <= MaxIntents /\ Id = 1 .. Len(intents)
    BY <1>1, StoreParts DEF MaintenanceInv, DeliveryInv, StoreSide
  <2>3. \A j \in Janitor : /\ todo[j] \subseteq 1 .. MaxIntents
                           /\ next[j] \in 1 .. MaxIntents + 1
    <3> SUFFICES ASSUME NEW j \in Janitor
                 PROVE  todo[j] \subseteq 1 .. MaxIntents /\ next[j] \in 1 .. MaxIntents + 1
      OBVIOUS
    <3>1. GoodPass(j) /\ Len(snap[j]) \in Nat
      BY <1>1, LenProperties DEF MaintenanceInv, GoodPass
    <3> QED BY <2>2, <3>1, StoreAssumption DEF GoodPass
  <2> QED BY <1>1, <2>1, <2>3 DEF MaintenanceInv, PassFunctions, GoodPass, MaintenanceTypeOK
<1> QED BY <1>1, MaintenanceInvariant, PTL

\* A key never loses its last handoff to deduplication except through a failed
\* one that was revived, however stale the snapshots the passes decide from: of
\* two intents of a key, the older has failed or expired before the younger came.
THEOREM TwinLostOnlyByRevivalHolds == MaintenanceSpec => []TwinLostOnlyByRevival
<1>1. ASSUME MaintenanceInv, NEW i \in Id, intents[i].dup
      PROVE  \E j \in SameKey(intents[i].key) : ~intents[j].dup \/ j \in failedOnce
  <2>1. StoreInv /\ StatusOf(i) = "superseded" /\ HasTwin(i)
    BY <1>1 DEF MaintenanceInv, DeliveryInv, StoreSide
  <2>2. \A n \in Id : intents[n].dup => StatusOf(n) = "superseded"
    BY <1>1 DEF MaintenanceInv, DeliveryInv, StoreSide
  <2>3. PICK j \in Id : j # i /\ intents[j].key = intents[i].key
    BY <2>1 DEF HasTwin
  <2>4. i \in SameKey(intents[i].key) /\ j \in SameKey(intents[i].key)
    BY <1>1, <2>3 DEF SameKey
  <2>5. CASE i < j
    BY <2>1, <2>3, <2>4, <2>5 DEF StoreInv, RevivalInv
  <2>6. CASE j < i
    <3>1. j \in failedOnce \/ StatusOf(j) = "expired"
      BY <2>1, <2>3, <2>6 DEF StoreInv, RevivalInv
    <3> QED BY <2>2, <2>4, <3>1
  <2>7. i < j \/ j < i
    BY <2>1, <2>3, StoreParts
  <2> QED BY <2>5, <2>6, <2>7
<1>2. MaintenanceInv => TwinLostOnlyByRevival
  BY <1>1 DEF TwinLostOnlyByRevival
<1> QED BY <1>2, MaintenanceInvariant, PTL

\* What the calls guarantee among themselves they guarantee beside the passes:
\* no pass breaks idempotency, the budget, the record or the escalations.
THEOREM PassesBreakNothing ==
    MaintenanceSpec => [](/\ UniqueUnlessRevived
                          /\ BudgetOverrunBounded
                          /\ DispatchesOnRecord
                          /\ EscalationJustified)
<1>1. ASSUME MaintenanceInv PROVE UniqueUnlessRevived
  <2>1. RevivalInv
    BY <1>1 DEF MaintenanceInv, DeliveryInv, StoreSide, StoreInv
  <2>2. \A i \in Id : StatusOf(i) \in Active => StatusOf(i) # "expired"
    BY DEF Active
  <2> QED BY <2>1, <2>2 DEF UniqueUnlessRevived, RevivalInv
<1>2. MaintenanceInv => BudgetOverrunBounded
  BY BudgetFromInv DEF MaintenanceInv
<1>3. MaintenanceInv => DispatchesOnRecord /\ EscalationJustified
  BY DEF MaintenanceInv, DeliveryInv, RecordInv, StoreSide
<1> QED BY <1>1, <1>2, <1>3, MaintenanceInvariant, PTL

=============================================================================
