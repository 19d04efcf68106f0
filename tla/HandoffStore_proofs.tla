--------------------------- MODULE HandoffStore_proofs ---------------------------
(***************************************************************************)
(* What the handoff store guarantees for every number of keys, sessions,    *)
(* channels and intents. Every operation either edits intents in place      *)
(* (Edited) or appends one new intent (Grown); the theorems follow from     *)
(* these two shapes and from the table of legal transitions.                *)
(***************************************************************************)
EXTENDS HandoffStore, SequenceTheorems, WellFoundedInduction, TLAPS

\* An operation that edits intents of one key k, each along the table.
Edited(k) ==
    /\ intents' \in Seq(Intent)
    /\ Len(intents') = Len(intents)
    /\ \A i \in Id :
         /\ intents'[i].key = intents[i].key
         /\ CanTransition(StatusOf(i), intents'[i].status)
         /\ StatusOf(i) \in Terminal => intents'[i].attempts = intents[i].attempts
         /\ intents[i].key # k => intents'[i] = intents[i]
    /\ failedOnce' = failedOnce
         \cup {i \in DOMAIN intents' : intents'[i].status = "failed"}

\* The operation that appends a new intent of key k.
Grown(k) ==
    /\ NothingToReuse(k)
    /\ intents' = Append(intents, NewIntent(k))
    /\ failedOnce' = failedOnce
         \cup {i \in DOMAIN intents' : intents'[i].status = "failed"}

\* The history of failures covers what is failed now, and an intent that has a
\* younger one of its key has failed or expired.
RevivalInv ==
    /\ \A i \in Id : StatusOf(i) = "failed" => i \in failedOnce
    /\ \A i, j \in Id : (i < j /\ intents[i].key = intents[j].key)
          => i \in failedOnce \/ StatusOf(i) = "expired"

StoreInv == StoreTypeOK /\ RevivalInv

-----------------------------------------------------------------------------
\* The table has no rule out of a terminal status.
LEMMA TerminalStays ==
    ASSUME NEW s \in Terminal, NEW t, CanTransition(s, t)
    PROVE  t = s
<1>1. s \in Status BY DEF Status
<1>2. Allowed[s] = {} BY <1>1 DEF Allowed, Terminal
<1> QED BY <1>2 DEF CanTransition

\* An active intent may always be superseded.
LEMMA ActiveMayBeSuperseded ==
    ASSUME NEW s \in Active
    PROVE  CanTransition(s, "superseded")
<1>1. s \in Status BY DEF Status
<1>2. "superseded" \in Allowed[s] BY <1>1 DEF Allowed, Active, Terminal, Outcome
<1> QED BY <1>2 DEF CanTransition

\* A nonempty set of naturals has its Min.
LEMMA MinIsIn ==
    ASSUME NEW S \in SUBSET Nat, S # {}
    PROVE  Min(S) \in S
<1> DEFINE R == OpToRel(<, Nat)
<1>1. IsWellFoundedOn(R, Nat) BY NatLessThanWellFounded
<1>2. PICK m \in S : \A y \in S : <<y, m>> \notin R
  <2> HIDE DEF R
  <2> QED BY <1>1, WFMin
<1>3. \A y \in S : m <= y
  <2> SUFFICES ASSUME NEW y \in S, ~ (m <= y) PROVE FALSE
    OBVIOUS
  <2>1. y \in Nat /\ m \in Nat /\ y < m OBVIOUS
  <2>2. <<y, m>> \in R BY <2>1 DEF OpToRel
  <2> QED BY <1>2, <2>2
<1> QED BY <1>2, <1>3 DEF Min

LEMMA IdType ==
    ASSUME StoreTypeOK
    PROVE  /\ Len(intents) \in Nat
           /\ Id = 1 .. Len(intents)
           /\ \A i \in Id : intents[i] \in Intent
BY ElementOfSeq, LenProperties DEF StoreTypeOK, Id

\* A function on 1 .. n is a sequence of length n.
LEMMA SeqOfFunction ==
    ASSUME NEW S, NEW n \in Nat, NEW f \in [1 .. n -> S]
    PROVE  f \in Seq(S) /\ Len(f) = n
<1>1. f \in Seq(S) BY SeqDef
<1> QED BY <1>1, LenProperties

LEMMA NewIntentType == ASSUME NEW k \in Key PROVE NewIntent(k) \in Intent
BY DEF NewIntent, Intent, Status, Active

\* transitionWorkflowHandoffIntent edits one intent or nothing.
LEMMA PatchEdits ==
    ASSUME StoreTypeOK, NEW i \in Id, NEW to \in Status,
           NEW s \in Session \cup {NoSession}, NEW dup \in BOOLEAN,
           Patch(i, to, s, dup)
    PROVE  Edited(intents[i].key) \/ UNCHANGED storeVars
<1>1. CASE ~CanTransition(StatusOf(i), to)
  BY <1>1 DEF Patch
<1>2. CASE CanTransition(StatusOf(i), to)
  <2> DEFINE t == [intents[i] EXCEPT !.status = to, !.session = s, !.dup = @ \/ dup]
  <2>1. intents[i] \in Intent BY IdType
  <2>2. t \in Intent BY <2>1 DEF Intent
  <2>3. /\ intents' = [intents EXCEPT ![i] = t]
        /\ failedOnce' = failedOnce
              \cup {n \in DOMAIN intents' : intents'[n].status = "failed"}
    BY <1>2 DEF Patch, Store
  <2>4. /\ intents' \in Seq(Intent)
        /\ Len(intents') = Len(intents)
        /\ \A n \in Id : intents'[n] = IF n = i THEN t ELSE intents[n]
    BY <2>2, <2>3, ExceptSeq DEF StoreTypeOK, Id
  <2>5. t.status = to /\ t.key = intents[i].key /\ t.attempts = intents[i].attempts
    BY <2>1 DEF Intent
  <2>6. \A n \in Id : CanTransition(StatusOf(n), intents'[n].status)
    BY <1>2, <2>4, <2>5 DEF CanTransition, StatusOf
  <2> QED BY <2>3, <2>4, <2>5, <2>6 DEF Edited
<1> QED BY <1>1, <1>2

\* appendWorkflowHandoffDeliveryAttempt edits one intent or nothing.
LEMMA AppendEdits ==
    ASSUME StoreTypeOK, NEW i \in Id, NEW c \in Channel, AppendAttempt(i, c)
    PROVE  Edited(intents[i].key) \/ UNCHANGED storeVars
<1>1. CASE ~TakesAttempts(i)
  BY <1>1 DEF AppendAttempt
<1>2. CASE TakesAttempts(i)
  <2> DEFINE t == [intents[i] EXCEPT !.attempts = Append(@, c)]
  <2>1. intents[i] \in Intent BY IdType
  <2>2. t \in Intent
    <3>1. intents[i].attempts \in Seq(Channel) BY <2>1 DEF Intent
    <3>2. Append(intents[i].attempts, c) \in Seq(Channel) BY <3>1, AppendProperties
    <3> QED BY <2>1, <3>2 DEF Intent
  <2>3. /\ intents' = [intents EXCEPT ![i] = t]
        /\ failedOnce' = failedOnce
              \cup {n \in DOMAIN intents' : intents'[n].status = "failed"}
    BY <1>2 DEF AppendAttempt, Store
  <2>4. /\ intents' \in Seq(Intent)
        /\ Len(intents') = Len(intents)
        /\ \A n \in Id : intents'[n] = IF n = i THEN t ELSE intents[n]
    BY <2>2, <2>3, ExceptSeq DEF StoreTypeOK, Id
  <2>5. t.status = StatusOf(i) /\ t.key = intents[i].key
    BY <2>1 DEF Intent, StatusOf
  <2>6. \A n \in Id : CanTransition(StatusOf(n), intents'[n].status)
    BY <2>4, <2>5 DEF CanTransition, StatusOf
  <2>7. StatusOf(i) \notin Terminal BY <1>2 DEF TakesAttempts
  <2> QED BY <2>3, <2>4, <2>5, <2>6, <2>7 DEF Edited
<1> QED BY <1>1, <1>2

\* upsertWorkflowHandoffIntent edits, appends or leaves the store alone.
LEMMA UpsertEditsOrGrows ==
    ASSUME StoreTypeOK, NEW k \in Key, Upsert(k)
    PROVE  Edited(k) \/ Grown(k) \/ UNCHANGED storeVars
<1>1. CASE ReuseTerminal(k)
  <2> DEFINE t(n) == [intents[n] EXCEPT !.status = "superseded", !.dup = TRUE]
             new == [n \in Id |-> IF n \in ActiveFor(k) THEN t(n) ELSE intents[n]]
  <2>1. \A n \in Id : intents[n] \in Intent BY IdType
  <2>2. \A n \in Id : t(n) \in Intent
    BY <2>1 DEF Intent, Status, Terminal
  <2>3. intents' = new
    BY <1>1 DEF ReuseTerminal, Store
  <2>4. failedOnce' = failedOnce
           \cup {n \in DOMAIN intents' : intents'[n].status = "failed"}
    BY <1>1 DEF ReuseTerminal, Store
  <2>5. Id = 1 .. Len(intents) /\ Len(intents) \in Nat
    BY IdType
  <2>6. \A n \in 1 .. Len(intents) : new[n] \in Intent
    BY <2>1, <2>2, <2>5
  <2>7. new \in Seq(Intent) /\ Len(new) = Len(intents)
    <3>1. new \in [1 .. Len(intents) -> Intent] BY <2>5, <2>6
    <3> HIDE DEF new
    <3> QED BY <2>5, <3>1, SeqOfFunction
  <2>8. \A n \in Id : /\ intents'[n].key = intents[n].key
                      /\ intents'[n].attempts = intents[n].attempts
                      /\ intents[n].key # k => intents'[n] = intents[n]
    BY <2>1, <2>3 DEF Intent, ActiveFor, SameKey
  <2>9. \A n \in Id : CanTransition(StatusOf(n), intents'[n].status)
    <3> TAKE n \in Id
    <3>1. CASE n \in ActiveFor(k)
      <4>1. StatusOf(n) \in Active BY <3>1 DEF ActiveFor
      <4>2. intents'[n].status = "superseded" BY <2>1, <2>3, <3>1 DEF Intent
      <4> QED BY <4>1, <4>2, ActiveMayBeSuperseded
    <3>2. CASE n \notin ActiveFor(k)
      BY <2>3, <3>2 DEF CanTransition, StatusOf
    <3> QED BY <3>1, <3>2
  <2> QED BY <2>3, <2>4, <2>7, <2>8, <2>9 DEF Edited
<1>2. CASE ReuseActive(k)
  BY <1>2 DEF ReuseActive
<1>3. CASE Create(k)
  BY <1>3 DEF Create, Grown, Store
<1> QED BY <1>1, <1>2, <1>3 DEF Upsert

LEMMA StoreShapes ==
    ASSUME StoreTypeOK, StoreNext
    PROVE  (\E k \in Key : Edited(k) \/ Grown(k)) \/ UNCHANGED storeVars
<1>0. \A i \in Id : intents[i].key \in Key /\ intents[i].session \in Session \cup {NoSession}
  BY IdType DEF Intent
<1>1. ASSUME NEW k \in Key, Upsert(k)
      PROVE  (\E q \in Key : Edited(q) \/ Grown(q)) \/ UNCHANGED storeVars
  BY <1>1, UpsertEditsOrGrows
<1>2. ASSUME NEW i \in Id, NEW to \in Status, Transition(i, to)
      PROVE  Edited(intents[i].key) \/ UNCHANGED storeVars
  BY <1>0, <1>2, PatchEdits DEF Transition
<1>3. ASSUME NEW i \in Id, NEW s \in Session, Patch(i, "claimed", s, FALSE)
      PROVE  Edited(intents[i].key) \/ UNCHANGED storeVars
  BY <1>3, PatchEdits DEF Status, Active
<1>4. ASSUME NEW i \in Id, Patch(i, "superseded", intents[i].session, TRUE)
      PROVE  Edited(intents[i].key) \/ UNCHANGED storeVars
  BY <1>0, <1>4, PatchEdits DEF Status, Terminal
<1>5. ASSUME NEW i \in Id, NEW c \in Channel, AppendAttempt(i, c)
      PROVE  Edited(intents[i].key) \/ UNCHANGED storeVars
  BY <1>5, AppendEdits
<1> QED BY <1>0, <1>1, <1>2, <1>3, <1>4, <1>5 DEF StoreNext

-----------------------------------------------------------------------------
\* The two shapes preserve the invariant.
LEMMA EditedPreserves ==
    ASSUME StoreInv, NEW k \in Key, Edited(k)
    PROVE  StoreInv'
<1>1. /\ Len(intents) \in Nat
      /\ Id = 1 .. Len(intents)
  BY IdType DEF StoreInv
<1>2. Id' = Id
  BY <1>1, LenProperties DEF Edited, Id
<1>3. StoreTypeOK'
  BY <1>2 DEF StoreInv, StoreTypeOK, Edited, Id
<1>4. \A i \in Id : StatusOf(i) = "expired" => StatusOf(i)' = "expired"
  BY TerminalStays DEF Edited, Terminal, StatusOf
<1>5. RevivalInv'
  BY <1>2, <1>4 DEF StoreInv, RevivalInv, Edited, StatusOf, Id
<1> QED BY <1>3, <1>5 DEF StoreInv

LEMMA GrownPreserves ==
    ASSUME StoreInv, NEW k \in Key, Grown(k)
    PROVE  StoreInv'
<1> DEFINE n == Len(intents)
<1>1. /\ n \in Nat
      /\ Id = 1 .. n
      /\ \A i \in Id : intents[i] \in Intent
  BY IdType DEF StoreInv
<1>2. /\ intents' \in Seq(Intent)
      /\ Len(intents') = n + 1
      /\ intents'[n + 1] = NewIntent(k)
      /\ \A i \in Id : intents'[i] = intents[i]
  BY <1>1, NewIntentType, AppendProperties DEF StoreInv, StoreTypeOK, Grown
<1>3. Id' = 1 .. (n + 1)
  BY <1>2, LenProperties DEF Id
<1>4. StoreTypeOK'
  BY <1>1, <1>2, <1>3 DEF StoreInv, StoreTypeOK, Grown, Id
<1>5. \A i \in Id : StatusOf(i)' = StatusOf(i)
  BY <1>2 DEF StatusOf
<1>6. \A i \in SameKey(k) : i \in failedOnce \/ StatusOf(i) = "expired"
  <2> TAKE i \in SameKey(k)
  <2>1. StatusOf(i) \in Status BY <1>1 DEF SameKey, StatusOf, Intent
  <2>2. StatusOf(i) \notin Blocking /\ StatusOf(i) \notin Active
    BY DEF Grown, NothingToReuse, BlockingFor, ActiveFor
  <2>3. StatusOf(i) \in {"failed", "expired"}
    BY <2>1, <2>2 DEF Status, Blocking
  <2> QED BY <2>3 DEF StoreInv, RevivalInv, SameKey
<1>7. RevivalInv'
  <2>1. \A i \in Id' : StatusOf(i)' = "failed" => i \in failedOnce'
    BY DEF Grown, StatusOf, Id
  <2>2. ASSUME NEW i \in Id', NEW j \in Id', i < j, intents'[i].key = intents'[j].key
        PROVE  i \in failedOnce' \/ StatusOf(i)' = "expired"
    <3>1. i \in Id /\ failedOnce \subseteq failedOnce'
      BY <1>1, <1>3, <2>2 DEF Grown
    <3>2. CASE j \in Id
      BY <1>2, <1>5, <2>2, <3>1, <3>2 DEF StoreInv, RevivalInv
    <3>3. CASE j = n + 1
      <4>1. i \in SameKey(k)
        BY <1>2, <2>2, <3>1, <3>3 DEF SameKey, NewIntent
      <4> QED BY <1>5, <1>6, <3>1, <4>1
    <3> QED BY <1>1, <1>3, <3>2, <3>3
  <2> QED BY <2>1, <2>2 DEF RevivalInv
<1> QED BY <1>4, <1>7 DEF StoreInv

LEMMA StoreInit_Inv == ASSUME StoreInit PROVE StoreInv
<1>1. intents = <<>> /\ failedOnce = {} BY DEF StoreInit
<1>2. intents \in Seq(Intent) /\ Id = {} BY <1>1, EmptySeq DEF Id
<1> QED BY <1>1, <1>2 DEF StoreInv, StoreTypeOK, RevivalInv

LEMMA StoreStep_Inv ==
    ASSUME StoreInv, [StoreNext]_storeVars
    PROVE  StoreInv'
<1>1. CASE UNCHANGED storeVars
  BY <1>1 DEF storeVars, StoreInv, StoreTypeOK, RevivalInv, Id, StatusOf
<1>2. CASE StoreNext
  BY <1>1, <1>2, StoreShapes, EditedPreserves, GrownPreserves DEF StoreInv
<1> QED BY <1>1, <1>2

LEMMA StoreInvariant == StoreSpec => []StoreInv
BY StoreInit_Inv, StoreStep_Inv, PTL DEF StoreSpec

-----------------------------------------------------------------------------
\* The store's type invariant holds whatever its callers do.
THEOREM StoreTypeCorrect == StoreSpec => []StoreTypeOK
<1>1. StoreInv => StoreTypeOK BY DEF StoreInv
<1> QED BY <1>1, StoreInvariant, PTL

\* Idempotency of upsertWorkflowHandoffIntent: two intents of a key are active
\* together only if the older one has been failed before.
THEOREM UniqueUnlessRevivedHolds == StoreSpec => []UniqueUnlessRevived
<1>1. StoreInv => UniqueUnlessRevived
  BY DEF StoreInv, RevivalInv, UniqueUnlessRevived, Active
<1> QED BY <1>1, StoreInvariant, PTL

\* Finality: a terminal intent keeps its status and attempts, and no intent is
\* lost or changes its key, in every step of every caller.
THEOREM TerminalIsFinalHolds == StoreSpec => TerminalIsFinal
<1> DEFINE Kept ==
      /\ Len(intents) <= Len(intents')
      /\ \A i \in Id :
           /\ intents'[i].key = intents[i].key
           /\ StatusOf(i) \in Terminal
                => /\ intents'[i].status = StatusOf(i)
                   /\ intents'[i].attempts = intents[i].attempts
<1>1. ASSUME StoreInv, NEW k \in Key, Edited(k) PROVE Kept
  <2>1. Len(intents) \in Nat BY <1>1, IdType DEF StoreInv
  <2> QED BY <1>1, <2>1, TerminalStays DEF Edited
<1>2. ASSUME StoreInv, NEW k \in Key, Grown(k) PROVE Kept
  <2>1. Len(intents) \in Nat /\ Id = 1 .. Len(intents) BY <1>2, IdType DEF StoreInv
  <2>2. /\ Len(intents') = Len(intents) + 1
        /\ \A i \in Id : intents'[i] = intents[i]
    BY <1>2, <2>1, NewIntentType, AppendProperties DEF StoreInv, StoreTypeOK, Grown
  <2> QED BY <2>1, <2>2 DEF StatusOf
<1>3. ASSUME StoreInv, [StoreNext]_storeVars PROVE [Kept]_storeVars
  <2>1. CASE StoreNext BY <1>1, <1>2, <1>3, <2>1, StoreShapes DEF StoreInv
  <2> QED BY <1>3, <2>1
<1> QED BY <1>3, StoreInvariant, PTL DEF StoreSpec, TerminalIsFinal

-----------------------------------------------------------------------------
\* How the two shapes move the phases of HandoffPromise.

\* An edit moves only its own key's phase, and only out of open.
LEMMA EditedPhase ==
    ASSUME StoreInv, NEW k \in Key, Edited(k)
    PROVE  /\ \A q \in Key : q # k => KeyPhase(q)' = KeyPhase(q)
           /\ \/ KeyPhase(k)' = KeyPhase(k)
              \/ KeyPhase(k) = "open" /\ KeyPhase(k)' \in {"closed", "lapsed"}
<1>1. Id' = Id
  <2>1. Len(intents) \in Nat /\ Id = 1 .. Len(intents) BY IdType DEF StoreInv
  <2> QED BY <2>1, LenProperties DEF Edited, Id
<1>2. \A q \in Key : SameKey(q)' = SameKey(q)
  BY <1>1 DEF SameKey, Edited
<1>3. \A i \in Id : StatusOf(i) \in Terminal => StatusOf(i)' = StatusOf(i)
  BY TerminalStays DEF Edited, StatusOf
<1>4. ASSUME NEW q \in Key, q # k PROVE KeyPhase(q)' = KeyPhase(q)
  <2>1. \A i \in SameKey(q) : i \in Id /\ StatusOf(i)' = StatusOf(i)
    BY <1>4 DEF SameKey, StatusOf, Edited
  <2>2. BlockingFor(q)' = BlockingFor(q)
    BY <1>2, <2>1 DEF BlockingFor
  <2> QED BY <1>2, <2>1, <2>2 DEF KeyPhase
<1>5. CASE BlockingFor(k) # {}
  <2>1. BlockingFor(k)' # {}
    BY <1>2, <1>3, <1>5 DEF BlockingFor, Blocking, SameKey
  <2> QED BY <1>4, <1>5, <2>1 DEF KeyPhase
<1>6. CASE BlockingFor(k) = {} /\ \E i \in SameKey(k) : StatusOf(i) \notin Terminal
  <2>1. SameKey(k)' # {} BY <1>2, <1>6
  <2> QED BY <1>4, <1>6, <2>1 DEF KeyPhase
<1>7. CASE BlockingFor(k) = {} /\ \A i \in SameKey(k) : StatusOf(i) \in Terminal
  <2>1. \A i \in SameKey(k) : StatusOf(i)' = StatusOf(i)
    BY <1>3, <1>7 DEF SameKey
  <2>2. BlockingFor(k)' = BlockingFor(k) BY <1>2, <2>1 DEF BlockingFor
  <2> QED BY <1>2, <1>4, <1>7, <2>1, <2>2 DEF KeyPhase
<1> QED BY <1>5, <1>6, <1>7

\* A new intent opens its key unless the key is open already.
LEMMA GrownPhase ==
    ASSUME StoreInv, NEW k \in Key, Grown(k)
    PROVE  /\ \A q \in Key : q # k => KeyPhase(q)' = KeyPhase(q)
           /\ KeyPhase(k) \in {"none", "open", "lapsed"}
           /\ KeyPhase(k)' = "open"
<1> DEFINE n == Len(intents)
<1>1. /\ n \in Nat
      /\ Id = 1 .. n
  BY IdType DEF StoreInv
<1>2. /\ intents' \in Seq(Intent)
      /\ Len(intents') = n + 1
      /\ intents'[n + 1] = NewIntent(k)
      /\ \A i \in Id : intents'[i] = intents[i]
  BY <1>1, NewIntentType, AppendProperties DEF StoreInv, StoreTypeOK, Grown
<1>3. Id' = 1 .. (n + 1)
  BY <1>2, LenProperties DEF Id
<1>4. intents'[n + 1].key = k /\ intents'[n + 1].status = "prepared"
  BY <1>2 DEF NewIntent
<1>5. \A i \in Id : StatusOf(i)' = StatusOf(i) /\ intents'[i].key = intents[i].key
  BY <1>2 DEF StatusOf
<1>6. ASSUME NEW q \in Key, q # k PROVE KeyPhase(q)' = KeyPhase(q)
  <2>1. SameKey(q)' = SameKey(q)
    BY <1>1, <1>3, <1>4, <1>5, <1>6 DEF SameKey
  <2>2. \A i \in SameKey(q) : StatusOf(i)' = StatusOf(i)
    BY <1>5 DEF SameKey
  <2>3. BlockingFor(q)' = BlockingFor(q)
    BY <2>1, <2>2 DEF BlockingFor
  <2> QED BY <2>1, <2>2, <2>3 DEF KeyPhase
<1>7. BlockingFor(k) = {}
  BY DEF Grown, NothingToReuse
<1>8. BlockingFor(k)' = {}
  <2> SUFFICES ASSUME NEW i \in Id', intents'[i].key = k, intents'[i].status \in Blocking
               PROVE  FALSE
    BY DEF BlockingFor, SameKey, StatusOf
  <2>1. CASE i = n + 1
    BY <1>4, <2>1 DEF Blocking, Terminal
  <2>2. CASE i \in Id
    BY <1>2, <1>7, <2>2 DEF BlockingFor, SameKey, StatusOf
  <2> QED BY <1>1, <1>3, <2>1, <2>2
<1>9. \E i \in SameKey(k)' : StatusOf(i)' \notin Terminal
  <2>1. n + 1 \in Id' BY <1>1, <1>3
  <2>2. \E i \in Id' : intents'[i].key = k /\ intents'[i].status \notin Terminal
    BY <1>4, <2>1 DEF Terminal
  <2> QED BY <2>2 DEF SameKey, StatusOf
<1> QED BY <1>6, <1>7, <1>8, <1>9 DEF KeyPhase

\* A step that moves one key's phase along the promise is a step of it.
LEMMA PromiseStep ==
    ASSUME StoreInv, [StoreNext]_storeVars
    PROVE  [Promise!Next]_([k \in Key |-> KeyPhase(k)])
<1> DEFINE phase == [k \in Key |-> KeyPhase(k)]
<1>1. ASSUME NEW k \in Key, Edited(k) PROVE Promise!Next \/ UNCHANGED phase
  BY <1>1, EditedPhase DEF Promise!Next, Promise!Close, Promise!Lapse
<1>2. ASSUME NEW k \in Key, Grown(k) PROVE Promise!Next \/ UNCHANGED phase
  BY <1>2, GrownPhase DEF Promise!Next, Promise!Open
<1>3. CASE UNCHANGED storeVars
  BY <1>3 DEF storeVars, KeyPhase, BlockingFor, SameKey, StatusOf, Id
<1>4. CASE StoreNext
  BY <1>1, <1>2, <1>3, <1>4, StoreShapes DEF StoreInv
<1> QED BY <1>3, <1>4

\* The store implements HandoffPromise: through every interleaving of callers
\* a closed key stays closed and only a lapsed key is opened again.
THEOREM KeepsPromiseHolds == StoreSpec => KeepsPromise
<1>1. StoreInit => Promise!Init
  <2> SUFFICES ASSUME StoreInit PROVE Promise!Init
    OBVIOUS
  <2>1. Id = {} BY EmptySeq DEF StoreInit, Id
  <2> QED BY <2>1 DEF Promise!Init, KeyPhase, BlockingFor, SameKey
<1> QED BY <1>1, PromiseStep, StoreInvariant, PTL DEF StoreSpec, KeepsPromise, Promise!Spec
=============================================================================
