------------------------------ MODULE HandoffStore ------------------------------
(***************************************************************************)
(* The durable list of handoff intents                                      *)
(* (tools/workflow-handoff/handoff-store.ts) and the operations on it. Each *)
(* operation reads the file, decides and writes it back inside one advisory *)
(* lock, so each is one step here: AdvisoryLock models the lock itself.     *)
(*                                                                          *)
(* The actions below Operations are also the vocabulary of the modules that *)
(* model the store's callers: HandoffDelivery, HandoffMaintenance and       *)
(* HandoffActivation extend this module and use them as parts of their own  *)
(* steps. Spec is the store with arbitrary callers.                         *)
(***************************************************************************)
EXTENDS Naturals, Sequences, FiniteSets, FiniteSetsExt, HandoffStatus

CONSTANTS Key,        \* idempotency keys
          Session,    \* session keys of the agents that may claim
          NoSession,  \* toSessionKey is null
          Channel,    \* delivery channels
          MaxIntents, \* bound: intents the store ever holds
          MaxTried    \* bound: attempts an arbitrary caller records on one intent

ASSUME StoreAssumption ==
    /\ NoSession \notin Session
    /\ MaxIntents \in Nat
    /\ MaxTried \in Nat

VARIABLES
    intents,    \* the intents, oldest first
    failedOnce  \* history: the positions of intents that have been failed

storeVars == <<intents, failedOnce>>

\* attempts lists the channels of deliveryAttempts, late says that expiresAt
\* has passed, dup that terminalReason blames a duplicate idempotency key.
Intent == [key: Key,
           status: Status,
           attempts: Seq(Channel),
           session: Session \cup {NoSession},
           late: BOOLEAN,
           dup: BOOLEAN]

\* Mutant: the new intent is stored without its expiresAt.
NewIntentTimeless(k) == [key |-> k,
                         status |-> "prepared",
                         attempts |-> <<>>,
                         session |-> NoSession,
                         dup |-> FALSE]

NewIntent(k) == [key |-> k,
                 status |-> "prepared",
                 attempts |-> <<>>,
                 session |-> NoSession,
                 late |-> FALSE,
                 dup |-> FALSE]

Id == DOMAIN intents

StatusOf(i) == intents[i].status

SameKey(k) == {i \in Id : intents[i].key = k}

ActiveFor(k) == {i \in SameKey(k) : StatusOf(i) \in Active}

BlockingFor(k) == {i \in SameKey(k) : StatusOf(i) \in Blocking}

-----------------------------------------------------------------------------
\* Operations.

\* The intents as one locked operation leaves them.
Store(new) ==
    /\ intents' = new
    /\ failedOnce' = failedOnce
         \cup {i \in DOMAIN new : new[i].status = "failed"}

\* The key has reached a blocking status: hand that intent back and supersede
\* whatever is still active under the key.
ReuseTerminal(k) ==
    /\ BlockingFor(k) # {}
    /\ Store([i \in Id |->
                IF i \in ActiveFor(k)
                THEN [intents[i] EXCEPT !.status = "superseded", !.dup = TRUE]
                ELSE intents[i]])

\* Mutant: the search for an active intent is left out.
NothingToReuseBlind(k) == BlockingFor(k) = {}

\* Nothing under the key blocks a new intent or can stand in for it.
NothingToReuse(k) == BlockingFor(k) = {} /\ ActiveFor(k) = {}

\* An active intent stands in for the new one; what it is enriched with (texts,
\* owner, payload) is not modelled.
ReuseActive(k) ==
    /\ BlockingFor(k) = {}
    /\ ActiveFor(k) # {}
    /\ UNCHANGED storeVars

\* A new intent, prepared.
Create(k) ==
    /\ NothingToReuse(k)
    /\ Len(intents) < MaxIntents
    /\ Store(Append(intents, NewIntent(k)))

\* upsertWorkflowHandoffIntent.
Upsert(k) == ReuseTerminal(k) \/ ReuseActive(k) \/ Create(k)

\* The intent upsertWorkflowHandoffIntent answers with: the oldest that blocks,
\* else the oldest that is active, else the new one.
Answer(k) ==
    IF BlockingFor(k) # {} THEN Min(BlockingFor(k))
    ELSE IF ActiveFor(k) # {} THEN Min(ActiveFor(k))
    ELSE Len(intents) + 1

\* transitionWorkflowHandoffIntent with a patch of toSessionKey and a
\* terminalReason: an illegal move is refused and leaves the store as it was.
Patch(i, to, s, dup) ==
    IF CanTransition(StatusOf(i), to)
    THEN Store([intents EXCEPT ![i].status = to,
                               ![i].session = s,
                               ![i].dup = @ \/ dup])
    ELSE UNCHANGED storeVars

\* transitionWorkflowHandoffIntent without a patch.
Transition(i, to) == Patch(i, to, intents[i].session, FALSE)

\* Mutant: the attempts of a failed intent are closed as well.
TakesAttemptsUnfailed(i) == StatusOf(i) \notin Terminal \cup {"failed"}

\* A terminal intent's attempts are closed.
TakesAttempts(i) == StatusOf(i) \notin Terminal

\* appendWorkflowHandoffDeliveryAttempt.
AppendAttempt(i, c) ==
    IF TakesAttempts(i)
    THEN Store([intents EXCEPT ![i].attempts = Append(@, c)])
    ELSE UNCHANGED storeVars

\* The clock reaches an intent's expiresAt: nothing is written. No operation
\* of the store asks for it, its readers do.
PassExpiry(i) ==
    /\ ~intents[i].late
    /\ intents' = [intents EXCEPT ![i].late = TRUE]
    /\ UNCHANGED failedOnce

-----------------------------------------------------------------------------
\* The store with arbitrary callers.

StoreInit ==
    /\ intents = <<>>
    /\ failedOnce = {}

StoreNext ==
    \/ \E k \in Key : Upsert(k)
    \/ \E i \in Id :
         \/ \E to \in Status : Transition(i, to)
         \/ \E s \in Session : Patch(i, "claimed", s, FALSE)
         \/ Patch(i, "superseded", intents[i].session, TRUE)
         \/ \E c \in Channel :
              Len(intents[i].attempts) < MaxTried /\ AppendAttempt(i, c)

StoreSpec == StoreInit /\ [][StoreNext]_storeVars

-----------------------------------------------------------------------------
\* The type invariant of the intent store.
StoreTypeOK ==
    /\ intents \in Seq(Intent)
    /\ failedOnce \subseteq Id

\* Idempotency: two intents of one key are never active together unless the
\* older one had failed and was revived after its replacement was created
\* (upsertWorkflowHandoffIntent; findRetriableWorkflowHandoffIntents revives).
UniqueUnlessRevived ==
    \A i, j \in Id :
        (i < j /\ intents[i].key = intents[j].key
               /\ StatusOf(i) \in Active /\ StatusOf(j) \in Active)
            => i \in failedOnce

\* A terminal intent keeps its status and its attempts for ever, and no intent
\* is ever forgotten or moved to another key: what an intent id that an agent,
\* the manifest or the runtime queue still holds will be found to mean.
TerminalIsFinal ==
    [][/\ Len(intents) <= Len(intents')
       /\ \A i \in Id :
            /\ intents'[i].key = intents[i].key
            /\ StatusOf(i) \in Terminal
                 => /\ intents'[i].status = StatusOf(i)
                    /\ intents'[i].attempts = intents[i].attempts]_storeVars

\* A key's phase, as the requester that named it sees it.
KeyPhase(k) ==
    IF BlockingFor(k) # {} THEN "closed"
    ELSE IF \E i \in SameKey(k) : StatusOf(i) \notin Terminal THEN "open"
    ELSE IF SameKey(k) # {} THEN "lapsed"
    ELSE "none"

Promise == INSTANCE HandoffPromise WITH phase <- [k \in Key |-> KeyPhase(k)]

\* The store keeps the promise of HandoffPromise: a closed key stays closed
\* through every interleaving of callers, and only a lapsed key is reopened.
KeepsPromise == Promise!Spec
=============================================================================
