------------------------------ MODULE RepairRouting ------------------------------
(***************************************************************************)
(* Failure routing: routeWorkflowFailure                                    *)
(* (tools/workflow-handoff/failure-router.ts) and the repair queue it keeps *)
(* (tools/workflow-handoff/repair-queue.ts), over the handoff store.        *)
(*                                                                          *)
(* A route is three operations on two files, each under its own lock and    *)
(* none under a common one: find or append the repair item, charge its      *)
(* budget if it was there before, and request a handoff. The status the     *)
(* charge writes is worked out from the item as the first operation saw it. *)
(* Routes are started by the task tool when a verification fails, by        *)
(* fail_handoff_intent, by review rounds and by every maintenance pass, so  *)
(* several may run at once; a verified completion closes the items of its   *)
(* task meanwhile.                                                          *)
(*                                                                          *)
(* A failure stands for its fingerprint, which its task is part of. The     *)
(* kinds that routes are started with all ask for a repair task, and no     *)
(* caller passes a repair depth, so an item is never born escalated; claimed*)
(* and failed are statuses of the type that no code assigns.                *)
(***************************************************************************)
EXTENDS HandoffStore

CONSTANTS Failure,       \* failure fingerprints
          Task,          \* source tasks
          NoTask,        \* the failure has no source task
          TaskOf,        \* the source task of each failure
          Budget,        \* repairBudget of the failures' kind
          Router,        \* concurrent calls of routeWorkflowFailure
          HandlerStatus, \* bound: what becomes of a requested handoff
          MaxItems,      \* bound: repair items the queue ever holds
          MaxRoutes,     \* bound: calls of routeWorkflowFailure
          MaxCrashes     \* bound: calls that are cut short

ASSUME RoutingAssumption ==
    /\ Failure # {}
    /\ NoTask \notin Task
    /\ TaskOf \in [Failure -> Task \cup {NoTask}]
    /\ Budget \in Nat \ {0}
    /\ IsFiniteSet(Router)
    /\ HandlerStatus \subseteq Status
    /\ MaxItems \in Nat
    /\ MaxRoutes \in Nat
    /\ MaxCrashes \in Nat

VARIABLES
    items,     \* the repair queue, oldest first
    step,      \* where each route is in the call
    held,      \* the position of its repair item
    copy,      \* its copy of that item
    charges,   \* history: how often each item was charged
    reopened,  \* history: closed or escalated items a charge put back
    routes,    \* calls so far
    crashes    \* calls cut short so far

queueVars == <<items, charges, reopened>>
routeVars == <<step, held, copy, routes, crashes>>
repairVars == <<storeVars, queueVars, routeVars>>

ItemStatus == {"queued", "completed", "escalated"}

Item == [failure: Failure, budget: 0 .. Budget, status: ItemStatus]

NewItem(f) == [failure |-> f, budget |-> Budget, status |-> "queued"]

NoItem == NewItem(CHOOSE f \in Failure : TRUE)

ItemId == DOMAIN items

\* Mutant: an item that was charged before is not found.
OpenItemsUncharged(f) ==
    {i \in ItemId : items[i].failure = f /\ items[i].status = "queued"
                                         /\ items[i].budget = Budget}

\* The items that stand for the failure's next occurrence.
OpenItems(f) == {i \in ItemId : items[i].failure = f /\ items[i].status = "queued"}

\* Mutant: the budget is not floored.
LessUnfloored(budget) == budget - 1

Less(budget) == IF budget = 0 THEN 0 ELSE budget - 1

\* Mutant: the charge escalates only an item that had nothing left.
ChargedAsLate(seen) == IF seen.budget = 0 THEN "escalated" ELSE seen.status

\* The status a charge asks for, by the copy the first operation returned.
ChargedAs(seen) == IF seen.budget <= 1 THEN "escalated" ELSE seen.status

\* repairLineageId: the source task, or an id of the item's own.
Lineage(i, seen) == IF TaskOf[seen.failure] = NoTask THEN i ELSE TaskOf[seen.failure]

RepairKey(f) == <<"repair", f>>

HumanKey(i, seen) == <<"human", seen.failure, Lineage(i, seen)>>

ASSUME KeyAssumption ==
    \A f \in Failure : /\ RepairKey(f) \in Key
                      /\ \A i \in 1 .. MaxItems : HumanKey(i, NewItem(f)) \in Key

\* Mutant: the escalation is sent under the repair owner's key.
KeyToTellOwner(i, seen) == RepairKey(seen.failure)

\* Whom the route tells: a human once the item is escalated, else the owner of
\* repairs of the failure's kind.
KeyToTell(i, seen) ==
    IF seen.status = "escalated" THEN HumanKey(i, seen) ELSE RepairKey(seen.failure)

-----------------------------------------------------------------------------
RoutingInit ==
    /\ StoreInit
    /\ items = <<>>
    /\ step = [r \in Router |-> "idle"]
    /\ held = [r \in Router |-> 0]
    /\ copy = [r \in Router |-> NoItem]
    /\ charges = <<>>
    /\ reopened = {}
    /\ routes = 0
    /\ crashes = 0

\* The route proceeds to its next operation with item i and a copy of it.
Hold(r, to, i, seen) ==
    /\ step' = [step EXCEPT ![r] = to]
    /\ held' = [held EXCEPT ![r] = i]
    /\ copy' = [copy EXCEPT ![r] = seen]

Start(r) ==
    /\ step[r] = "idle"
    /\ routes < MaxRoutes
    /\ routes' = routes + 1
    /\ UNCHANGED <<storeVars, reopened, crashes>>

\* createWorkflowRepairQueueItem finds an open item of the failure.
FindItem(r, f) ==
    /\ Start(r)
    /\ OpenItems(f) # {}
    /\ LET i == Min(OpenItems(f)) IN Hold(r, "charge", i, items[i])
    /\ UNCHANGED <<items, charges>>

\* createWorkflowRepairQueueItem appends a new item with a fresh budget.
OpenItem(r, f) ==
    /\ Start(r)
    /\ OpenItems(f) = {}
    /\ Len(items) < MaxItems
    /\ items' = Append(items, NewItem(f))
    /\ charges' = Append(charges, 0)
    /\ Hold(r, "tell", Len(items) + 1, NewItem(f))

\* updateWorkflowRepairQueueItem: one off the budget as the queue has it, and
\* the status as the copy has it.
Charge(r) ==
    /\ step[r] = "charge"
    /\ LET i == held[r]
           charged == [items[i] EXCEPT !.budget = Less(@),
                                       !.status = ChargedAs(copy[r])]
       IN  /\ items' = [items EXCEPT ![i] = charged]
           /\ charges' = [charges EXCEPT ![i] = @ + 1]
           /\ reopened' = IF items[i].status # "queued" /\ charged.status = "queued"
                          THEN reopened \cup {i}
                          ELSE reopened
           /\ Hold(r, "tell", i, charged)
    /\ UNCHANGED <<storeVars, routes, crashes>>

\* The call is over and its locals are gone.
Forget(r) == Hold(r, "idle", 0, NoItem)

\* upsertWorkflowHandoffIntent under the key of whoever has to know.
Tell(r) ==
    /\ step[r] = "tell"
    /\ Upsert(KeyToTell(held[r], copy[r]))
    /\ Forget(r)
    /\ UNCHANGED <<queueVars, routes, crashes>>

\* The process dies between two operations, or one of them times out on its
\* lock.
CutShort(r) ==
    /\ step[r] # "idle"
    /\ crashes < MaxCrashes
    /\ crashes' = crashes + 1
    /\ Forget(r)
    /\ UNCHANGED <<storeVars, queueVars, routes>>

\* closeWorkflowRepairItemsForTask: the task was completed and verified.
CloseForTask(t) ==
    /\ items' = [i \in ItemId |->
          IF TaskOf[items[i].failure] = t /\ items[i].status = "queued"
          THEN [items[i] EXCEPT !.status = "completed"]
          ELSE items[i]]
    /\ UNCHANGED <<storeVars, charges, reopened, routeVars>>

\* The delivery, the maintenance and the agents act on a requested handoff.
Handle(i) ==
    /\ \E to \in HandlerStatus : Transition(i, to)
    /\ UNCHANGED <<queueVars, routeVars>>

RoutingNext ==
    \/ \E r \in Router :
         \/ \E f \in Failure : FindItem(r, f) \/ OpenItem(r, f)
         \/ Charge(r) \/ Tell(r) \/ CutShort(r)
    \/ \E t \in Task : CloseForTask(t)
    \/ \E i \in Id : Handle(i)

RoutingSpec == RoutingInit /\ [][RoutingNext]_repairVars

-----------------------------------------------------------------------------
\* The type invariant of the repair queue and the routes.
RoutingTypeOK ==
    /\ StoreTypeOK
    /\ items \in Seq(Item)
    /\ step \in [Router -> {"idle", "charge", "tell"}]
    /\ held \in [Router -> 0 .. MaxItems]
    /\ copy \in [Router -> Item]
    /\ charges \in Seq(Nat)
    /\ Len(charges) = Len(items)
    /\ reopened \subseteq ItemId
    /\ routes \in 0 .. MaxRoutes
    /\ crashes \in 0 .. MaxCrashes

\* One failure has one open repair item, unless the older of two was closed or
\* escalated between a route's lookup and its charge and the charge put it back
\* (createWorkflowRepairQueueItem, routeWorkflowFailure).
TwinsOnlyByReopening ==
    \A i, j \in ItemId :
        (i < j /\ items[i].failure = items[j].failure
               /\ items[i].status = "queued" /\ items[j].status = "queued")
            => i \in reopened

\* Somebody has asked, or is about to ask, a human to look at item i.
HumanKnows(i) ==
    \/ SameKey(HumanKey(i, items[i])) # {}
    \/ \E r \in Router : step[r] = "tell" /\ held[r] = i /\ copy[r].status = "escalated"

\* No repair loop goes unheard: an item is charged at most Budget times, and
\* once more for each route but one that may overlap, before a human is asked;
\* only a call cut short between the charge and the handoff is excused
\* (routeWorkflowFailure computes escalation from a copy).
LoopIsHeard ==
    \A i \in ItemId :
        charges[i] >= Budget + Cardinality(Router) - 1 => HumanKnows(i) \/ crashes > 0

\* Every escalated item has reached a human, but for at most one per call that
\* was cut short: the queue says escalated before the handoff exists.
EscalationIsTold ==
    Cardinality({i \in ItemId : items[i].status = "escalated" /\ ~HumanKnows(i)}) <= crashes
=============================================================================
