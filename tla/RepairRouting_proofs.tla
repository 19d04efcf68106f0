-------------------------- MODULE RepairRouting_proofs --------------------------
(***************************************************************************)
(* What failure routing guarantees for every number of concurrent routes,   *)
(* failures, tasks and items, and for every budget. Two facts carry it: who *)
(* has to know of an item is told under a key that depends on nothing a     *)
(* route can change, so what a human has been told stays told; and only the *)
(* routes that hold a copy of an item with budget left can charge it without*)
(* telling anybody, of which there are never more than routers.             *)
(***************************************************************************)
EXTENDS RepairRouting, HandoffStore_proofs, FiniteSetTheorems

\* What a route holds: an item of the queue, a copy of the item's failure, and
\* until it has charged it, a copy that was open.
CallInv(r) ==
    /\ step[r] # "idle" => held[r] \in ItemId /\ items[held[r]].failure = copy[r].failure
    /\ step[r] = "charge" => copy[r].status = "queued"

\* The type invariant, strengthened by what holds of calls and budgets.
Base ==
    /\ RoutingTypeOK
    /\ RevivalInv
    /\ Len(items) <= MaxItems
    /\ \A r \in Router : CallInv(r)
    /\ \A i \in ItemId :
         items[i].budget = IF charges[i] < Budget THEN Budget - charges[i] ELSE 0

-----------------------------------------------------------------------------
LEMMA BaseFacts ==
    ASSUME Base
    PROVE  /\ Len(items) \in Nat
           /\ ItemId = 1 .. Len(items)
           /\ \A i \in ItemId : items[i] \in Item /\ charges[i] \in Nat
           /\ DOMAIN charges = ItemId
           /\ items \in Seq(Item) /\ charges \in Seq(Nat)
           /\ StoreInv
           /\ \A r \in Router : copy[r] \in Item
           /\ \A i \in ItemId : items[i].failure \in Failure
<1>1. items \in Seq(Item) /\ charges \in Seq(Nat) /\ Len(charges) = Len(items)
  BY DEF Base, RoutingTypeOK
<1>2. Len(items) \in Nat /\ DOMAIN items = 1 .. Len(items)
      /\ items \in [1 .. Len(items) -> Item]
  BY <1>1, LenProperties
<1>3. DOMAIN charges = 1 .. Len(items) /\ charges \in [1 .. Len(items) -> Nat]
  BY <1>1, LenProperties
<1>4. \A i \in ItemId : items[i].failure \in Failure
  BY <1>2 DEF ItemId, Item
<1> QED BY <1>1, <1>2, <1>3, <1>4 DEF Base, RoutingTypeOK, StoreInv, ItemId

\* The keys routes use are keys of the store.
LEMMA KeysAreKeys ==
    ASSUME Base, NEW r \in Router, step[r] = "tell"
    PROVE  KeyToTell(held[r], copy[r]) \in Key
<1>1. held[r] \in 1 .. MaxItems /\ copy[r].failure \in Failure
  BY BaseFacts, RoutingAssumption DEF Base, CallInv
<1>2. HumanKey(held[r], copy[r]) = HumanKey(held[r], NewItem(copy[r].failure))
  BY DEF HumanKey, Lineage, NewItem
<1>3. RepairKey(copy[r].failure) \in Key /\ HumanKey(held[r], copy[r]) \in Key
  BY <1>1, <1>2, KeyAssumption
<1> QED BY <1>3 DEF KeyToTell

\* The intents keep their places and their keys.
IntentsKept == Id \subseteq Id' /\ \A n \in Id : intents'[n].key = intents[n].key

LEMMA EditedOrGrownKeeps ==
    ASSUME StoreInv, NEW k \in Key, Edited(k) \/ Grown(k)
    PROVE  StoreInv' /\ IntentsKept
<1>1. Len(intents) \in Nat /\ Id = 1 .. Len(intents) BY IdType DEF StoreInv
<1>2. CASE Edited(k)
  <2>1. Id' = Id BY <1>1, <1>2, LenProperties DEF Edited, Id
  <2> QED BY <1>2, <2>1, EditedPreserves DEF Edited, IntentsKept
<1>3. CASE Grown(k)
  <2>1. /\ intents' \in Seq(Intent)
        /\ Len(intents') = Len(intents) + 1
        /\ \A i \in Id : intents'[i] = intents[i]
    BY <1>1, <1>3, NewIntentType, AppendProperties DEF StoreInv, StoreTypeOK, Grown
  <2>2. Id' = 1 .. (Len(intents) + 1) BY <2>1, LenProperties DEF Id
  <2> QED BY <1>1, <1>3, <2>1, <2>2, GrownPreserves DEF IntentsKept
<1> QED BY <1>2, <1>3

LEMMA StoreUnchanged ==
    ASSUME StoreInv, UNCHANGED storeVars
    PROVE  StoreInv' /\ IntentsKept
BY DEF storeVars, StoreInv, StoreTypeOK, RevivalInv, IntentsKept, Id, StatusOf

\* After an upsert the key has an intent.
LEMMA UpsertTells ==
    ASSUME StoreInv, NEW k \in Key, Upsert(k)
    PROVE  StoreInv' /\ IntentsKept /\ SameKey(k)' # {}
<1>1. Edited(k) \/ Grown(k) \/ UNCHANGED storeVars
  BY UpsertEditsOrGrows DEF StoreInv
<1>2. StoreInv' /\ IntentsKept
  BY <1>1, EditedOrGrownKeeps, StoreUnchanged
<1>3. CASE SameKey(k) # {}
  BY <1>2, <1>3 DEF IntentsKept, SameKey, Id
<1>4. CASE SameKey(k) = {}
  <2>1. Create(k)
    BY <1>4 DEF Upsert, ReuseTerminal, ReuseActive, BlockingFor, ActiveFor
  <2>2. /\ Len(intents) \in Nat
        /\ intents \in Seq(Intent)
        /\ intents' = Append(intents, NewIntent(k))
    BY <2>1, IdType DEF Create, Store, StoreInv, StoreTypeOK
  <2>3. /\ intents' \in Seq(Intent)
        /\ Len(intents') = Len(intents) + 1
        /\ intents'[Len(intents) + 1].key = k
    BY <2>2, NewIntentType, AppendProperties DEF NewIntent
  <2>4. Len(intents) + 1 \in Id'
    BY <2>2, <2>3, LenProperties DEF Id
  <2> QED BY <1>2, <2>3, <2>4 DEF SameKey
<1> QED BY <1>2, <1>3, <1>4

LEMMA HandleKeeps ==
    ASSUME StoreInv, NEW i \in Id, Handle(i)
    PROVE  StoreInv' /\ IntentsKept
<1>1. PICK to \in HandlerStatus : Transition(i, to) BY DEF Handle
<1>2. to \in Status BY RoutingAssumption
<1>3. intents[i].session \in Session \cup {NoSession} /\ intents[i].key \in Key
  BY IdType DEF StoreInv, Intent
<1>4. Edited(intents[i].key) \/ UNCHANGED storeVars
  BY <1>1, <1>2, <1>3, PatchEdits DEF Transition, StoreInv
<1> QED BY <1>3, <1>4, EditedOrGrownKeeps, StoreUnchanged

-----------------------------------------------------------------------------
\* The queue keeps its items, in their places and with their failures.
ItemsKept ==
    /\ ItemId \subseteq ItemId'
    /\ \A i \in ItemId : items'[i].failure = items[i].failure

\* Route q does not move.
SameRoute(q) == step'[q] = step[q] /\ held'[q] = held[q] /\ copy'[q] = copy[q]

LEMMA SameRouteKeeps ==
    ASSUME NEW q \in Router, CallInv(q), ItemsKept, SameRoute(q)
    PROVE  CallInv(q)'
BY DEF CallInv, ItemsKept, SameRoute

\* Hold moves one route.
LEMMA HoldShape ==
    ASSUME Base, NEW r \in Router, NEW to, NEW i, NEW seen, Hold(r, to, i, seen)
    PROVE  /\ step'[r] = to /\ held'[r] = i /\ copy'[r] = seen
           /\ \A q \in Router \ {r} : SameRoute(q)
           /\ (to \in {"idle", "charge", "tell"} /\ i \in 0 .. MaxItems /\ seen \in Item) =>
                /\ step' \in [Router -> {"idle", "charge", "tell"}]
                /\ held' \in [Router -> 0 .. MaxItems]
                /\ copy' \in [Router -> Item]
BY DEF Base, RoutingTypeOK, Hold, SameRoute

LEMMA NewItemType ==
    /\ \A f \in Failure : NewItem(f) \in Item
    /\ NoItem \in Item
<1>1. \A f \in Failure : NewItem(f) \in Item
  BY RoutingAssumption DEF NewItem, Item, ItemStatus
<1>2. (CHOOSE f \in Failure : TRUE) \in Failure BY RoutingAssumption
<1> QED BY <1>1, <1>2 DEF NoItem

\* What a human knows depends on the item's failure and place only.
LEMMA KnowsKept ==
    ASSUME IntentsKept, ItemsKept, NEW i \in ItemId, HumanKnows(i),
           \A r \in Router : (step[r] = "tell" /\ held[r] = i /\ copy[r].status = "escalated")
              => SameRoute(r) \/ SameKey(HumanKey(i, items[i]))' # {}
    PROVE  HumanKnows(i)'
<1>1. HumanKey(i, items'[i]) = HumanKey(i, items[i])
  BY DEF ItemsKept, HumanKey, Lineage
<1>2. CASE SameKey(HumanKey(i, items[i])) # {}
  <2>1. PICK n \in Id : intents[n].key = HumanKey(i, items[i]) BY <1>2 DEF SameKey
  <2>2. n \in Id' /\ intents'[n].key = HumanKey(i, items'[i])
    BY <1>1, <2>1 DEF IntentsKept
  <2> QED BY <2>2 DEF HumanKnows, SameKey
<1>3. CASE \E r \in Router : step[r] = "tell" /\ held[r] = i /\ copy[r].status = "escalated"
  <2>1. PICK r \in Router : step[r] = "tell" /\ held[r] = i /\ copy[r].status = "escalated"
    BY <1>3
  <2>2. CASE SameRoute(r) BY <2>1, <2>2 DEF SameRoute, HumanKnows
  <2>3. CASE ~SameRoute(r)
    <3>1. \E n \in Id' : intents'[n].key = HumanKey(i, items'[i])
      BY <1>1, <2>1, <2>3 DEF SameKey
    <3> QED BY <3>1 DEF HumanKnows, SameKey
  <2> QED BY <2>2, <2>3
<1> QED BY <1>2, <1>3 DEF HumanKnows

-----------------------------------------------------------------------------
\* The routes that may charge item i without escalating it.
Late(i) == {r \in Router : step[r] = "charge" /\ held[r] = i /\ copy[r].budget >= 2}

\* Until a human knows, the charges on an item and those it may still take
\* unheard are bounded.
LoopInv ==
    crashes = 0 =>
      \A i \in ItemId :
        HumanKnows(i) \/ charges[i] + Cardinality(Late(i)) <= Budget + Cardinality(Router) - 2

\* The escalated items no human knows of.
Untold == {i \in ItemId : items[i].status = "escalated" /\ ~HumanKnows(i)}

\* An item with a younger one of its failure was closed or escalated when the
\* younger was opened, so it is open only if a charge put it back.
ElderInv ==
    \A i, j \in ItemId :
        (i < j /\ items[i].failure = items[j].failure /\ items[i].status = "queued")
            => i \in reopened

RepairInv == Base /\ ElderInv /\ LoopInv /\ EscalationIsTold

LEMMA LateFinite ==
    ASSUME NEW i
    PROVE  /\ IsFiniteSet(Late(i)) /\ Cardinality(Late(i)) \in Nat
           /\ Cardinality(Router) \in Nat
           /\ Cardinality(Late(i)) <= Cardinality(Router)
<1>1. IsFiniteSet(Router) /\ Late(i) \in SUBSET Router BY RoutingAssumption DEF Late
<1> QED BY <1>1, FS_Subset, FS_CardinalityType

LEMMA UntoldFinite ==
    ASSUME Base
    PROVE  IsFiniteSet(Untold) /\ Cardinality(Untold) \in Nat
<1>1. ItemId = 1 .. Len(items) /\ Len(items) \in Nat BY BaseFacts
<1>2. IsFiniteSet(ItemId) BY <1>1, FS_Interval
<1>3. Untold \in SUBSET ItemId BY DEF Untold
<1> QED BY <1>2, <1>3, FS_Subset, FS_CardinalityType

\* No step but a cut adds to the untold.
LEMMA ToldKept ==
    ASSUME Base, EscalationIsTold, Untold' \subseteq Untold, crashes' = crashes
    PROVE  EscalationIsTold'
<1>1. IsFiniteSet(Untold) BY UntoldFinite
<1>2. Cardinality(Untold') <= Cardinality(Untold) /\ Cardinality(Untold') \in Nat
      /\ Cardinality(Untold) \in Nat
  BY <1>1, FS_Subset, FS_CardinalityType
<1>3. crashes \in Nat BY RoutingAssumption DEF Base, RoutingTypeOK
<1>4. Cardinality(Untold) <= crashes BY DEF EscalationIsTold, Untold
<1>5. Cardinality(Untold') <= crashes' BY <1>2, <1>3, <1>4
<1> QED BY <1>5 DEF EscalationIsTold, Untold

-----------------------------------------------------------------------------
\* One lemma per action: it preserves RepairInv.

\* A step that leaves the queue and the store alone keeps what holds of them.
LEMMA QueueUnchanged ==
    ASSUME Base, ElderInv, UNCHANGED <<storeVars, queueVars>>
    PROVE  ItemsKept /\ IntentsKept /\ StoreInv' /\ ElderInv' /\ ItemId' = ItemId
<1>1. StoreInv' /\ IntentsKept BY BaseFacts, StoreUnchanged
<1>2. UNCHANGED <<items, charges, reopened>> BY DEF queueVars
<1>3. ItemId' = ItemId BY <1>2 DEF ItemId
<1> QED BY <1>1, <1>2, <1>3 DEF ItemsKept, ElderInv

LEMMA FindItemKeeps ==
    ASSUME RepairInv, NEW r \in Router, NEW f \in Failure, FindItem(r, f)
    PROVE  RepairInv'
<1> USE DEF RepairInv
<1> DEFINE i == Min(OpenItems(f))
<1>1. i \in ItemId /\ items[i].failure = f /\ items[i].status = "queued"
  <2>1. OpenItems(f) \in SUBSET Nat /\ OpenItems(f) # {}
    BY BaseFacts DEF FindItem, OpenItems
  <2>2. i \in OpenItems(f) BY <2>1, MinIsIn
  <2> QED BY <2>2 DEF OpenItems
<1>2. /\ Hold(r, "charge", i, items[i])
      /\ UNCHANGED <<storeVars, queueVars, crashes>>
      /\ step[r] = "idle" /\ routes' = routes + 1 /\ routes < MaxRoutes
  BY DEF FindItem, Start, queueVars
<1>3. /\ Len(items) \in Nat /\ ItemId = 1 .. Len(items) /\ Len(items) <= MaxItems
      /\ items[i] \in Item /\ charges[i] \in Nat
      /\ \A n \in ItemId : charges[n] \in Nat
      /\ MaxItems \in Nat /\ Budget \in Nat \ {0}
  BY <1>1, BaseFacts, RoutingAssumption DEF Base
<1>4. i \in 0 .. MaxItems BY <1>1, <1>3
<1>5. /\ step'[r] = "charge" /\ held'[r] = i /\ copy'[r] = items[i]
      /\ \A q \in Router \ {r} : SameRoute(q)
      /\ step' \in [Router -> {"idle", "charge", "tell"}]
      /\ held' \in [Router -> 0 .. MaxItems]
      /\ copy' \in [Router -> Item]
  BY <1>2, <1>3, <1>4, HoldShape
<1>6. ItemsKept /\ IntentsKept /\ StoreInv' /\ ElderInv' /\ ItemId' = ItemId
  BY <1>2, QueueUnchanged
<1>7. items' = items /\ charges' = charges /\ reopened' = reopened /\ crashes' = crashes
  BY <1>2 DEF queueVars
<1>8. Base'
  <2>1. RoutingTypeOK'
    <3>1. routes' \in 0 .. MaxRoutes BY <1>2, RoutingAssumption DEF Base, RoutingTypeOK
    <3> QED BY <3>1, <1>5, <1>6, <1>7 DEF Base, RoutingTypeOK, StoreInv
  <2>2. \A q \in Router : CallInv(q)'
    <3>1. CallInv(r)' BY <1>1, <1>5, <1>6, <1>7 DEF CallInv
    <3>2. \A q \in Router \ {r} : CallInv(q)'
      BY <1>5, <1>6, SameRouteKeeps DEF Base
    <3> QED BY <3>1, <3>2
  <2> QED BY <2>1, <2>2, <1>6, <1>7 DEF Base, StoreInv
<1>9. \A n \in ItemId : HumanKnows(n) => HumanKnows(n)'
  <2>1. \A q \in Router : step[q] = "tell" => SameRoute(q) BY <1>2, <1>5
  <2> QED BY <2>1, <1>6, KnowsKept
<1>10. LoopInv'
  <2> SUFFICES ASSUME crashes = 0, NEW n \in ItemId, ~HumanKnows(n)'
               PROVE  charges[n] + Cardinality(Late(n)')
                        <= Budget + Cardinality(Router) - 2
    BY <1>6, <1>7 DEF LoopInv
  <2>1. charges[n] + Cardinality(Late(n)) <= Budget + Cardinality(Router) - 2
    BY <1>9 DEF LoopInv
  <2>2. CASE n = i /\ items[i].budget >= 2
    <3>1. items[i].budget = IF charges[i] < Budget THEN Budget - charges[i] ELSE 0
      BY <1>1 DEF Base
    <3>2. charges[i] <= Budget - 2 BY <2>2, <3>1, <1>3
    <3>3. IsFiniteSet(Router) /\ Late(n)' \in SUBSET Router
      BY RoutingAssumption DEF Late
    <3>4. Cardinality(Late(n)') <= Cardinality(Router) /\ Cardinality(Router) \in Nat
          /\ Cardinality(Late(n)') \in Nat
      BY <3>3, FS_Subset, FS_CardinalityType
    <3> QED BY <2>2, <3>2, <3>4, <1>3
  <2>3. CASE ~(n = i /\ items[i].budget >= 2)
    <3>1. Late(n)' = Late(n)
      BY <2>3, <1>2, <1>5 DEF Late, SameRoute
    <3> QED BY <3>1, <2>1
  <2> QED BY <2>2, <2>3
<1>11. EscalationIsTold'
  <2>1. Untold' \subseteq Untold BY <1>6, <1>7, <1>9 DEF Untold
  <2> QED BY <2>1, <1>7, ToldKept
<1> QED BY <1>6, <1>8, <1>10, <1>11

LEMMA OpenItemKeeps ==
    ASSUME RepairInv, NEW r \in Router, NEW f \in Failure, OpenItem(r, f)
    PROVE  RepairInv'
<1> USE DEF RepairInv
<1> DEFINE k == Len(items) + 1
<1>1. /\ Hold(r, "tell", k, NewItem(f))
      /\ items' = Append(items, NewItem(f)) /\ charges' = Append(charges, 0)
      /\ UNCHANGED <<storeVars, reopened, crashes>>
      /\ step[r] = "idle" /\ routes' = routes + 1 /\ routes < MaxRoutes
      /\ OpenItems(f) = {} /\ Len(items) < MaxItems
  BY DEF OpenItem, Start
<1>2. /\ Len(items) \in Nat /\ ItemId = 1 .. Len(items)
      /\ items \in Seq(Item) /\ charges \in Seq(Nat) /\ Len(charges) = Len(items)
      /\ \A n \in ItemId : charges[n] \in Nat
      /\ MaxItems \in Nat /\ Budget \in Nat \ {0} /\ NewItem(f) \in Item
      /\ reopened \subseteq ItemId
  BY BaseFacts, RoutingAssumption, NewItemType DEF Base, RoutingTypeOK
<1>3. /\ items' \in Seq(Item) /\ Len(items') = k /\ items'[k] = NewItem(f)
      /\ \A n \in ItemId : items'[n] = items[n]
  BY <1>1, <1>2, AppendProperties
<1>4. /\ charges' \in Seq(Nat) /\ Len(charges') = k /\ charges'[k] = 0
      /\ \A n \in ItemId : charges'[n] = charges[n]
  <2>1. 0 \in Nat OBVIOUS
  <2> QED BY <2>1, <1>1, <1>2, AppendProperties
<1>5. ItemId' = 1 .. k /\ ItemId' = ItemId \cup {k} /\ k \notin ItemId
  <2>1. ItemId' = 1 .. k BY <1>3, LenProperties DEF ItemId
  <2> QED BY <2>1, <1>2
<1>6. k \in 0 .. MaxItems BY <1>1, <1>2
<1>7. /\ step'[r] = "tell" /\ held'[r] = k /\ copy'[r] = NewItem(f)
      /\ \A q \in Router \ {r} : SameRoute(q)
      /\ step' \in [Router -> {"idle", "charge", "tell"}]
      /\ held' \in [Router -> 0 .. MaxItems]
      /\ copy' \in [Router -> Item]
  BY <1>1, <1>2, <1>6, HoldShape
<1>8. StoreInv' /\ IntentsKept BY <1>1, BaseFacts, StoreUnchanged
<1>9. ItemsKept BY <1>3, <1>5 DEF ItemsKept
<1>10. Base'
  <2>1. RoutingTypeOK'
    <3>1. routes' \in 0 .. MaxRoutes BY <1>1, RoutingAssumption DEF Base, RoutingTypeOK
    <3> QED BY <3>1, <1>1, <1>3, <1>4, <1>5, <1>7, <1>8 DEF Base, RoutingTypeOK, StoreInv
  <2>2. \A q \in Router : CallInv(q)'
    <3>1. CallInv(r)' BY <1>3, <1>5, <1>7 DEF CallInv, NewItem
    <3>2. \A q \in Router \ {r} : CallInv(q)'
      BY <1>7, <1>9, SameRouteKeeps DEF Base
    <3> QED BY <3>1, <3>2
  <2>3. \A n \in ItemId' :
          items'[n].budget = IF charges'[n] < Budget THEN Budget - charges'[n] ELSE 0
    <3>1. \A n \in ItemId :
            items'[n].budget = IF charges'[n] < Budget THEN Budget - charges'[n] ELSE 0
      BY <1>3, <1>4 DEF Base
    <3>2. items'[k].budget = Budget /\ charges'[k] = 0
      BY <1>3, <1>4 DEF NewItem
    <3> QED BY <1>2, <1>5, <3>1, <3>2
  <2>4. Len(items') <= MaxItems BY <1>1, <1>2, <1>3
  <2> QED BY <2>1, <2>2, <2>3, <2>4, <1>8 DEF Base, StoreInv
<1>11. ElderInv'
  <2> SUFFICES ASSUME NEW n \in ItemId', NEW m \in ItemId',
                      n < m, items'[n].failure = items'[m].failure,
                      items'[n].status = "queued"
               PROVE  n \in reopened
    BY <1>1 DEF ElderInv
  <2>1. n \in ItemId /\ items'[n] = items[n] BY <1>2, <1>3, <1>5
  <2>2. CASE m \in ItemId BY <2>1, <2>2, <1>3 DEF ElderInv
  <2>3. CASE m = k
    <3>1. items[n].failure = f BY <2>1, <2>3, <1>3 DEF NewItem
    <3>2. n \in OpenItems(f) BY <2>1, <3>1 DEF OpenItems
    <3> QED BY <3>2, <1>1
  <2> QED BY <2>2, <2>3, <1>5
<1>12. \A n \in ItemId : HumanKnows(n) => HumanKnows(n)'
  <2>1. \A q \in Router : step[q] = "tell" => SameRoute(q) BY <1>1, <1>7
  <2> QED BY <2>1, <1>8, <1>9, KnowsKept
<1>13. \A n \in ItemId' : Late(n)' \subseteq Late(n)
  BY <1>7 DEF Late, SameRoute
<1>14. LoopInv'
  <2> SUFFICES ASSUME crashes = 0, NEW n \in ItemId', ~HumanKnows(n)'
               PROVE  charges'[n] + Cardinality(Late(n)')
                        <= Budget + Cardinality(Router) - 2
    BY <1>1 DEF LoopInv
  <2>1. IsFiniteSet(Late(n)) /\ Cardinality(Late(n)) \in Nat /\ Cardinality(Router) \in Nat
    BY LateFinite
  <2>2. Cardinality(Late(n)') <= Cardinality(Late(n)) /\ Cardinality(Late(n)') \in Nat
    BY <2>1, <1>13, FS_Subset, FS_CardinalityType
  <2>3. CASE n \in ItemId
    <3>1. charges[n] + Cardinality(Late(n)) <= Budget + Cardinality(Router) - 2
      BY <1>12, <2>3 DEF LoopInv
    <3>2. charges'[n] = charges[n] /\ charges[n] \in Nat BY <2>3, <1>2, <1>4
    <3>3. Budget \in Nat BY <1>2
    <3> QED BY <3>1, <3>2, <3>3, <2>1, <2>2
  <2>4. CASE n = k
    <3>1. \A q \in Router : step[q] = "charge" => held[q] # k
      BY <1>5 DEF Base, CallInv
    <3>2. Late(n)' = {} BY <3>1, <2>4, <1>13 DEF Late
    <3>3. IsFiniteSet(Router) /\ Router # {} BY RoutingAssumption
    <3>4. Cardinality(Router) >= 1 BY <3>3, <2>1, FS_EmptySet
    <3> QED BY <3>2, <3>4, <2>4, <2>1, <1>2, <1>4, FS_EmptySet
  <2> QED BY <2>3, <2>4, <1>5
<1>15. EscalationIsTold'
  <2>1. Untold' \subseteq Untold
    BY <1>3, <1>5, <1>12 DEF Untold, NewItem
  <2> QED BY <2>1, <1>1, ToldKept
<1> QED BY <1>10, <1>11, <1>14, <1>15

LEMMA ChargeKeeps ==
    ASSUME RepairInv, NEW r \in Router, Charge(r)
    PROVE  RepairInv'
<1> USE DEF RepairInv
<1>0. PICK i : i = held[r] OBVIOUS
<1> DEFINE charged == [items[i] EXCEPT !.budget = Less(@),
                                  !.status = ChargedAs(copy[r])]
<1>1. /\ step[r] = "charge"
      /\ items' = [items EXCEPT ![i] = charged]
      /\ charges' = [charges EXCEPT ![i] = @ + 1]
      /\ reopened' = IF items[i].status # "queued" /\ charged.status = "queued"
                     THEN reopened \cup {i} ELSE reopened
      /\ Hold(r, "tell", i, charged)
      /\ UNCHANGED <<storeVars, routes, crashes>>
  BY <1>0 DEF Charge
<1>2. /\ Len(items) \in Nat /\ ItemId = 1 .. Len(items) /\ DOMAIN charges = ItemId
      /\ items \in Seq(Item) /\ charges \in Seq(Nat) /\ Len(charges) = Len(items)
      /\ \A n \in ItemId : charges[n] \in Nat /\ items[n] \in Item
      /\ MaxItems \in Nat /\ Budget \in Nat \ {0}
      /\ reopened \subseteq ItemId /\ Len(items) <= MaxItems
      /\ copy[r] \in Item
  BY BaseFacts, RoutingAssumption DEF Base, RoutingTypeOK
<1>3. i \in ItemId /\ copy[r].status = "queued" /\ items[i].failure = copy[r].failure
  BY <1>0, <1>1 DEF Base, CallInv
<1>4. /\ charged \in Item
      /\ charged.failure = items[i].failure
      /\ charged.budget = Less(items[i].budget)
      /\ charged.status = IF copy[r].budget <= 1 THEN "escalated" ELSE "queued"
  <2>1. items[i] \in Item /\ items[i].budget \in 0 .. Budget BY <1>2, <1>3 DEF Item
  <2>2. Less(items[i].budget) \in 0 .. Budget BY <2>1, <1>2 DEF Less
  <2>3. ChargedAs(copy[r]) = IF copy[r].budget <= 1 THEN "escalated" ELSE "queued"
    BY <1>3 DEF ChargedAs
  <2> QED BY <2>1, <2>2, <2>3 DEF Item, ItemStatus
<1>5. /\ items' \in Seq(Item) /\ Len(items') = Len(items) /\ items'[i] = charged
      /\ \A n \in ItemId \ {i} : items'[n] = items[n]
      /\ ItemId' = ItemId
  <2>1. items' \in Seq(Item) /\ Len(items') = Len(items)
    BY <1>1, <1>2, <1>3, <1>4, ExceptSeq
  <2> QED BY <2>1, <1>1, <1>3 DEF ItemId
<1>6. /\ charges' \in Seq(Nat) /\ Len(charges') = Len(items)
      /\ charges'[i] = charges[i] + 1
      /\ \A n \in ItemId \ {i} : charges'[n] = charges[n]
  <2>1. charges[i] + 1 \in Nat BY <1>2, <1>3
  <2>2. charges' = [charges EXCEPT ![i] = charges[i] + 1] BY <1>1
  <2>3. charges' \in Seq(Nat) /\ Len(charges') = Len(charges)
    BY <2>1, <2>2, <1>2, <1>3, ExceptSeq
  <2> QED BY <2>2, <2>3, <1>2, <1>3
<1>7. i \in 0 .. MaxItems BY <1>2, <1>3
<1>8. /\ step'[r] = "tell" /\ held'[r] = i /\ copy'[r] = charged
      /\ \A q \in Router \ {r} : SameRoute(q)
      /\ step' \in [Router -> {"idle", "charge", "tell"}]
      /\ held' \in [Router -> 0 .. MaxItems]
      /\ copy' \in [Router -> Item]
  BY <1>1, <1>4, <1>7, HoldShape
<1>9. StoreInv' /\ IntentsKept BY <1>1, BaseFacts, StoreUnchanged
<1>10. ItemsKept BY <1>4, <1>5 DEF ItemsKept
<1>11. Base'
  <2>1. RoutingTypeOK'
    <3>1. reopened' \subseteq ItemId BY <1>1, <1>2, <1>3
    <3> QED BY <3>1, <1>1, <1>5, <1>6, <1>8, <1>9 DEF Base, RoutingTypeOK, StoreInv
  <2>2. \A q \in Router : CallInv(q)'
    <3>1. CallInv(r)' BY <1>3, <1>4, <1>5, <1>8 DEF CallInv
    <3>2. \A q \in Router \ {r} : CallInv(q)'
      BY <1>8, <1>10, SameRouteKeeps DEF Base
    <3> QED BY <3>1, <3>2
  <2>3. \A n \in ItemId' :
          items'[n].budget = IF charges'[n] < Budget THEN Budget - charges'[n] ELSE 0
    <3>1. \A n \in ItemId :
            items[n].budget = IF charges[n] < Budget THEN Budget - charges[n] ELSE 0
      BY DEF Base
    <3>2. items'[i].budget = IF charges'[i] < Budget THEN Budget - charges'[i] ELSE 0
      <4>1. items'[i].budget = Less(items[i].budget) BY <1>4, <1>5
      <4>2. charges[i] \in Nat /\ charges'[i] = charges[i] + 1 BY <1>2, <1>3, <1>6
      <4> QED BY <4>1, <4>2, <3>1, <1>2, <1>3 DEF Less
    <3> QED BY <3>1, <3>2, <1>5, <1>6
  <2> QED BY <2>1, <2>2, <2>3, <1>2, <1>5, <1>9 DEF Base, StoreInv
<1>12. ElderInv'
  <2> SUFFICES ASSUME NEW n \in ItemId, NEW m \in ItemId,
                      n < m, items'[n].failure = items'[m].failure,
                      items'[n].status = "queued"
               PROVE  n \in reopened'
    BY <1>5 DEF ElderInv
  <2>1. items[n].failure = items[m].failure BY <1>10 DEF ItemsKept
  <2>2. CASE items[n].status = "queued" BY <2>1, <2>2, <1>1 DEF ElderInv
  <2>3. CASE items[n].status # "queued"
    <3>1. n = i BY <2>3, <1>5
    <3> QED BY <3>1, <2>3, <1>1, <1>5
  <2> QED BY <2>2, <2>3
<1>13. \A n \in ItemId : HumanKnows(n) => HumanKnows(n)'
  <2>1. \A q \in Router : step[q] = "tell" => SameRoute(q) BY <1>1, <1>8
  <2> QED BY <2>1, <1>9, <1>10, KnowsKept
<1>14. \A n \in ItemId : n = i /\ copy[r].budget <= 1 => HumanKnows(n)'
  BY <1>4, <1>8 DEF HumanKnows
<1>15. LoopInv'
  <2> SUFFICES ASSUME crashes = 0, NEW n \in ItemId, ~HumanKnows(n)'
               PROVE  charges'[n] + Cardinality(Late(n)')
                        <= Budget + Cardinality(Router) - 2
    BY <1>1, <1>5 DEF LoopInv
  <2>1. charges[n] + Cardinality(Late(n)) <= Budget + Cardinality(Router) - 2
    BY <1>13 DEF LoopInv
  <2>2. IsFiniteSet(Late(n)) /\ Cardinality(Late(n)) \in Nat /\ Cardinality(Router) \in Nat
    BY LateFinite
  <2>3. CASE n = i
    <3>1. copy[r].budget \in 0 .. Budget BY <1>2 DEF Item
    <3>2. copy[r].budget >= 2 BY <3>1, <2>3, <1>2, <1>14
    <3>3. r \in Late(n) BY <3>2, <2>3, <1>0, <1>1 DEF Late
    <3>4. Late(n)' = Late(n) \ {r} BY <1>8 DEF Late, SameRoute
    <3>5. Cardinality(Late(n)') = Cardinality(Late(n)) - 1
      BY <3>3, <3>4, <2>2, FS_RemoveElement
    <3>6. charges'[n] = charges[n] + 1 /\ charges[n] \in Nat
      BY <2>3, <1>2, <1>3, <1>6
    <3>7. Budget \in Nat BY <1>2
    <3> QED BY <3>5, <3>6, <3>7, <2>1, <2>2
  <2>4. CASE n # i
    <3>1. Late(n)' = Late(n) BY <2>4, <1>0, <1>1, <1>8 DEF Late, SameRoute
    <3> QED BY <3>1, <2>1, <2>4, <1>6
  <2> QED BY <2>3, <2>4
<1>16. EscalationIsTold'
  <2>1. Untold' \subseteq Untold
    <3> SUFFICES ASSUME NEW n \in ItemId, items'[n].status = "escalated", ~HumanKnows(n)'
                 PROVE  n \in Untold
      BY <1>5 DEF Untold
    <3>1. n = i => copy[r].budget <= 1
      <4> HIDE DEF charged
      <4>1. items'[i].status = IF copy[r].budget <= 1 THEN "escalated" ELSE "queued"
        BY <1>4, <1>5
      <4> QED BY <4>1
    <3>2. n # i BY <3>1, <1>14
    <3> QED BY <3>2, <1>5, <1>13 DEF Untold
  <2> QED BY <2>1, <1>1, ToldKept
<1> QED BY <1>11, <1>12, <1>15, <1>16

\* A step that charges nothing and lets no route look an item up keeps LoopInv.
LEMMA LoopKept ==
    ASSUME Base, LoopInv, crashes' = crashes, charges' = charges, ItemId' = ItemId,
           \A n \in ItemId : Late(n)' \subseteq Late(n),
           \A n \in ItemId : HumanKnows(n) => HumanKnows(n)'
    PROVE  LoopInv'
<1> SUFFICES ASSUME crashes = 0, NEW n \in ItemId, ~HumanKnows(n)'
             PROVE  charges[n] + Cardinality(Late(n)')
                      <= Budget + Cardinality(Router) - 2
  BY DEF LoopInv
<1>1. charges[n] + Cardinality(Late(n)) <= Budget + Cardinality(Router) - 2
  BY DEF LoopInv
<1>2. IsFiniteSet(Late(n)) /\ Cardinality(Late(n)) \in Nat /\ Cardinality(Router) \in Nat
  BY LateFinite
<1>3. Cardinality(Late(n)') <= Cardinality(Late(n)) /\ Cardinality(Late(n)') \in Nat
  BY <1>2, FS_Subset, FS_CardinalityType
<1>4. charges[n] \in Nat /\ Budget \in Nat BY BaseFacts, RoutingAssumption
<1> QED BY <1>1, <1>2, <1>3, <1>4

\* A route that ends leaves the queue as it is and charges nothing any more.
LEMMA ForgetKeeps ==
    ASSUME Base, ElderInv, NEW r \in Router, Forget(r), StoreInv', UNCHANGED queueVars,
           routes' = routes, crashes' \in 0 .. MaxCrashes
    PROVE  /\ Base' /\ ElderInv' /\ ItemsKept /\ ItemId' = ItemId
           /\ \A q \in Router \ {r} : SameRoute(q)
           /\ \A n \in ItemId : Late(n)' \subseteq Late(n)
<1>1. Hold(r, "idle", 0, NoItem) BY DEF Forget
<1>2. 0 \in 0 .. MaxItems /\ NoItem \in Item BY RoutingAssumption, NewItemType
<1>3. /\ step'[r] = "idle"
      /\ \A q \in Router \ {r} : SameRoute(q)
      /\ step' \in [Router -> {"idle", "charge", "tell"}]
      /\ held' \in [Router -> 0 .. MaxItems]
      /\ copy' \in [Router -> Item]
  BY <1>1, <1>2, HoldShape
<1>4. UNCHANGED <<items, charges, reopened>> /\ ItemId' = ItemId
  BY DEF queueVars, ItemId
<1>5. ItemsKept BY <1>4 DEF ItemsKept
<1>6. \A q \in Router : CallInv(q)'
  <2>1. CallInv(r)' BY <1>3 DEF CallInv
  <2>2. \A q \in Router \ {r} : CallInv(q)' BY <1>3, <1>5, SameRouteKeeps DEF Base
  <2> QED BY <2>1, <2>2
<1>7. Base' BY <1>3, <1>4, <1>6 DEF Base, RoutingTypeOK, StoreInv
<1>8. ElderInv' BY <1>4 DEF ElderInv
<1>9. \A n \in ItemId : Late(n)' \subseteq Late(n) BY <1>3 DEF Late, SameRoute
<1> QED BY <1>3, <1>4, <1>5, <1>7, <1>8, <1>9

LEMMA TellKeeps ==
    ASSUME RepairInv, NEW r \in Router, Tell(r)
    PROVE  RepairInv'
<1> USE DEF RepairInv
<1>0. PICK k : k = KeyToTell(held[r], copy[r]) OBVIOUS
<1>1. /\ step[r] = "tell" /\ Upsert(k) /\ Forget(r)
      /\ UNCHANGED <<queueVars, routes, crashes>>
  BY <1>0 DEF Tell
<1>2. StoreInv' /\ IntentsKept /\ SameKey(k)' # {}
  <2>1. k \in Key BY <1>0, <1>1, KeysAreKeys
  <2> QED BY <2>1, <1>1, BaseFacts, UpsertTells
<1>3. /\ Base' /\ ElderInv' /\ ItemsKept /\ ItemId' = ItemId
      /\ \A q \in Router \ {r} : SameRoute(q)
      /\ \A n \in ItemId : Late(n)' \subseteq Late(n)
  <2>1. crashes' \in 0 .. MaxCrashes BY <1>1 DEF Base, RoutingTypeOK
  <2> QED BY <2>1, <1>1, <1>2, ForgetKeeps
<1>4. UNCHANGED <<items, charges, crashes>> BY <1>1 DEF queueVars
<1>5. \A n \in ItemId : HumanKnows(n) => HumanKnows(n)'
  <2> SUFFICES ASSUME NEW n \in ItemId, HumanKnows(n) PROVE HumanKnows(n)'
    OBVIOUS
  <2>1. \A q \in Router :
          (step[q] = "tell" /\ held[q] = n /\ copy[q].status = "escalated")
             => SameRoute(q) \/ SameKey(HumanKey(n, items[n]))' # {}
    <3> SUFFICES ASSUME held[r] = n, copy[r].status = "escalated"
                 PROVE  SameKey(HumanKey(n, items[n]))' # {}
      BY <1>3
    <3>1. copy[r].failure = items[n].failure BY <1>1 DEF Base, CallInv
    <3>2. HumanKey(n, items'[n]) = k
      BY <3>1, <1>0, <1>4 DEF KeyToTell, HumanKey, Lineage
    <3> QED BY <3>2, <1>2 DEF SameKey
  <2> QED BY <2>1, <1>2, <1>3, KnowsKept
<1>6. LoopInv' BY <1>3, <1>4, <1>5, LoopKept
<1>7. EscalationIsTold'
  <2>1. Untold' \subseteq Untold BY <1>3, <1>4, <1>5 DEF Untold
  <2> QED BY <2>1, <1>4, ToldKept
<1> QED BY <1>3, <1>6, <1>7

LEMMA CutShortKeeps ==
    ASSUME RepairInv, NEW r \in Router, CutShort(r)
    PROVE  RepairInv'
<1> USE DEF RepairInv
<1>0. PICK i : i = held[r] OBVIOUS
<1>1. /\ Forget(r) /\ crashes' = crashes + 1 /\ crashes < MaxCrashes
      /\ UNCHANGED <<storeVars, queueVars, routes>>
  BY DEF CutShort
<1>2. crashes \in Nat /\ crashes' \in 0 .. MaxCrashes
  BY <1>1, RoutingAssumption DEF Base, RoutingTypeOK
<1>3. StoreInv' /\ IntentsKept BY <1>1, BaseFacts, StoreUnchanged
<1>4. /\ Base' /\ ElderInv' /\ ItemsKept /\ ItemId' = ItemId
      /\ \A q \in Router \ {r} : SameRoute(q)
  BY <1>1, <1>2, <1>3, ForgetKeeps
<1>5. items' = items BY <1>1 DEF queueVars
<1>6. LoopInv' BY <1>1, <1>2 DEF LoopInv
<1>7. \A n \in ItemId \ {i} : HumanKnows(n) => HumanKnows(n)'
  <2>1. \A n \in ItemId \ {i}, q \in Router : held[q] = n => SameRoute(q)
    BY <1>0, <1>4
  <2> QED BY <2>1, <1>3, <1>4, KnowsKept
<1>8. EscalationIsTold'
  <2>1. Untold' \in SUBSET (Untold \cup {i}) BY <1>4, <1>5, <1>7 DEF Untold
  <2>2. IsFiniteSet(Untold) /\ Cardinality(Untold) \in Nat BY UntoldFinite
  <2>3. /\ IsFiniteSet(Untold \cup {i})
        /\ Cardinality(Untold \cup {i}) <= Cardinality(Untold) + 1
        /\ Cardinality(Untold \cup {i}) \in Nat
    <3>1. /\ IsFiniteSet(Untold \cup {i})
          /\ Cardinality(Untold \cup {i}) =
               IF i \in Untold THEN Cardinality(Untold) ELSE Cardinality(Untold) + 1
      BY <2>2, FS_AddElement
    <3> QED BY <3>1, <2>2
  <2>4. Cardinality(Untold') <= Cardinality(Untold \cup {i}) /\ Cardinality(Untold') \in Nat
    BY <2>1, <2>3, FS_Subset, FS_CardinalityType
  <2>5. Cardinality(Untold) <= crashes BY DEF EscalationIsTold, Untold
  <2>6. Cardinality(Untold') <= crashes' BY <2>2, <2>3, <2>4, <2>5, <1>1, <1>2
  <2> QED BY <2>6 DEF EscalationIsTold, Untold
<1> QED BY <1>4, <1>6, <1>8

LEMMA CloseForTaskKeeps ==
    ASSUME RepairInv, NEW t \in Task, CloseForTask(t)
    PROVE  RepairInv'
<1> USE DEF RepairInv
<1> DEFINE closed(n) == IF TaskOf[items[n].failure] = t /\ items[n].status = "queued"
                        THEN [items[n] EXCEPT !.status = "completed"]
                        ELSE items[n]
<1>1. /\ items' = [n \in ItemId |-> closed(n)]
      /\ UNCHANGED <<storeVars, charges, reopened, routeVars>>
  BY DEF CloseForTask
<1>2. UNCHANGED <<step, held, copy, routes, crashes>> BY <1>1 DEF routeVars
<1>3. /\ Len(items) \in Nat /\ ItemId = 1 .. Len(items)
      /\ \A n \in ItemId : items[n] \in Item
      /\ Len(items) <= MaxItems
  BY BaseFacts DEF Base
<1>4. \A n \in ItemId : /\ closed(n) \in Item
                        /\ closed(n).failure = items[n].failure
                        /\ closed(n).budget = items[n].budget
                        /\ closed(n).status \in {"queued", "escalated"} =>
                             closed(n).status = items[n].status
  BY <1>3 DEF Item, ItemStatus
<1>5. /\ items' \in Seq(Item) /\ Len(items') = Len(items) /\ ItemId' = ItemId
      /\ \A n \in ItemId : items'[n] = closed(n)
  <2> HIDE DEF closed
  <2>1. items' = [n \in 1 .. Len(items) |-> closed(n)] BY <1>1, <1>3
  <2>2. \A n \in 1 .. Len(items) : closed(n) \in Item BY <1>3, <1>4
  <2>3. items' \in Seq(Item) BY <2>1, <2>2, <1>3, IsASeq
  <2>4. DOMAIN items' = 1 .. Len(items) BY <2>1
  <2>5. Len(items') = Len(items) BY <2>3, <2>4, <1>3, LenProperties
  <2> QED BY <2>1, <2>3, <2>4, <2>5, <1>3 DEF ItemId
<1> HIDE DEF closed
<1>6. StoreInv' /\ IntentsKept BY <1>1, BaseFacts, StoreUnchanged
<1>7. ItemsKept BY <1>4, <1>5 DEF ItemsKept
<1>8. \A q \in Router : SameRoute(q) BY <1>2 DEF SameRoute
<1>9. Base'
  <2>1. RoutingTypeOK' BY <1>1, <1>2, <1>5, <1>6 DEF Base, RoutingTypeOK, StoreInv
  <2>2. \A q \in Router : CallInv(q)' BY <1>7, <1>8, SameRouteKeeps DEF Base
  <2>3. \A n \in ItemId' :
          items'[n].budget = IF charges'[n] < Budget THEN Budget - charges'[n] ELSE 0
    BY <1>1, <1>4, <1>5 DEF Base
  <2> QED BY <2>1, <2>2, <2>3, <1>3, <1>5, <1>6 DEF Base, StoreInv
<1>10. ElderInv' BY <1>1, <1>4, <1>5 DEF ElderInv
<1>11. \A n \in ItemId : HumanKnows(n) => HumanKnows(n)'
  BY <1>6, <1>7, <1>8, KnowsKept
<1>12. \A n \in ItemId : Late(n)' \subseteq Late(n) BY <1>2 DEF Late
<1>13. LoopInv' BY <1>1, <1>2, <1>5, <1>11, <1>12, LoopKept
<1>14. EscalationIsTold'
  <2>1. Untold' \subseteq Untold BY <1>4, <1>5, <1>11 DEF Untold
  <2> QED BY <2>1, <1>2, ToldKept
<1> QED BY <1>9, <1>10, <1>13, <1>14

\* What happens to the intents of the store concerns no route.
LEMMA StoreStepKeeps ==
    ASSUME RepairInv, StoreInv', IntentsKept, UNCHANGED <<queueVars, routeVars>>
    PROVE  RepairInv'
<1> USE DEF RepairInv
<1>1. UNCHANGED <<items, charges, reopened, step, held, copy, routes, crashes>>
  BY DEF queueVars, routeVars
<1>2. ItemId' = ItemId BY <1>1 DEF ItemId
<1>3. ItemsKept /\ \A q \in Router : SameRoute(q) BY <1>1, <1>2 DEF ItemsKept, SameRoute
<1>4. Base'
  <2>1. \A q \in Router : CallInv(q)' BY <1>3, SameRouteKeeps DEF Base
  <2> QED BY <2>1, <1>1, <1>2 DEF Base, RoutingTypeOK, StoreInv
<1>5. ElderInv' BY <1>1, <1>2 DEF ElderInv
<1>6. \A n \in ItemId : HumanKnows(n) => HumanKnows(n)' BY <1>3, KnowsKept
<1>7. \A n \in ItemId : Late(n)' \subseteq Late(n) BY <1>1 DEF Late
<1>8. LoopInv' BY <1>1, <1>2, <1>6, <1>7, LoopKept
<1>9. EscalationIsTold'
  <2>1. Untold' \subseteq Untold BY <1>1, <1>2, <1>6 DEF Untold
  <2> QED BY <2>1, <1>1, ToldKept
<1> QED BY <1>4, <1>5, <1>8, <1>9

-----------------------------------------------------------------------------
LEMMA RepairInvInit == RoutingInit => RepairInv
<1> SUFFICES ASSUME RoutingInit PROVE RepairInv
  OBVIOUS
<1>1. StoreInv BY StoreInit_Inv DEF RoutingInit
<1>2. /\ items = <<>> /\ charges = <<>> /\ reopened = {} /\ routes = 0 /\ crashes = 0
      /\ step = [r \in Router |-> "idle"] /\ held = [r \in Router |-> 0]
      /\ copy = [r \in Router |-> NoItem]
  BY DEF RoutingInit
<1>3. ItemId = {} /\ Len(items) = 0 /\ items \in Seq(Item) /\ charges \in Seq(Nat)
      /\ Len(charges) = 0
  BY <1>2, EmptySeq DEF ItemId
<1>4. NoItem \in Item /\ MaxItems \in Nat /\ MaxRoutes \in Nat /\ MaxCrashes \in Nat
  BY RoutingAssumption, NewItemType
<1>5. RoutingTypeOK BY <1>1, <1>2, <1>3, <1>4 DEF RoutingTypeOK, StoreInv
<1>6. \A r \in Router : CallInv(r) BY <1>2 DEF CallInv
<1>7. Base BY <1>1, <1>3, <1>4, <1>5, <1>6 DEF Base, StoreInv
<1>8. Untold = {} BY <1>3 DEF Untold
<1>9. EscalationIsTold BY <1>2, <1>8, FS_EmptySet DEF EscalationIsTold, Untold
<1> QED BY <1>3, <1>7, <1>9 DEF RepairInv, ElderInv, LoopInv

LEMMA RepairInvStep == RepairInv /\ [RoutingNext]_repairVars => RepairInv'
<1> SUFFICES ASSUME RepairInv, [RoutingNext]_repairVars PROVE RepairInv'
  OBVIOUS
<1>1. StoreInv BY BaseFacts DEF RepairInv
<1>2. ASSUME NEW r \in Router, NEW f \in Failure, FindItem(r, f) PROVE RepairInv'
  BY <1>2, FindItemKeeps
<1>3. ASSUME NEW r \in Router, NEW f \in Failure, OpenItem(r, f) PROVE RepairInv'
  BY <1>3, OpenItemKeeps
<1>4. ASSUME NEW r \in Router, Charge(r) PROVE RepairInv'
  BY <1>4, ChargeKeeps
<1>5. ASSUME NEW r \in Router, Tell(r) PROVE RepairInv'
  BY <1>5, TellKeeps
<1>6. ASSUME NEW r \in Router, CutShort(r) PROVE RepairInv'
  BY <1>6, CutShortKeeps
<1>7. ASSUME NEW t \in Task, CloseForTask(t) PROVE RepairInv'
  BY <1>7, CloseForTaskKeeps
<1>8. ASSUME NEW i \in Id, Handle(i) PROVE RepairInv'
  <2>1. StoreInv' /\ IntentsKept BY <1>1, <1>8, HandleKeeps
  <2> QED BY <2>1, <1>8, StoreStepKeeps DEF Handle
<1>9. CASE UNCHANGED repairVars
  <2>1. UNCHANGED <<storeVars, queueVars, routeVars>> BY <1>9 DEF repairVars
  <2>2. StoreInv' /\ IntentsKept BY <1>1, <2>1, StoreUnchanged
  <2> QED BY <2>1, <2>2, StoreStepKeeps
<1> QED BY <1>2, <1>3, <1>4, <1>5, <1>6, <1>7, <1>8, <1>9 DEF RoutingNext

LEMMA RepairInvHolds == RoutingSpec => []RepairInv
BY RepairInvInit, RepairInvStep, PTL DEF RoutingSpec

-----------------------------------------------------------------------------
\* The repair queue and the routes keep their types, whatever routes overlap
\* (createWorkflowRepairQueueItem, updateWorkflowRepairQueueItem).
THEOREM RoutingTypeCorrect == RoutingSpec => []RoutingTypeOK
<1>1. RepairInv => RoutingTypeOK BY DEF RepairInv, Base
<1> QED BY <1>1, RepairInvHolds, PTL

\* A failure has two open repair items only where a charge put a closed or
\* escalated one back (createWorkflowRepairQueueItem, routeWorkflowFailure).
THEOREM TwinsOnlyByReopeningHolds == RoutingSpec => []TwinsOnlyByReopening
<1>1. RepairInv => TwinsOnlyByReopening
  BY DEF RepairInv, ElderInv, TwinsOnlyByReopening
<1> QED BY <1>1, RepairInvHolds, PTL

\* However many routes overlap, an item that was charged its budget and once
\* more for every route but one has been brought before a human, unless a call
\* was cut short (routeWorkflowFailure).
THEOREM LoopIsHeardHolds == RoutingSpec => []LoopIsHeard
<1>1. RepairInv => LoopIsHeard
  <2> SUFFICES ASSUME RepairInv, NEW i \in ItemId,
                      charges[i] >= Budget + Cardinality(Router) - 1,
                      crashes \in Nat, ~(crashes > 0)
               PROVE  HumanKnows(i)
    BY RoutingAssumption DEF LoopIsHeard, RepairInv, Base, RoutingTypeOK
  <2>1. crashes = 0 OBVIOUS
  <2>2. /\ charges[i] \in Nat /\ Budget \in Nat
        /\ Cardinality(Late(i)) \in Nat /\ Cardinality(Router) \in Nat
    BY BaseFacts, LateFinite, RoutingAssumption DEF RepairInv
  <2>3. HumanKnows(i) \/ charges[i] + Cardinality(Late(i)) <= Budget + Cardinality(Router) - 2
    BY <2>1 DEF RepairInv, LoopInv
  <2> QED BY <2>2, <2>3
<1> QED BY <1>1, RepairInvHolds, PTL

\* At most as many escalated items are unknown to a human as calls were cut
\* short (routeWorkflowFailure, updateWorkflowRepairQueueItem).
THEOREM EscalationIsToldHolds == RoutingSpec => []EscalationIsTold
<1>1. RepairInv => EscalationIsTold BY DEF RepairInv
<1> QED BY <1>1, RepairInvHolds, PTL

=============================================================================
