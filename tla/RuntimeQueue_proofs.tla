-------------------------- MODULE RuntimeQueue_proofs --------------------------
(***************************************************************************)
(* What the runtime queue guarantees for any number of works, requests,     *)
(* runs and faults, while starters and the service write back entries that  *)
(* they read long before. In this order: a run is started only when its     *)
(* work is on record, as no write loses a work without the history saying   *)
(* so (RecordInv); the types (TypeInv); only launches that overlap run a    *)
(* work twice (RaceInv); what is done stays done (DoneInv); and requested   *)
(* work is not failed untried (FreshInv). The last three follow what the    *)
(* callers' copies, lists and hands still know of the queue.                *)
(***************************************************************************)
EXTENDS RuntimeQueue, TLAPS

\* The queue has an entry of the work, or lost it to a write of older entries.
OnRecord(k) == queue[k] # None \/ k \in erased

\* The types the argument needs.
RecordTypes ==
    /\ queue \in Queue
    /\ snap \in [Caller -> Queue]
    /\ tries \in [Caller -> 0 .. MaxRepairAttempts]
    /\ DOMAIN pc = Caller /\ DOMAIN hand = Caller
    /\ DOMAIN runs = Run /\ DOMAIN keyOf = Run

\* A request has its work in hand, and a work about to be launched is on record.
RecordInv ==
    /\ RecordTypes
    /\ \A c \in Starter : pc[c] # "idle" => hand[c] \in Key
    /\ \A c \in Caller :
         pc[c] \in {"intent", "launching"} => hand[c] \in Key /\ OnRecord(hand[c])

NothingLost == \A k \in Key : OnRecord(k) => OnRecord(k)'

NoNewRun == \A r \in Run : runs'[r] = "live" => runs[r] = "live"

Stays(c) == pc'[c] = pc[c] /\ hand'[c] = hand[c]

\* What is shown of every step but Spawn.
Quiet == RecordInv' /\ NoNewRun

-----------------------------------------------------------------------------
LEMMA EntryTypes ==
    /\ Request \in QueueEntry /\ None \notin QueueEntry
    /\ \A e \in QueueEntry \cup {None}, s \in QueueStatus :
         Marked(e, s) \in QueueEntry \cup {None} /\ (Marked(e, s) = None <=> e = None)
    /\ \A e \in QueueEntry \cup {None} :
         /\ Aged(e) \in QueueEntry \cup {None} /\ (Aged(e) = None <=> e = None)
         /\ Requested(e) \subseteq QueueEntry
         /\ AttemptsOf(e) \in 0 .. MaxRepairAttempts
    /\ \A n \in 0 .. MaxRepairAttempts : Counted(n) \in 0 .. MaxRepairAttempts
<1> USE QueueAssumption, NoneAssumption
<1>1. Request \in QueueEntry BY DEF Request, QueueEntry, QueueStatus
<1>2. ASSUME NEW e \in QueueEntry, NEW s \in QueueStatus
      PROVE  Marked(e, s) \in QueueEntry
  <2>1. [e EXCEPT !.status = s, !.launched = @ \/ s \in {"running", "degraded"}] \in QueueEntry
    BY DEF QueueEntry
  <2>2. e # None OBVIOUS
  <2> QED BY <2>1, <2>2 DEF Marked
<1>3. ASSUME NEW e \in QueueEntry PROVE Aged(e) \in QueueEntry
  <2>1. [e EXCEPT !.old = TRUE] \in QueueEntry BY DEF QueueEntry
  <2> QED BY <2>1 DEF Aged
<1>4. Aged(None) = None BY DEF Aged, Young
<1>5. ASSUME NEW e \in QueueEntry \cup {None} PROVE Requested(e) \subseteq QueueEntry
  <2>1. ASSUME NEW old \in BOOLEAN PROVE [Request EXCEPT !.old = old] \in QueueEntry
    BY <1>1 DEF QueueEntry
  <2>2. e # None => e.old \in BOOLEAN BY DEF QueueEntry
  <2> QED BY <2>1, <2>2 DEF Requested
<1>6. ASSUME NEW e \in QueueEntry \cup {None} PROVE AttemptsOf(e) \in 0 .. MaxRepairAttempts
  BY DEF AttemptsOf, QueueEntry
<1>7. \A n \in 0 .. MaxRepairAttempts : Counted(n) \in 0 .. MaxRepairAttempts
  BY DEF Counted
<1>8. \A s : Marked(None, s) = None BY DEF Marked
<1> QED BY <1>1, <1>2, <1>3, <1>4, <1>5, <1>6, <1>7, <1>8

\* One caller moves.
LEMMA MoveKeeps ==
    ASSUME RecordInv, RecordTypes', NothingLost, NEW c \in Caller, NEW k,
           hand'[c] = k,
           \A d \in Caller \ {c} : Stays(d),
           c \in Starter => pc'[c] = "idle" \/ k \in Key,
           pc'[c] \in {"intent", "launching"} => k \in Key /\ OnRecord(k)'
    PROVE  RecordInv'
<1>1. ASSUME NEW d \in Starter, pc'[d] # "idle" PROVE hand'[d] \in Key
  BY <1>1 DEF RecordInv, Stays, Caller
<1>2. ASSUME NEW d \in Caller, pc'[d] \in {"intent", "launching"}
      PROVE  hand'[d] \in Key /\ (queue'[hand'[d]] # None \/ hand'[d] \in erased')
  <2>1. CASE d = c BY <1>2, <2>1 DEF OnRecord
  <2>2. CASE d # c
    <3>1. pc[d] \in {"intent", "launching"} /\ hand'[d] = hand[d]
      BY <1>2, <2>2 DEF Stays
    <3> QED BY <3>1 DEF RecordInv, NothingLost, OnRecord
  <2> QED BY <2>1, <2>2
<1> QED BY <1>1, <1>2 DEF RecordInv, OnRecord

\* No caller moves.
LEMMA StayKeeps ==
    ASSUME RecordInv, RecordTypes', NothingLost, \A d \in Caller : Stays(d)
    PROVE  RecordInv'
BY DEF RecordInv, NothingLost, OnRecord, Stays, Caller

\* A write of the whole file leaves nothing unaccounted for.
LEMMA WriteFileKeeps ==
    ASSUME NEW c, NEW entries \in Queue, WriteFile(c, entries)
    PROVE  queue' \in Queue /\ NothingLost
BY DEF WriteFile, NothingLost, OnRecord

-----------------------------------------------------------------------------
\* The steps of reconcileBackgroundWorkflowQueueWithRegistry.
LEMMA BeginKeeps ==
    ASSUME RecordInv, NEW c \in Caller, NEW k, c \in Starter => k \in Key, Begin(c, k),
           UNCHANGED tries
    PROVE  Quiet
<1>1. /\ pc' = [pc EXCEPT ![c] = "pruning"] /\ hand' = [hand EXCEPT ![c] = k]
      /\ snap' = [snap EXCEPT ![c] = queue] /\ UNCHANGED <<queue, erased, runs, keyOf>>
  BY DEF Begin, Goto, runVars
<1>2. RecordTypes' BY <1>1 DEF RecordInv, RecordTypes
<1>3. NothingLost BY <1>1 DEF NothingLost, OnRecord
<1>4. /\ pc'[c] = "pruning" /\ hand'[c] = k
      /\ \A d \in Caller \ {c} : Stays(d)
  BY <1>1 DEF RecordInv, RecordTypes, Stays
<1>5. RecordInv' BY <1>2, <1>3, <1>4, MoveKeeps
<1> QED BY <1>1, <1>5 DEF Quiet, NoNewRun

\* A step of c that leaves what it has in hand, and does not come to a launch.
LEMMA PlainStep ==
    ASSUME RecordInv, RecordTypes', NothingLost, NEW c \in Caller, NEW label,
           pc[c] # "idle", Goto(c, label), label \notin {"intent", "launching"},
           UNCHANGED hand
    PROVE  RecordInv'
<1>1. /\ pc'[c] = label /\ hand'[c] = hand[c]
      /\ \A d \in Caller \ {c} : Stays(d)
  BY DEF Goto, RecordInv, RecordTypes, Stays
<1>2. c \in Starter => hand[c] \in Key BY DEF RecordInv
<1> QED BY <1>1, <1>2, MoveKeeps

\* A step of c that ends its operation, or its launch.
LEMMA GoOnKeeps ==
    ASSUME RecordInv, RecordTypes', NothingLost, NEW c \in Caller, NEW label,
           Goto(c, label), PutDown(c), label \notin {"intent", "launching"},
           c \in Starter => label = "idle"
    PROVE  RecordInv'
<1>1. /\ pc'[c] = label /\ hand'[c] = None
      /\ \A d \in Caller \ {c} : Stays(d)
  BY DEF Goto, PutDown, RecordInv, RecordTypes, Stays
<1> QED BY <1>1, MoveKeeps

LEMMA NothingIsQueue == Nothing \in Queue
BY DEF Nothing, Queue

LEMMA PruneKeeps == ASSUME RecordInv, NEW c \in Caller, Prune(c) PROVE Quiet
<1>1. /\ pc[c] = "pruning" /\ Goto(c, "inspecting") /\ WriteFile(c, snap[c]) /\ DropSnap(c)
      /\ UNCHANGED <<runs, keyOf, hand, tries>>
  BY DEF Prune, runVars
<1>2. snap[c] \in Queue BY DEF RecordInv, RecordTypes
<1>3. queue' \in Queue /\ NothingLost BY <1>1, <1>2, WriteFileKeeps
<1>4. RecordTypes'
  BY <1>1, <1>3, NothingIsQueue DEF RecordInv, RecordTypes, Goto, DropSnap
<1>5. RecordInv' BY <1>1, <1>3, <1>4, PlainStep
<1> QED BY <1>1, <1>5 DEF Quiet, NoNewRun

LEMMA InspectKeeps == ASSUME RecordInv, NEW c \in Caller, Inspect(c) PROVE Quiet
<1>1. /\ pc[c] = "inspecting" /\ Goto(c, "repairing")
      /\ queue' = [k \in Key |-> IF k \in Told THEN Marked(queue[k], Outcome(k)) ELSE queue[k]]
      /\ Forget({link[k] : k \in Told})
      /\ snap' = [snap EXCEPT ![c] = [k \in Key |->
            IF Orphaned(k, queue'[k]) /\ k \notin Told
            THEN Marked(queue'[k], "needs_repair") ELSE queue'[k]]]
      /\ UNCHANGED <<hand, tries, erased>>
  BY DEF Inspect
<1>2. \A k \in Told : Outcome(k) \in QueueStatus BY DEF Told, Outcome, QueueStatus
<1>3. \A k \in Key : queue[k] \in QueueEntry \cup {None}
  BY DEF RecordInv, RecordTypes, Queue
<1>4. \A k \in Key : /\ queue'[k] \in QueueEntry \cup {None}
                     /\ queue'[k] = None <=> queue[k] = None
  BY <1>1, <1>2, <1>3, EntryTypes
<1>5. queue' \in Queue BY <1>1, <1>4 DEF Queue
<1>6. NothingLost BY <1>1, <1>4 DEF NothingLost, OnRecord
<1>7. [k \in Key |-> IF Orphaned(k, queue'[k]) /\ k \notin Told
                     THEN Marked(queue'[k], "needs_repair") ELSE queue'[k]] \in Queue
  <2>1. "needs_repair" \in QueueStatus BY DEF QueueStatus
  <2> QED BY <2>1, <1>4, EntryTypes DEF Queue
<1>8. DOMAIN runs' = Run /\ DOMAIN keyOf' = Run /\ NoNewRun
  BY <1>1 DEF Forget, NoNewRun
<1>9. snap' \in [Caller -> Queue] BY <1>1, <1>7 DEF RecordInv, RecordTypes
<1>10. RecordTypes' BY <1>1, <1>5, <1>8, <1>9 DEF RecordInv, RecordTypes, Goto
<1>11. RecordInv' BY <1>1, <1>6, <1>10, PlainStep
<1> QED BY <1>8, <1>11 DEF Quiet

LEMMA RepairKeeps == ASSUME RecordInv, NEW c \in Caller, Repair(c) PROVE Quiet
<1>1. /\ pc[c] = "repairing" /\ WriteFile(c, snap[c])
      /\ Goto(c, IF c = Service THEN "choosing" ELSE "asking")
      /\ DropSnap(c) \/ UNCHANGED snap
      /\ UNCHANGED <<runs, keyOf, hand, tries>>
  BY DEF Repair, runVars
<1>2. snap[c] \in Queue BY DEF RecordInv, RecordTypes
<1>3. queue' \in Queue /\ NothingLost BY <1>1, <1>2, WriteFileKeeps
<1>4. RecordTypes'
  BY <1>1, <1>3, NothingIsQueue DEF RecordInv, RecordTypes, Goto, DropSnap
<1>5. RecordInv' BY <1>1, <1>3, <1>4, PlainStep
<1> QED BY <1>1, <1>5 DEF Quiet, NoNewRun

-----------------------------------------------------------------------------
\* The steps of a request, and of the launches the service makes.
LEMMA LeaveTypes ==
    ASSUME RecordInv, NEW c \in Caller, Leave(c)
    PROVE  /\ Goto(c, "idle") /\ PutDown(c)
           /\ snap' \in [Caller -> Queue] /\ tries' \in [Caller -> 0 .. MaxRepairAttempts]
           /\ DOMAIN pc' = Caller /\ DOMAIN hand' = Caller
<1>1. 0 \in 0 .. MaxRepairAttempts BY QueueAssumption
<1> QED BY <1>1, NothingIsQueue DEF Leave, PutDown, DropSnap, Goto, RecordInv, RecordTypes

LEMMA AlreadyThereKeeps == ASSUME RecordInv, NEW c \in Caller, AlreadyThere(c) PROVE Quiet
<1>1. Leave(c) /\ UNCHANGED <<queue, runs, keyOf, erased>> BY DEF AlreadyThere, runVars
<1>2. RecordTypes' BY <1>1, LeaveTypes DEF RecordInv, RecordTypes
<1>3. NothingLost BY <1>1 DEF NothingLost, OnRecord
<1>4. RecordInv' BY <1>1, <1>2, <1>3, LeaveTypes, GoOnKeeps
<1> QED BY <1>1, <1>4 DEF Quiet, NoNewRun

LEMMA IntentKeeps == ASSUME RecordInv, NEW c \in Starter, Intent(c) PROVE Quiet
<1>1. PICK k : k = hand[c] OBVIOUS
<1>2. PICK entry \in Requested(queue[k]) :
        /\ pc[c] = "asking" /\ Goto(c, "intent") /\ DropSnap(c)
        /\ queue' = [queue EXCEPT ![k] = entry]
        /\ tries' = [tries EXCEPT ![c] = AttemptsOf(queue'[k])]
        /\ erased' = erased \ {k}
        /\ UNCHANGED <<runs, keyOf, hand>>
  BY <1>1 DEF Intent, runVars
<1>3. k \in Key /\ c \in Caller BY <1>1, <1>2 DEF RecordInv, Caller
<1>4. entry \in QueueEntry
  BY <1>2, <1>3, EntryTypes DEF RecordInv, RecordTypes, Queue
<1>5. queue' \in Queue /\ queue'[k] = entry
  BY <1>2, <1>3, <1>4 DEF RecordInv, RecordTypes, Queue
<1>6. queue'[k] # None BY <1>4, <1>5, EntryTypes
<1>7. NothingLost
  BY <1>2, <1>3, <1>6 DEF NothingLost, OnRecord, RecordInv, RecordTypes, Queue
<1>8. AttemptsOf(queue'[k]) \in 0 .. MaxRepairAttempts BY <1>4, <1>5, EntryTypes
<1>9. RecordTypes'
  BY <1>2, <1>3, <1>5, <1>8, NothingIsQueue DEF RecordInv, RecordTypes, Goto, DropSnap
<1>10. /\ hand'[c] = k /\ \A d \in Caller \ {c} : Stays(d)
  BY <1>1, <1>2 DEF RecordInv, RecordTypes, Goto, Stays
<1>11. OnRecord(k)' BY <1>6 DEF OnRecord
<1>12. RecordInv' BY <1>3, <1>7, <1>9, <1>10, <1>11, MoveKeeps
<1> QED BY <1>2, <1>12 DEF Quiet, NoNewRun

LEMMA ReadToEnqueueKeeps ==
    ASSUME RecordInv, NEW c \in Caller, pc[c] # "idle", ReadToEnqueue(c) PROVE Quiet
<1>1. /\ Goto(c, "enqueuing") /\ snap' = [snap EXCEPT ![c] = queue]
      /\ UNCHANGED <<queue, runs, keyOf, hand, tries, erased>>
  BY DEF ReadToEnqueue, runVars, history
<1>2. RecordTypes' BY <1>1 DEF RecordInv, RecordTypes, Goto
<1>3. NothingLost BY <1>1 DEF NothingLost, OnRecord
<1>4. RecordInv' BY <1>1, <1>2, <1>3, PlainStep
<1> QED BY <1>1, <1>4 DEF Quiet, NoNewRun

LEMMA EnqueueKeeps == ASSUME RecordInv, NEW c \in Caller, Enqueue(c) PROVE Quiet
<1>1. PICK entries \in Queue : WriteFile(c, entries)
  <2>1. snap[c] \in Queue BY DEF RecordInv, RecordTypes
  <2>2. [snap[c] EXCEPT ![hand[c]] = Request] \in Queue BY <2>1, EntryTypes DEF Queue
  <2> QED BY <2>1, <2>2 DEF Enqueue
<1>2. Leave(c) /\ UNCHANGED <<runs, keyOf>> BY DEF Enqueue, runVars
<1>3. queue' \in Queue /\ NothingLost BY <1>1, WriteFileKeeps
<1>4. RecordTypes' BY <1>2, <1>3, LeaveTypes DEF RecordInv, RecordTypes
<1>5. RecordInv' BY <1>2, <1>3, <1>4, LeaveTypes, GoOnKeeps
<1> QED BY <1>2, <1>5 DEF Quiet, NoNewRun

\* An edit of one entry by key, if it is there.
LEMMA EditKeeps ==
    ASSUME RecordInv, NEW k, NEW e, queue' = [queue EXCEPT ![k] = e], erased' = erased,
           k \in Key => /\ e \in QueueEntry \cup {None}
                        /\ e = None => queue[k] = None
    PROVE  queue' \in Queue /\ NothingLost
BY DEF RecordInv, RecordTypes, Queue, NothingLost, OnRecord

LEMMA MarkedEdit ==
    ASSUME RecordInv, NEW k, NEW s \in QueueStatus,
           queue' = [queue EXCEPT ![k] = Marked(@, s)], erased' = erased
    PROVE  queue' \in Queue /\ NothingLost
<1>1. queue' = [queue EXCEPT ![k] = Marked(queue[k], s)] OBVIOUS
<1>2. k \in Key => /\ Marked(queue[k], s) \in QueueEntry \cup {None}
                   /\ Marked(queue[k], s) = None => queue[k] = None
  BY EntryTypes DEF RecordInv, RecordTypes, Queue
<1> QED BY <1>1, <1>2, EditKeeps

LEMMA PatchLaunchingKeeps ==
    ASSUME RecordInv, NEW c \in Caller, PatchLaunching(c) PROVE Quiet
<1>1. PICK k : k = hand[c] OBVIOUS
<1> DEFINE e == IF queue[k] = None THEN None ELSE
                  [status |-> "launching", attempts |-> Counted(tries[c]), old |-> FALSE,
                   launched |-> TRUE]
<1>2. /\ pc[c] = "intent" /\ Goto(c, "launching")
      /\ queue' = [queue EXCEPT ![k] = e]
      /\ tries' = [tries EXCEPT ![c] = 0]
      /\ UNCHANGED <<runs, keyOf, snap, hand, erased>>
  BY <1>1 DEF PatchLaunching, runVars, history
<1>3. k \in Key /\ OnRecord(k) BY <1>1, <1>2 DEF RecordInv
<1>4. Counted(tries[c]) \in 0 .. MaxRepairAttempts
  BY EntryTypes DEF RecordInv, RecordTypes
<1>5. e \in QueueEntry \cup {None} /\ (e = None => queue[k] = None)
  <2>1. [status |-> "launching", attempts |-> Counted(tries[c]), old |-> FALSE,
         launched |-> TRUE] \in QueueEntry
    BY <1>4 DEF QueueEntry, QueueStatus
  <2> QED BY <2>1, EntryTypes
<1> HIDE DEF e
<1>6. queue' \in Queue /\ NothingLost BY <1>2, <1>5, EditKeeps
<1>7. RecordTypes'
  BY <1>2, <1>6, QueueAssumption DEF RecordInv, RecordTypes, Goto
<1>8. hand'[c] = k /\ \A d \in Caller \ {c} : Stays(d)
  BY <1>1, <1>2 DEF RecordInv, RecordTypes, Goto, Stays
<1>9. OnRecord(k)' BY <1>3, <1>6 DEF NothingLost
<1>10. RecordInv' BY <1>3, <1>6, <1>7, <1>8, <1>9, MoveKeeps
<1> QED BY <1>2, <1>10 DEF Quiet, NoNewRun

\* The one step that starts a run.
LEMMA SpawnKeeps ==
    ASSUME RecordInv, NEW c \in Caller, Spawn(c)
    PROVE  /\ RecordInv'
           /\ \A r \in Run : runs[r] = "none" /\ runs'[r] = "live" => OnRecord(keyOf'[r])
<1>1. PICK r : /\ r \in Run
               /\ runs' = [runs EXCEPT ![r] = "live"]
               /\ keyOf' = [keyOf EXCEPT ![r] = hand[c]]
  BY DEF Spawn
<1>2. /\ pc[c] = "launching" /\ Goto(c, "spawned")
      /\ UNCHANGED <<queue, snap, hand, tries, erased>>
  BY DEF Spawn
<1>3. OnRecord(hand[c]) BY <1>2 DEF RecordInv
<1>4. RecordTypes' BY <1>1, <1>2 DEF RecordInv, RecordTypes, Goto
<1>5. NothingLost BY <1>2 DEF NothingLost, OnRecord
<1>6. RecordInv' BY <1>2, <1>4, <1>5, PlainStep
<1>7. ASSUME NEW q \in Run, runs[q] = "none", runs'[q] = "live" PROVE OnRecord(keyOf'[q])
  <2>1. q = r BY <1>1, <1>7 DEF RecordInv, RecordTypes
  <2>2. keyOf'[q] = hand[c] BY <2>1, <1>1 DEF RecordInv, RecordTypes
  <2> QED BY <2>2, <1>3 DEF OnRecord
<1> QED BY <1>6, <1>7

LEMMA PatchRunningKeeps ==
    ASSUME RecordInv, NEW c \in Caller, PatchRunning(c) PROVE Quiet
<1>1. /\ pc[c] = "spawned" /\ Goto(c, "linking")
      /\ queue' = [queue EXCEPT ![hand[c]] = Marked(@, "running")]
      /\ UNCHANGED <<runs, keyOf, snap, hand, tries, erased>>
  BY DEF PatchRunning, runVars, history
<1>2. "running" \in QueueStatus BY DEF QueueStatus
<1>3. queue' \in Queue /\ NothingLost BY <1>1, <1>2, MarkedEdit
<1>4. RecordTypes' BY <1>1, <1>3 DEF RecordInv, RecordTypes, Goto
<1>5. RecordInv' BY <1>1, <1>3, <1>4, PlainStep
<1> QED BY <1>1, <1>5 DEF Quiet, NoNewRun

LEMMA GoOnTypes ==
    ASSUME RecordInv, NEW c \in Caller, GoOn(c)
    PROVE  /\ PutDown(c)
           /\ Goto(c, IF c \in Starter THEN "idle" ELSE "choosing")
           /\ snap' \in [Caller -> Queue] /\ tries' \in [Caller -> 0 .. MaxRepairAttempts]
           /\ DOMAIN pc' = Caller /\ DOMAIN hand' = Caller
<1>1. CASE c \in Starter BY <1>1, LeaveTypes DEF GoOn
<1>2. CASE c \notin Starter
  BY <1>2, QueueAssumption DEF GoOn, PutDown, Goto, RecordInv, RecordTypes
<1> QED BY <1>1, <1>2

LEMMA GoneOn ==
    ASSUME RecordInv, NEW c \in Caller, GoOn(c), queue' \in Queue, NothingLost,
           DOMAIN runs' = Run, DOMAIN keyOf' = Run
    PROVE  RecordInv'
<1>1. RecordTypes' BY GoOnTypes DEF RecordTypes
<1>2. PICK label : label = IF c \in Starter THEN "idle" ELSE "choosing" OBVIOUS
<1>3. Goto(c, label) /\ PutDown(c) BY <1>2, GoOnTypes
<1> QED BY <1>1, <1>2, <1>3, GoOnKeeps

LEMMA LinkKeeps == ASSUME RecordInv, NEW c \in Caller, Link(c) PROVE Quiet
<1>1. PICK gone \in SUBSET Run :
        /\ runs' = [r \in Run |-> IF r \in gone THEN "none" ELSE runs[r]]
        /\ keyOf' = [r \in Run |-> IF r \in gone THEN None ELSE keyOf[r]]
  <2> DEFINE gone == (({link[hand[c]]} \ {None, mine[c]}) \ Live) \cap Run
  <2>1. /\ runs' = [r \in Run |-> IF r \in gone THEN "none" ELSE runs[r]]
        /\ keyOf' = [r \in Run |-> IF r \in gone THEN None ELSE keyOf[r]]
    BY DEF Link
  <2> QED BY <2>1
<1>2. GoOn(c) /\ UNCHANGED <<queue, erased>> BY DEF Link
<1>3. queue' \in Queue /\ NothingLost
  BY <1>2 DEF RecordInv, RecordTypes, NothingLost, OnRecord
<1>4. RecordInv' BY <1>1, <1>2, <1>3, GoneOn
<1> QED BY <1>1, <1>4 DEF Quiet, NoNewRun

LEMMA LaunchFailsKeeps == ASSUME RecordInv, NEW c \in Caller, LaunchFails(c) PROVE Quiet
<1>1. /\ pc[c] # "idle" /\ Goto(c, "degrading")
      /\ UNCHANGED <<queue, snap, hand, tries, erased>>
  BY DEF LaunchFails
<1>2. /\ DOMAIN runs' = Run /\ DOMAIN keyOf' = Run /\ NoNewRun
  BY DEF LaunchFails, NoNewRun
<1>3. RecordTypes' BY <1>1, <1>2 DEF RecordInv, RecordTypes, Goto
<1>4. NothingLost BY <1>1 DEF NothingLost, OnRecord
<1>5. RecordInv' BY <1>1, <1>3, <1>4, PlainStep
<1> QED BY <1>2, <1>5 DEF Quiet

LEMMA DegradeKeeps == ASSUME RecordInv, NEW c \in Caller, Degrade(c) PROVE Quiet
<1>1. /\ pc[c] = "degrading"
      /\ queue' = [queue EXCEPT ![hand[c]] = Marked(@, "degraded")]
      /\ UNCHANGED <<runs, keyOf, erased>>
  BY DEF Degrade, runVars
<1>2. "degraded" \in QueueStatus BY DEF QueueStatus
<1>3. queue' \in Queue /\ NothingLost BY <1>1, <1>2, MarkedEdit
<1>4. ASSUME GoOn(c) PROVE RecordInv'
  <2>1. DOMAIN runs' = Run /\ DOMAIN keyOf' = Run BY <1>1 DEF RecordInv, RecordTypes
  <2> QED BY <2>1, <1>3, <1>4, GoneOn
<1>5. ASSUME NEW label \in {"judging", "requeuing"}, Goto(c, label),
             UNCHANGED <<snap, hand, tries>>
      PROVE  RecordInv'
  <2>1. RecordTypes' BY <1>1, <1>3, <1>5 DEF RecordInv, RecordTypes, Goto
  <2> QED BY <2>1, <1>1, <1>3, <1>5, PlainStep
<1>6. RecordInv' BY <1>4, <1>5 DEF Degrade
<1> QED BY <1>1, <1>6 DEF Quiet, NoNewRun

LEMMA ServiceIsCaller == Service \in Caller /\ Service \notin Starter
BY QueueAssumption DEF Caller

LEMMA JudgeKeeps == ASSUME RecordInv, Judge PROVE Quiet
<1>1. PICK k : k = hand[Service] OBVIOUS
<1> DEFINE e == IF queue[k] = None THEN None
                ELSE Marked(queue[k], IF Exhausted(queue[k]) THEN "failed" ELSE "needs_repair")
<1>2. /\ queue' = [queue EXCEPT ![k] = e] /\ GoOn(Service)
      /\ UNCHANGED <<runs, keyOf, erased>>
  BY <1>1 DEF Judge, runVars, history
<1>3. k \in Key => e \in QueueEntry \cup {None} /\ (e = None => queue[k] = None)
  <2>1. (IF Exhausted(queue[k]) THEN "failed" ELSE "needs_repair") \in QueueStatus
    BY DEF QueueStatus
  <2>2. k \in Key => queue[k] \in QueueEntry \cup {None} BY DEF RecordInv, RecordTypes, Queue
  <2> QED BY <2>1, <2>2, EntryTypes
<1> HIDE DEF e
<1>4. queue' \in Queue /\ NothingLost BY <1>2, <1>3, EditKeeps
<1>5. DOMAIN runs' = Run /\ DOMAIN keyOf' = Run BY <1>2 DEF RecordInv, RecordTypes
<1>6. RecordInv' BY <1>2, <1>4, <1>5, ServiceIsCaller, GoneOn
<1> QED BY <1>2, <1>6 DEF Quiet, NoNewRun

-----------------------------------------------------------------------------
\* The rest of the service's tick, and what happens to runs.

\* A step of the service that touches neither the queue nor the runs.
LEMMA ServiceReads ==
    ASSUME RecordInv, NEW label, pc[Service] # "idle", Goto(Service, label),
           label \notin {"intent", "launching"}, snap' \in [Caller -> Queue],
           UNCHANGED <<queue, runs, keyOf, hand, tries, erased>>
    PROVE  Quiet
<1>1. RecordTypes' BY DEF RecordInv, RecordTypes, Goto
<1>2. NothingLost BY DEF NothingLost, OnRecord
<1>3. RecordInv' BY <1>1, <1>2, ServiceIsCaller, PlainStep
<1> QED BY <1>3 DEF Quiet, NoNewRun

\* One that writes the queue back.
LEMMA ServiceWrites ==
    ASSUME RecordInv, NEW label, pc[Service] # "idle", Goto(Service, label),
           label \notin {"intent", "launching"}, snap' \in [Caller -> Queue],
           queue' \in Queue, NothingLost, DOMAIN runs' = Run, DOMAIN keyOf' = Run,
           UNCHANGED <<hand, tries>>
    PROVE  RecordInv'
<1>1. RecordTypes' BY DEF RecordInv, RecordTypes, Goto
<1> QED BY <1>1, ServiceIsCaller, PlainStep

LEMMA ServiceRewrites ==
    ASSUME RecordInv, NEW label, pc[Service] # "idle", Goto(Service, label),
           label \notin {"intent", "launching"},
           WriteFile(Service, snap[Service]), DropSnap(Service),
           UNCHANGED <<runs, keyOf, hand, tries>>
    PROVE  Quiet
<1>1. snap[Service] \in Queue BY ServiceIsCaller DEF RecordInv, RecordTypes
<1>2. queue' \in Queue /\ NothingLost BY <1>1, WriteFileKeeps
<1>3. snap' \in [Caller -> Queue] BY NothingIsQueue DEF DropSnap, RecordInv, RecordTypes
<1>4. RecordInv' BY <1>2, <1>3, ServiceWrites DEF RecordInv, RecordTypes
<1> QED BY <1>4 DEF Quiet, NoNewRun

LEMMA ResumeKeeps == ASSUME RecordInv, NEW k \in Key, Resume(k) PROVE Quiet
<1>1. /\ queue[k] # None /\ hand' = [hand EXCEPT ![Service] = k]
      /\ tries' = [tries EXCEPT ![Service] = AttemptsOf(queue[k])]
      /\ Goto(Service, "intent")
      /\ UNCHANGED <<queue, runs, keyOf, snap, erased>>
  BY DEF Resume, Resumable, runVars, history
<1>2. AttemptsOf(queue[k]) \in 0 .. MaxRepairAttempts
  BY EntryTypes DEF RecordInv, RecordTypes, Queue
<1>3. RecordTypes' BY <1>1, <1>2 DEF RecordInv, RecordTypes, Goto
<1>4. NothingLost BY <1>1 DEF NothingLost, OnRecord
<1>5. hand'[Service] = k /\ \A d \in Caller \ {Service} : Stays(d)
  BY <1>1, ServiceIsCaller DEF RecordInv, RecordTypes, Goto, Stays
<1>6. OnRecord(k)' BY <1>1 DEF OnRecord
<1>7. RecordInv' BY <1>3, <1>4, <1>5, <1>6, ServiceIsCaller, MoveKeeps
<1> QED BY <1>1, <1>7 DEF Quiet, NoNewRun

LEMMA PassOverKeeps == ASSUME RecordInv, NEW k \in Key, PassOver(k) PROVE Quiet
<1>1. UNCHANGED <<queue, runs, keyOf, pc, snap, hand, tries, erased>>
  BY DEF PassOver, runVars, history
<1>2. RecordTypes' /\ NothingLost /\ \A d \in Caller : Stays(d)
  BY <1>1 DEF RecordInv, RecordTypes, NothingLost, OnRecord, Stays
<1> QED BY <1>1, <1>2, StayKeeps DEF Quiet, NoNewRun

LEMMA GiveUpKeeps == ASSUME RecordInv, NEW k \in Key, GiveUp(k) PROVE Quiet
<1>1. /\ queue' = [queue EXCEPT ![k] = Marked(@, "failed")]
      /\ UNCHANGED <<runs, keyOf, pc, snap, hand, tries, erased>>
  BY DEF GiveUp, runVars, history
<1>2. queue' \in Queue /\ NothingLost
  <2>1. "failed" \in QueueStatus BY DEF QueueStatus
  <2> QED BY <2>1, <1>1, MarkedEdit
<1>3. RecordTypes' /\ \A d \in Caller : Stays(d)
  BY <1>1, <1>2 DEF RecordInv, RecordTypes, Stays
<1>4. RecordInv' BY <1>2, <1>3, StayKeeps
<1> QED BY <1>1, <1>4 DEF Quiet, NoNewRun

\* Some entries are marked.
LEMMA MarkedQueue ==
    ASSUME RecordInv, NEW S, NEW s \in QueueStatus
    PROVE  LET marked == [k \in Key |-> IF k \in S THEN Marked(queue[k], s) ELSE queue[k]]
           IN  marked \in Queue /\ \A k \in Key : marked[k] = None <=> queue[k] = None
<1>1. \A k \in Key : queue[k] \in QueueEntry \cup {None} BY DEF RecordInv, RecordTypes, Queue
<1>2. \A k \in Key : /\ Marked(queue[k], s) \in QueueEntry \cup {None}
                     /\ Marked(queue[k], s) = None <=> queue[k] = None
  BY <1>1, EntryTypes
<1> QED BY <1>1, <1>2 DEF Queue

LEMMA DrainedKeeps == ASSUME RecordInv, Drained PROVE Quiet
<1> DEFINE read == [k \in Key |->
             IF k \in started /\ queue[k] # None
             THEN [Marked(queue[k], "running") EXCEPT !.old = FALSE] ELSE queue[k]]
<1>1. /\ pc[Service] # "idle" /\ Goto(Service, "marking")
      /\ snap' = [snap EXCEPT ![Service] = read]
      /\ UNCHANGED <<queue, runs, keyOf, hand, tries, erased>>
  BY DEF Drained, runVars, history
<1>2. read \in Queue
  <2>1. \A e \in QueueEntry : [e EXCEPT !.old = FALSE] \in QueueEntry BY DEF QueueEntry
  <2>2. \A k \in Key : queue[k] \in QueueEntry \cup {None} BY DEF RecordInv, RecordTypes, Queue
  <2>3. \A k \in Key : queue[k] # None => Marked(queue[k], "running") \in QueueEntry
    BY <2>2, EntryTypes DEF QueueStatus
  <2> QED BY <2>1, <2>2, <2>3 DEF Queue
<1> HIDE DEF read
<1>3. snap' \in [Caller -> Queue] BY <1>1, <1>2 DEF RecordInv, RecordTypes
<1> QED BY <1>1, <1>3, ServiceReads

LEMMA MarkKeeps == ASSUME RecordInv, Mark PROVE Quiet
<1>1. PICK label \in {"sweeping", "choosing"} : Goto(Service, label) BY DEF Mark
<1>2. /\ pc[Service] # "idle" /\ WriteFile(Service, snap[Service]) /\ DropSnap(Service)
      /\ UNCHANGED <<runs, keyOf, hand, tries>>
  BY DEF Mark, runVars
<1> QED BY <1>1, <1>2, ServiceRewrites

LEMMA SweepKeeps == ASSUME RecordInv, Sweep PROVE Quiet
<1>1. PICK label \in {"recovering", "terminalizing"} : Goto(Service, label) BY DEF Sweep
<1>2. /\ pc[Service] # "idle" /\ UNCHANGED <<queue, runs, keyOf, snap, hand, tries, erased>>
  BY DEF Sweep, runVars, history
<1>3. snap' \in [Caller -> Queue] BY <1>2 DEF RecordInv, RecordTypes
<1> QED BY <1>1, <1>2, <1>3, ServiceReads

LEMMA TerminalizeKeeps == ASSUME RecordInv, Terminalize PROVE Quiet
<1>1. /\ pc[Service] # "idle" /\ Goto(Service, "recovering")
      /\ queue' = [k \in Key |-> IF k \in todo[Service] THEN Marked(queue[k], "failed")
                                 ELSE queue[k]]
      /\ UNCHANGED <<runs, keyOf, snap, hand, tries, erased>>
  BY DEF Terminalize, runVars, history
<1>2. "failed" \in QueueStatus BY DEF QueueStatus
<1>3. queue' \in Queue /\ \A k \in Key : queue'[k] = None <=> queue[k] = None
  BY <1>1, <1>2, MarkedQueue
<1>4. NothingLost BY <1>1, <1>3 DEF NothingLost, OnRecord
<1>5. RecordInv' BY <1>1, <1>3, <1>4, ServiceWrites DEF RecordInv, RecordTypes
<1> QED BY <1>1, <1>5 DEF Quiet, NoNewRun

LEMMA RecoverKeeps == ASSUME RecordInv, Recover PROVE Quiet
<1> DEFINE stale == {n \in Key : Stale(n, queue[n])}
<1> DEFINE read == [k \in Key |-> IF k \in stale THEN Marked(queue[k], "needs_repair")
                                  ELSE queue[k]]
<1>1. PICK label \in {"rewriting", "screening"} : Goto(Service, label) BY DEF Recover
<1>2. /\ pc[Service] # "idle" /\ UNCHANGED <<queue, runs, keyOf, hand, tries, erased>>
      /\ snap' = [snap EXCEPT ![Service] = read] \/ snap' = snap
  BY DEF Recover, runVars, history
<1> HIDE DEF stale
<1>3. read \in Queue
  <2>1. \A k \in Key : queue[k] \in QueueEntry \cup {None} BY DEF RecordInv, RecordTypes, Queue
  <2>2. "needs_repair" \in QueueStatus BY DEF QueueStatus
  <2>3. \A k \in Key : Marked(queue[k], "needs_repair") \in QueueEntry \cup {None}
    BY <2>1, <2>2, EntryTypes
  <2> QED BY <2>1, <2>3 DEF Queue
<1> HIDE DEF read
<1>4. snap' \in [Caller -> Queue] BY <1>2, <1>3 DEF RecordInv, RecordTypes
<1> QED BY <1>1, <1>2, <1>4, ServiceReads

LEMMA RewriteKeeps == ASSUME RecordInv, Rewrite PROVE Quiet
<1>1. /\ pc[Service] # "idle" /\ Goto(Service, "screening")
      /\ WriteFile(Service, snap[Service]) /\ DropSnap(Service)
      /\ UNCHANGED <<runs, keyOf, hand, tries>>
  BY DEF Rewrite, runVars
<1> QED BY <1>1, ServiceRewrites

LEMMA ScreenKeeps == ASSUME RecordInv, Screen PROVE Quiet
<1>1. /\ pc[Service] # "idle" /\ Goto(Service, "choosing")
      /\ queue' = [k \in Key |-> Screened(k)]
      /\ Forget({link[k] : k \in Over})
      /\ erased' = {k \in erased : queue'[k] = None}
      /\ snap' = [snap EXCEPT ![Service] = queue']
      /\ UNCHANGED <<hand, tries>>
  BY DEF Screen
<1>2. ASSUME NEW k \in Key
      PROVE  Screened(k) \in QueueEntry \cup {None} /\ (queue[k] # None => Screened(k) # None)
  <2>1. queue[k] \in QueueEntry \cup {None} BY DEF RecordInv, RecordTypes, Queue
  <2>2. "needs_repair" \in QueueStatus BY DEF QueueStatus
  <2>3. /\ Marked(queue[k], "needs_repair") \in QueueEntry \cup {None}
        /\ Marked(queue[k], "needs_repair") = None <=> queue[k] = None
    BY <2>1, <2>2, EntryTypes
  <2>4. [status |-> "needs_repair", attempts |-> Counted(0), old |-> TRUE,
         launched |-> TRUE] \in QueueEntry
    <3>1. 0 \in 0 .. MaxRepairAttempts BY QueueAssumption
    <3>2. Counted(0) \in 0 .. MaxRepairAttempts BY <3>1, EntryTypes
    <3> QED BY <2>2, <3>2 DEF QueueEntry
  <2> QED BY <2>1, <2>3, <2>4 DEF Screened
<1>3. queue' \in Queue BY <1>1, <1>2 DEF Queue
<1>4. NothingLost BY <1>1, <1>2 DEF NothingLost, OnRecord
<1>5. DOMAIN runs' = Run /\ DOMAIN keyOf' = Run /\ NoNewRun
  BY <1>1 DEF Forget, NoNewRun
<1>6. snap' \in [Caller -> Queue] BY <1>1, <1>3 DEF RecordInv, RecordTypes
<1>7. RecordInv' BY <1>1, <1>3, <1>4, <1>5, <1>6, ServiceWrites
<1> QED BY <1>5, <1>7 DEF Quiet

LEMMA TickEndsKeeps == ASSUME RecordInv, TickEnds PROVE Quiet
<1>1. Leave(Service) /\ UNCHANGED <<queue, runs, keyOf, erased>> BY DEF TickEnds, runVars
<1>2. RecordTypes' BY <1>1, ServiceIsCaller, LeaveTypes DEF RecordInv, RecordTypes
<1>3. NothingLost BY <1>1 DEF NothingLost, OnRecord
<1>4. Goto(Service, "idle") /\ PutDown(Service) BY <1>1 DEF Leave
<1>5. RecordInv' BY <1>2, <1>3, <1>4, ServiceIsCaller, GoOnKeeps
<1> QED BY <1>1, <1>5 DEF Quiet, NoNewRun

\* Runs end, links are lost.
LEMMA RunsMove ==
    ASSUME RecordInv, UNCHANGED <<queue, erased, pc, snap, hand, tries>>,
           DOMAIN runs' = Run, DOMAIN keyOf' = Run
    PROVE  RecordInv'
<1>1. RecordTypes' /\ NothingLost /\ \A d \in Caller : Stays(d)
  BY DEF RecordInv, RecordTypes, NothingLost, OnRecord, Stays
<1> QED BY <1>1, StayKeeps

LEMMA RunEndsKeeps == ASSUME RecordInv, NEW r \in Run, RunEnds(r) PROVE Quiet
<1>1. UNCHANGED <<queue, erased, pc, snap, hand, tries>> BY DEF RunEnds, callVars
<1>2. PICK how : runs' = [runs EXCEPT ![r] = how] BY DEF RunEnds
<1>3. runs[r] = "live" /\ DOMAIN runs' = Run /\ DOMAIN keyOf' = Run
  BY <1>2 DEF RunEnds, RecordInv, RecordTypes
<1>4. NoNewRun BY <1>2, <1>3 DEF NoNewRun, RecordInv, RecordTypes
<1> QED BY <1>1, <1>3, <1>4, RunsMove DEF Quiet

LEMMA LoseTrackKeeps == ASSUME RecordInv, NEW k \in Key, LoseTrack(k) PROVE Quiet
<1>1. UNCHANGED <<queue, runs, keyOf, erased, pc, snap, hand, tries>>
  BY DEF LoseTrack, callVars
<1>2. DOMAIN runs' = Run /\ DOMAIN keyOf' = Run BY <1>1 DEF RecordInv, RecordTypes
<1> QED BY <1>1, <1>2, RunsMove DEF Quiet, NoNewRun

LEMMA AgeKeeps == ASSUME RecordInv, NEW k \in Key, Age(k) PROVE Quiet
<1>1. /\ queue' = [queue EXCEPT ![k] = Aged(@)]
      /\ snap' = [c \in Caller |-> [snap[c] EXCEPT ![k] = Aged(@)]]
      /\ UNCHANGED <<runs, keyOf, erased, pc, hand, tries>>
  BY DEF Age, runVars, history
<1>2. \A q \in Queue : [q EXCEPT ![k] = Aged(@)] \in Queue
  BY EntryTypes DEF Queue
<1>3. queue' \in Queue /\ snap' \in [Caller -> Queue]
  BY <1>1, <1>2 DEF RecordInv, RecordTypes
<1>4. NothingLost
  <2>1. queue[k] \in QueueEntry \cup {None} BY DEF RecordInv, RecordTypes, Queue
  <2>2. Aged(queue[k]) = None <=> queue[k] = None BY <2>1, EntryTypes
  <2> QED BY <1>1, <2>2 DEF NothingLost, OnRecord, RecordInv, RecordTypes, Queue
<1>5. RecordTypes' /\ \A d \in Caller : Stays(d)
  BY <1>1, <1>3 DEF RecordInv, RecordTypes, Stays
<1>6. RecordInv' BY <1>4, <1>5, StayKeeps
<1> QED BY <1>1, <1>6 DEF Quiet, NoNewRun

-----------------------------------------------------------------------------
LEMMA RecordInvInit == QueueInit => RecordInv
<1> SUFFICES ASSUME QueueInit PROVE RecordInv
  OBVIOUS
<1>1. 0 \in 0 .. MaxRepairAttempts BY QueueAssumption
<1>2. RecordTypes BY <1>1 DEF QueueInit, RecordTypes, Queue
<1>3. \A c \in Caller : pc[c] = "idle" BY DEF QueueInit
<1> QED BY <1>2, <1>3 DEF RecordInv, Caller

\* A step starts a run on record, or starts none.
StartsOnRecord ==
    \A r \in Run : runs[r] = "none" /\ runs'[r] = "live" => OnRecord(keyOf'[r])

LEMMA QuietIsSafe == ASSUME Quiet PROVE RecordInv' /\ StartsOnRecord
BY DEF Quiet, NoNewRun, StartsOnRecord

LEMMA LaunchIsSafe ==
    ASSUME RecordInv, NEW c \in Caller, Launch(c)
    PROVE  RecordInv' /\ StartsOnRecord
<1>1. CASE PatchLaunching(c) BY <1>1, PatchLaunchingKeeps, QuietIsSafe
<1>2. CASE Spawn(c) BY <1>2, SpawnKeeps DEF StartsOnRecord
<1>3. CASE PatchRunning(c) BY <1>3, PatchRunningKeeps, QuietIsSafe
<1>4. CASE Link(c) BY <1>4, LinkKeeps, QuietIsSafe
<1>5. CASE Degrade(c) BY <1>5, DegradeKeeps, QuietIsSafe
<1> QED BY <1>1, <1>2, <1>3, <1>4, <1>5 DEF Launch

LEMMA ReconcileIsSafe ==
    ASSUME RecordInv, NEW c \in Caller, Reconcile(c)
    PROVE  Quiet
BY PruneKeeps, InspectKeeps, RepairKeeps DEF Reconcile

LEMMA StarterIsSafe ==
    ASSUME RecordInv, NEW c \in Starter, StarterGoesOn(c)
    PROVE  RecordInv' /\ StartsOnRecord
<1>0. c \in Caller BY DEF Caller
<1>1. CASE Reconcile(c) BY <1>0, <1>1, ReconcileIsSafe, QuietIsSafe
<1>2. CASE AlreadyThere(c) BY <1>0, <1>2, AlreadyThereKeeps, QuietIsSafe
<1>3. CASE Intent(c) BY <1>3, IntentKeeps, QuietIsSafe
<1>4. CASE NoSession(c) \/ Requeue(c)
  <2>1. pc[c] # "idle" /\ ReadToEnqueue(c) BY <1>4 DEF NoSession, Requeue
  <2> QED BY <1>0, <2>1, ReadToEnqueueKeeps, QuietIsSafe
<1>5. CASE Enqueue(c) BY <1>0, <1>5, EnqueueKeeps, QuietIsSafe
<1>6. CASE Launch(c) BY <1>0, <1>6, LaunchIsSafe
<1> QED BY <1>1, <1>2, <1>3, <1>4, <1>5, <1>6 DEF StarterGoesOn

LEMMA ServiceIsSafe ==
    ASSUME RecordInv, ServiceStep
    PROVE  RecordInv' /\ StartsOnRecord
<1>0. Service \in Caller /\ Service \notin Starter BY ServiceIsCaller
<1>1. CASE Tick
  <2>1. Begin(Service, None) BY <1>1 DEF Tick
  <2>2. UNCHANGED tries BY <2>1 DEF Begin
  <2> QED BY <1>0, <2>1, <2>2, BeginKeeps, QuietIsSafe
<1>2. CASE Reconcile(Service) BY <1>0, <1>2, ReconcileIsSafe, QuietIsSafe
<1>3. ASSUME NEW k \in Key, Resume(k) \/ PassOver(k) \/ GiveUp(k)
      PROVE  RecordInv' /\ StartsOnRecord
  BY <1>3, ResumeKeeps, PassOverKeeps, GiveUpKeeps, QuietIsSafe
<1>4. CASE Launch(Service) BY <1>0, <1>4, LaunchIsSafe
<1>5. CASE Judge BY <1>5, JudgeKeeps, QuietIsSafe
<1>6. CASE Drained \/ Mark BY <1>6, DrainedKeeps, MarkKeeps, QuietIsSafe
<1>7. CASE Sweep \/ Terminalize BY <1>7, SweepKeeps, TerminalizeKeeps, QuietIsSafe
<1>8. CASE Recover \/ Rewrite BY <1>8, RecoverKeeps, RewriteKeeps, QuietIsSafe
<1>9. CASE Screen BY <1>9, ScreenKeeps, QuietIsSafe
<1>10. CASE TickEnds BY <1>10, TickEndsKeeps, QuietIsSafe
<1> QED
  BY <1>1, <1>2, <1>3, <1>4, <1>5, <1>6, <1>7, <1>8, <1>9, <1>10 DEF ServiceStep

LEMMA StepIsSafe ==
    RecordInv /\ [QueueNext]_queueVars => RecordInv' /\ [StartsOnRecord]_queueVars
<1> SUFFICES ASSUME RecordInv, [QueueNext]_queueVars
             PROVE  RecordInv' /\ [StartsOnRecord]_queueVars
  OBVIOUS
<1>1. ASSUME NEW c \in Starter, NEW k \in Key, Ask(c, k) PROVE RecordInv' /\ StartsOnRecord
  <2>1. c \in Caller /\ Begin(c, k) BY <1>1 DEF Ask, Caller
  <2>2. UNCHANGED tries BY <2>1 DEF Begin
  <2> QED BY <2>1, <2>2, BeginKeeps, QuietIsSafe
<1>2. ASSUME NEW c \in Starter, StarterGoesOn(c) PROVE RecordInv' /\ StartsOnRecord
  BY <1>2, StarterIsSafe
<1>3. ASSUME ServiceStep PROVE RecordInv' /\ StartsOnRecord
  BY <1>3, ServiceIsSafe
<1>4. ASSUME NEW c \in Caller, LaunchFails(c) PROVE RecordInv' /\ StartsOnRecord
  BY <1>4, LaunchFailsKeeps, QuietIsSafe
<1>5. ASSUME NEW r \in Run, RunEnds(r) PROVE RecordInv' /\ StartsOnRecord
  BY <1>5, RunEndsKeeps, QuietIsSafe
<1>6. ASSUME NEW k \in Key, LoseTrack(k) \/ Age(k) PROVE RecordInv' /\ StartsOnRecord
  BY <1>6, LoseTrackKeeps, AgeKeeps, QuietIsSafe
<1>7. CASE UNCHANGED queueVars
  <2>1. UNCHANGED <<queue, runs, keyOf, erased, pc, snap, hand, tries>>
    BY <1>7 DEF queueVars, runVars, callVars, history
  <2>2. DOMAIN runs' = Run /\ DOMAIN keyOf' = Run BY <2>1 DEF RecordInv, RecordTypes
  <2> QED BY <1>7, <2>1, <2>2, RunsMove
<1> QED BY <1>1, <1>2, <1>3, <1>4, <1>5, <1>6, <1>7 DEF QueueNext

\* Whoever launches, and whatever writes of older entries come in between, a run
\* is started only for a work that is in the queue or that such a write has
\* erased from it (createWorkflowTransitionIntent, executePersistedWorkflowTransition).
THEOREM SpawnsOnRecordHolds == QueueSpec => SpawnsOnRecord
<1>1. RecordInv /\ [StartsOnRecord]_queueVars =>
        [\A r \in Run : runs[r] = "none" /\ runs'[r] = "live" =>
            queue[keyOf'[r]] # None \/ keyOf'[r] \in erased]_queueVars
  BY DEF StartsOnRecord, OnRecord
<1> QED BY <1>1, RecordInvInit, StepIsSafe, PTL DEF QueueSpec, SpawnsOnRecord

-----------------------------------------------------------------------------
(***************************************************************************)
(* Which run is whose. A started run is in the hands of one caller until it *)
(* is linked, and then linked to one work; everything below rests on it.    *)
(***************************************************************************)

Label == {"idle", "pruning", "inspecting", "repairing", "asking", "requeuing", "enqueuing",
          "intent", "launching", "spawned", "linking", "degrading", "judging", "choosing",
          "marking", "sweeping", "terminalizing", "recovering", "rewriting", "screening"}

\* The type invariant, in parts: the callers' places, the runs, what is remembered.
PlaceTyped ==
    /\ pc \in [Caller -> Label]
    /\ phase \in {"drain", "replay"}
    /\ todo \in [Caller -> SUBSET Key]
    /\ hand \in [Caller -> Key \cup {None}]
    /\ mine \in [Caller -> Run \cup {None}]
    /\ started \subseteq Key

RunsTyped ==
    /\ runs \in [Run -> RunState]
    /\ keyOf \in [Run -> Key \cup {None}]
    /\ \A r \in Run : keyOf[r] = None <=> runs[r] = "none"
    /\ link \in [Key -> Run \cup {None}]
    /\ \A k \in Key : link[k] # None => keyOf[link[k]] = k
    /\ stray \subseteq {r \in Run : runs[r] # "none"}

CountsTyped == requests \in 0 .. MaxStarts /\ faults \in 0 .. MaxFaults

NotesTyped == meanwhile \in [Caller -> SUBSET Key] /\ erased \subseteq Key

\* A caller has a run between its start and its link, for the work in its hand; the
\* run is nobody else's, and not linked.
HandsRight ==
    \A c \in Caller :
        /\ pc[c] \in {"spawned", "linking"} <=> mine[c] # None
        /\ mine[c] # None =>
              /\ hand[c] \in Key /\ keyOf[mine[c]] = hand[c]
              /\ \A k \in Key : link[k] # mine[c]
              /\ \A d \in Caller : mine[d] = mine[c] => d = c

TypeInv ==
    /\ RecordInv
    /\ PlaceTyped /\ RunsTyped /\ CountsTyped /\ NotesTyped
    /\ HandsRight

LEMMA TypeInvTypes == TypeInv => QueueTypeOK
BY DEF TypeInv, RecordInv, RecordTypes, PlaceTyped, RunsTyped, CountsTyped, NotesTyped,
       HandsRight, QueueTypeOK, Label

LEMMA NoneIsNothing == None \notin Key /\ None \notin Run
BY QueueAssumption

\* The callers but c stand still.
OthersWait(c) ==
    \A d \in Caller \ {c} :
        /\ pc'[d] = pc[d] /\ hand'[d] = hand[d] /\ mine'[d] = mine[d]
        /\ todo'[d] = todo[d] /\ snap'[d] = snap[d]

\* No run starts, ends or changes hands.
RunsStay ==
    /\ UNCHANGED <<runs, keyOf, link, stray>>
    /\ \A c \in Caller : mine'[c] = mine[c]

CallerMoves(c) == PlaceTyped' /\ OthersWait(c) /\ RunsStay

\* A caller that has no run moves without taking one, or keeps the one it has.
LEMMA HandsStay ==
    ASSUME HandsRight, NEW c \in Caller, CallerMoves(c),
           \/ pc[c] \notin {"spawned", "linking"} /\ pc'[c] \notin {"spawned", "linking"}
           \/ /\ pc[c] \in {"spawned", "linking"} /\ pc'[c] \in {"spawned", "linking"}
              /\ hand'[c] = hand[c]
    PROVE  HandsRight'
<1>1. ASSUME NEW d \in Caller
      PROVE  /\ pc'[d] \in {"spawned", "linking"} <=> mine'[d] # None
             /\ mine'[d] # None =>
                   /\ hand'[d] \in Key /\ keyOf'[mine'[d]] = hand'[d]
                   /\ \A k \in Key : link'[k] # mine'[d]
                   /\ \A e \in Caller : mine'[e] = mine'[d] => e = d
  <2>1. pc'[d] \in {"spawned", "linking"} <=> pc[d] \in {"spawned", "linking"}
    BY DEF CallerMoves, OthersWait
  <2>2. pc[d] \in {"spawned", "linking"} => hand'[d] = hand[d]
    BY DEF CallerMoves, OthersWait
  <2> QED BY <2>1, <2>2 DEF HandsRight, CallerMoves, RunsStay
<1> QED BY <1>1 DEF HandsRight

-----------------------------------------------------------------------------
\* The steps that leave the runs alone: where the caller comes from, where it goes,
\* and what it holds.

LEMMA PruneMoves ==
    ASSUME TypeInv, NEW c \in Caller, Prune(c)
    PROVE  /\ CallerMoves(c) /\ hand'[c] = hand[c] /\ todo'[c] = todo[c]
           /\ pc[c] = "pruning" /\ pc'[c] = "inspecting"
BY DEF Prune, Goto, DropSnap, TypeInv, RecordInv, RecordTypes, PlaceTyped, RunsTyped,
       CallerMoves, OthersWait, RunsStay, Label, runVars

LEMMA RepairMoves ==
    ASSUME TypeInv, NEW c \in Caller, Repair(c)
    PROVE  /\ CallerMoves(c) /\ hand'[c] = hand[c]
           /\ pc[c] = "repairing"
           /\ \/ /\ c = Service /\ pc'[c] = "choosing"
                 /\ todo'[c] = {k \in Key : Drainable(snap[c][k])}
              \/ /\ c # Service /\ pc'[c] = "asking" /\ todo'[c] = todo[c]
                 /\ snap'[c] = snap[c]
<1>1. CASE c = Service
  <2>1. PICK S \in SUBSET Key : S = {k \in Key : Drainable(snap[c][k])}
    OBVIOUS
  <2>2. todo' = [todo EXCEPT ![c] = S]
    BY <1>1, <2>1 DEF Repair
  <2> QED BY <1>1, <2>1, <2>2 DEF Repair, Goto, DropSnap, TypeInv, RecordInv, RecordTypes,
             PlaceTyped, RunsTyped, CallerMoves, OthersWait, RunsStay, Label, runVars
<1>2. CASE c # Service
  BY <1>2 DEF Repair, Goto, TypeInv, PlaceTyped, RunsTyped, CallerMoves, OthersWait,
     RunsStay, Label, runVars
<1> QED BY <1>1, <1>2

\* A caller that leaves has no run.
LEMMA LeaveMoves ==
    ASSUME TypeInv, NEW c \in Caller, Leave(c), pc[c] \notin {"spawned", "linking"},
           UNCHANGED <<runs, keyOf, link, stray, started>>, phase' \in {"drain", "replay"}
    PROVE  /\ CallerMoves(c) /\ hand'[c] = None /\ todo'[c] = {}
           /\ pc'[c] = "idle"
<1>1. mine[c] = None
  BY DEF TypeInv, HandsRight
<1> QED BY <1>1 DEF Leave, Goto, PutDown, DropSnap, TypeInv, RecordInv, RecordTypes,
           PlaceTyped, RunsTyped, CallerMoves, OthersWait, RunsStay, Label

LEMMA AlreadyThereMoves ==
    ASSUME TypeInv, NEW c \in Caller, AlreadyThere(c)
    PROVE  /\ CallerMoves(c) /\ hand'[c] = None /\ todo'[c] = {}
           /\ pc[c] = "asking" /\ pc'[c] = "idle"
BY LeaveMoves DEF AlreadyThere, runVars, TypeInv, PlaceTyped

LEMMA IntentMoves ==
    ASSUME TypeInv, NEW c \in Caller, Intent(c)
    PROVE  /\ CallerMoves(c) /\ hand'[c] = hand[c] /\ todo'[c] = todo[c]
           /\ pc[c] = "asking" /\ pc'[c] = "intent" /\ Wanted(c)
BY DEF Intent, Goto, DropSnap, TypeInv, RecordInv, RecordTypes, PlaceTyped, RunsTyped,
       CallerMoves, OthersWait, RunsStay, Label, runVars

LEMMA ReadToEnqueueMoves ==
    ASSUME TypeInv, NEW c \in Caller, NoSession(c) \/ Requeue(c)
    PROVE  /\ CallerMoves(c) /\ hand'[c] = hand[c] /\ todo'[c] = todo[c]
           /\ pc'[c] = "enqueuing" /\ snap'[c] = queue /\ queue' = queue
           /\ pc[c] = "requeuing" \/ (pc[c] = "asking" /\ Wanted(c))
BY DEF NoSession, Requeue, ReadToEnqueue, Goto, TypeInv, RecordInv, RecordTypes, PlaceTyped,
       RunsTyped, CallerMoves, OthersWait, RunsStay, Label, runVars, history

LEMMA EnqueueMoves ==
    ASSUME TypeInv, NEW c \in Caller, Enqueue(c)
    PROVE  /\ CallerMoves(c) /\ hand'[c] = None /\ todo'[c] = {}
           /\ pc[c] = "enqueuing" /\ pc'[c] = "idle"
BY LeaveMoves DEF Enqueue, runVars, TypeInv, PlaceTyped

LEMMA PatchLaunchingMoves ==
    ASSUME TypeInv, NEW c \in Caller, PatchLaunching(c)
    PROVE  /\ CallerMoves(c) /\ hand'[c] = hand[c] /\ todo'[c] = todo[c]
           /\ pc[c] = "intent" /\ pc'[c] = "launching" /\ snap' = snap
BY DEF PatchLaunching, Goto, TypeInv, PlaceTyped, RunsTyped, CallerMoves, OthersWait,
       RunsStay, Label, runVars, history

LEMMA PatchRunningMoves ==
    ASSUME TypeInv, NEW c \in Caller, PatchRunning(c)
    PROVE  /\ CallerMoves(c) /\ hand'[c] = hand[c] /\ todo'[c] = todo[c]
           /\ pc[c] = "spawned" /\ pc'[c] = "linking" /\ snap' = snap
BY DEF PatchRunning, Goto, TypeInv, PlaceTyped, RunsTyped, CallerMoves, OthersWait,
       RunsStay, Label, runVars, history

\* Where a caller goes on after a launch.
LEMMA GoOnMoves ==
    ASSUME TypeInv, NEW c \in Caller, GoOn(c)
    PROVE  /\ PlaceTyped' <=> phase' \in {"drain", "replay"} /\ started' \subseteq Key
           /\ OthersWait(c) /\ hand'[c] = None /\ mine'[c] = None
           /\ \/ c \in Starter /\ pc'[c] = "idle" /\ todo'[c] = {}
              \/ c = Service /\ pc'[c] = "choosing" /\ todo'[c] = todo[c] /\ snap'[c] = snap[c]
<1>1. CASE c \in Starter
  BY <1>1 DEF GoOn, Leave, Goto, PutDown, DropSnap, TypeInv, RecordInv, RecordTypes,
     PlaceTyped, OthersWait, Label
<1>2. CASE c \notin Starter
  BY <1>2 DEF GoOn, Goto, PutDown, TypeInv, RecordInv, RecordTypes, PlaceTyped, OthersWait,
     Label, Caller
<1> QED BY <1>1, <1>2

LEMMA DegradeMoves ==
    ASSUME TypeInv, NEW c \in Caller, Degrade(c)
    PROVE  /\ CallerMoves(c) /\ pc[c] = "degrading"
           /\ \/ c \in Starter /\ pc'[c] = "idle" /\ hand'[c] = None /\ todo'[c] = {}
              \/ /\ c = Service /\ pc'[c] = "choosing" /\ hand'[c] = None
                 /\ todo'[c] = todo[c] /\ snap'[c] = snap[c]
              \/ /\ pc'[c] \in {"judging", "requeuing"} /\ hand'[c] = hand[c]
                 /\ todo'[c] = todo[c] /\ snap'[c] = snap[c]
                 /\ IF pc'[c] = "judging" THEN c = Service ELSE c \in Starter
<1>1. mine[c] = None /\ pc[c] = "degrading"
  BY DEF Degrade, TypeInv, HandsRight
<1>2. CASE GoOn(c)
  <2>1. RunsStay
    BY <1>1, <1>2, GoOnMoves DEF Degrade, RunsStay, OthersWait, runVars
  <2>2. PlaceTyped'
    BY <1>2, GoOnMoves DEF Degrade, TypeInv, PlaceTyped
  <2> QED BY <1>1, <1>2, <2>1, <2>2, GoOnMoves DEF CallerMoves
<1>3. ASSUME NEW label \in {"judging", "requeuing"}, Goto(c, label),
             IF label = "judging" THEN c = Service ELSE c \in Starter,
             UNCHANGED <<snap, todo, hand, tries, mine>>
      PROVE  /\ CallerMoves(c) /\ pc'[c] = label /\ hand'[c] = hand[c] /\ todo'[c] = todo[c]
             /\ snap'[c] = snap[c]
  BY <1>3 DEF Degrade, Goto, TypeInv, PlaceTyped, CallerMoves, OthersWait, RunsStay, Label,
     runVars
<1> QED BY <1>1, <1>2, <1>3, GoOnMoves DEF Degrade

LEMMA JudgeMoves ==
    ASSUME TypeInv, Judge
    PROVE  /\ CallerMoves(Service) /\ pc[Service] = "judging" /\ pc'[Service] = "choosing"
           /\ hand'[Service] = None /\ todo'[Service] = todo[Service]
           /\ snap'[Service] = snap[Service]
<1>1. mine[Service] = None
  BY ServiceIsCaller DEF Judge, TypeInv, HandsRight
<1>2. GoOn(Service) /\ UNCHANGED <<runs, keyOf, link, stray, phase, started>>
  BY DEF Judge, runVars, history
<1>3. RunsStay
  BY <1>1, <1>2, GoOnMoves, ServiceIsCaller DEF RunsStay, OthersWait
<1>4. PlaceTyped'
  BY <1>2, GoOnMoves, ServiceIsCaller DEF TypeInv, PlaceTyped
<1> QED BY <1>2, <1>3, <1>4, GoOnMoves, ServiceIsCaller DEF CallerMoves, Judge

LEMMA ResumeMoves ==
    ASSUME TypeInv, NEW k \in Key, Resume(k)
    PROVE  /\ CallerMoves(Service) /\ pc[Service] = "choosing" /\ pc'[Service] = "intent"
           /\ hand'[Service] = k /\ k \in todo[Service]
           /\ todo'[Service] = todo[Service] \ {k} /\ snap' = snap /\ queue' = queue
BY ServiceIsCaller DEF Resume, Goto, TypeInv, PlaceTyped, CallerMoves, OthersWait, RunsStay,
   Label, runVars, history

LEMMA PassOverMoves ==
    ASSUME TypeInv, NEW k \in Key, PassOver(k)
    PROVE  /\ CallerMoves(Service) /\ pc[Service] = "choosing" /\ pc' = pc
           /\ hand' = hand /\ todo'[Service] = todo[Service] \ {k} /\ snap' = snap
           /\ queue' = queue
BY ServiceIsCaller DEF PassOver, TypeInv, PlaceTyped, CallerMoves, OthersWait, RunsStay,
   runVars, history

LEMMA GiveUpMoves ==
    ASSUME TypeInv, NEW k \in Key, GiveUp(k)
    PROVE  /\ CallerMoves(Service) /\ pc[Service] = "choosing" /\ pc' = pc /\ hand' = hand
           /\ k \in todo[Service] /\ todo'[Service] = todo[Service] \ {k} /\ snap' = snap
BY ServiceIsCaller DEF GiveUp, TypeInv, PlaceTyped, CallerMoves, OthersWait, RunsStay,
   runVars, history

LEMMA DrainedMoves ==
    ASSUME TypeInv, Drained
    PROVE  /\ CallerMoves(Service) /\ pc[Service] = "choosing" /\ pc'[Service] = "marking"
           /\ hand'[Service] = hand[Service] /\ todo' = todo /\ todo[Service] = {}
           /\ queue' = queue
BY ServiceIsCaller DEF Drained, Goto, TypeInv, RecordInv, RecordTypes, PlaceTyped,
   CallerMoves, OthersWait, RunsStay, Label, runVars, history

LEMMA MarkMoves ==
    ASSUME TypeInv, Mark
    PROVE  /\ CallerMoves(Service) /\ pc[Service] = "marking"
           /\ pc'[Service] \in {"sweeping", "choosing"}
           /\ hand'[Service] = hand[Service] /\ todo' = todo
BY ServiceIsCaller DEF Mark, Goto, DropSnap, TypeInv, RecordInv, RecordTypes, PlaceTyped,
   CallerMoves, OthersWait, RunsStay, Label, runVars

LEMMA SweepMoves ==
    ASSUME TypeInv, Sweep
    PROVE  /\ CallerMoves(Service) /\ pc[Service] = "sweeping"
           /\ \/ pc'[Service] = "recovering" /\ todo'[Service] = {}
              \/ pc'[Service] = "terminalizing"
           /\ todo'[Service] = {k \in Key : Orphaned(k, queue[k])}
           /\ hand'[Service] = hand[Service] /\ snap' = snap /\ queue' = queue
<1>1. PICK S \in SUBSET Key : S = {k \in Key : Orphaned(k, queue[k])}
  OBVIOUS
<1>2. todo' = [todo EXCEPT ![Service] = S]
  BY <1>1 DEF Sweep
<1>3. todo'[Service] = S
  BY <1>2, ServiceIsCaller DEF TypeInv, PlaceTyped
<1> QED BY <1>1, <1>2, <1>3, ServiceIsCaller DEF Sweep, Goto, TypeInv, PlaceTyped,
           CallerMoves, OthersWait, RunsStay, Label, runVars, history

LEMMA TerminalizeMoves ==
    ASSUME TypeInv, Terminalize
    PROVE  /\ CallerMoves(Service) /\ pc[Service] = "terminalizing"
           /\ pc'[Service] = "recovering" /\ todo'[Service] = {}
           /\ hand'[Service] = hand[Service] /\ snap' = snap
BY ServiceIsCaller DEF Terminalize, Goto, TypeInv, PlaceTyped, CallerMoves, OthersWait,
   RunsStay, Label, runVars, history

LEMMA RecoverMoves ==
    ASSUME TypeInv, Recover
    PROVE  /\ CallerMoves(Service) /\ pc[Service] = "recovering"
           /\ \/ pc'[Service] = "screening" /\ snap'[Service] = snap[Service]
              \/ pc'[Service] = "rewriting"
           /\ hand'[Service] = hand[Service] /\ todo' = todo /\ queue' = queue
BY ServiceIsCaller DEF Recover, Goto, TypeInv, RecordInv, RecordTypes, PlaceTyped,
   CallerMoves, OthersWait, RunsStay, Label, runVars, history

LEMMA RewriteMoves ==
    ASSUME TypeInv, Rewrite
    PROVE  /\ CallerMoves(Service) /\ pc[Service] = "rewriting"
           /\ pc'[Service] = "screening"
           /\ hand'[Service] = hand[Service] /\ todo' = todo
BY ServiceIsCaller DEF Rewrite, Goto, DropSnap, TypeInv, RecordInv, RecordTypes, PlaceTyped,
   CallerMoves, OthersWait, RunsStay, Label, runVars

LEMMA TickEndsMoves ==
    ASSUME TypeInv, TickEnds
    PROVE  /\ CallerMoves(Service) /\ pc[Service] = "choosing" /\ pc'[Service] = "idle"
           /\ hand'[Service] = None /\ todo'[Service] = {}
BY LeaveMoves, ServiceIsCaller DEF TickEnds, runVars

-----------------------------------------------------------------------------
\* The steps that change what is known of runs.

\* Started, and not known to have been overlapped or lost.
Kept == {r \in Run : runs[r] # "none" /\ r \notin stray}

\* No kept run is new, and those that stay kept stay where they are.
KeptShrinks ==
    /\ Kept' \subseteq Kept
    /\ \A r \in Kept' : keyOf'[r] = keyOf[r]
    /\ \A k \in Key : link'[k] \in Kept' => link'[k] = link[k]
    /\ \A k \in Key : link[k] \in Kept' => link'[k] = link[k]
    /\ \A c \in Caller : mine[c] \in Kept' => mine'[c] = mine[c]
    /\ \A c \in Caller : mine'[c] # None => mine'[c] = mine[c]

LEMMA RunsStayKept ==
    ASSUME RunsStay
    PROVE  KeptShrinks /\ Kept' = Kept
BY DEF RunsStay, KeptShrinks, Kept

\* The hands are right after a step in which no caller takes a run.
LEMMA HandsHold ==
    ASSUME HandsRight,
           \A c \in Caller : mine'[c] = mine[c] /\ hand'[c] = hand[c],
           \A c \in Caller : pc'[c] \in {"spawned", "linking"} <=> pc[c] \in {"spawned", "linking"},
           \A c \in Caller : mine[c] # None =>
              /\ keyOf'[mine[c]] = keyOf[mine[c]]
              /\ \A k \in Key : link'[k] # mine[c]
    PROVE  HandsRight'
BY DEF HandsRight

LEMMA BeginMoves ==
    ASSUME TypeInv, NEW c \in Caller, NEW k \in Key \cup {None}, Begin(c, k)
    PROVE  /\ PlaceTyped' /\ RunsTyped' /\ HandsRight' /\ OthersWait(c) /\ KeptShrinks
           /\ pc[c] = "idle" /\ pc'[c] = "pruning" /\ snap'[c] = queue
           /\ queue' = queue /\ todo' = todo /\ hand'[c] = k
           /\ \A d \in Caller : mine'[d] # None => mine'[d] \in stray'
<1>1. /\ UNCHANGED <<queue, runs, keyOf, link, todo, mine>>
      /\ stray' = stray \cup ({mine[d] : d \in Caller} \ {None})
  BY DEF Begin, runVars
<1>2. PlaceTyped' /\ OthersWait(c)
  BY DEF Begin, Goto, TypeInv, RecordInv, RecordTypes, PlaceTyped, OthersWait, Label
<1>3. pc[c] = "idle" /\ pc'[c] = "pruning" /\ snap'[c] = queue /\ hand'[c] = k
  BY DEF Begin, Goto, TypeInv, RecordInv, RecordTypes, PlaceTyped
<1>4. \A d \in Caller : mine[d] # None => mine[d] \in Run /\ runs[mine[d]] # "none"
  BY NoneIsNothing DEF TypeInv, HandsRight, PlaceTyped, RunsTyped
<1>5. RunsTyped'
  BY <1>1, <1>4 DEF TypeInv, RunsTyped
<1>6. HandsRight'
  BY <1>1, <1>2, <1>3 DEF TypeInv, HandsRight, OthersWait
<1>7. KeptShrinks
  BY <1>1 DEF KeptShrinks, Kept
<1> QED BY <1>1, <1>2, <1>3, <1>5, <1>6, <1>7

\* The runs that some works are linked to are over, and forgotten with their links.
LEMMA ForgetLinked ==
    ASSUME TypeInv, NEW T \in SUBSET Key, \A k \in T : link[k] # None,
           Forget({link[k] : k \in T}), mine' = mine,
           link' = [k \in Key |-> IF k \in T THEN None ELSE link[k]]
    PROVE  /\ RunsTyped' /\ KeptShrinks
           /\ \A c \in Caller : mine[c] # None =>
                 /\ keyOf'[mine[c]] = keyOf[mine[c]]
                 /\ \A k \in Key : link'[k] # mine[c]
<1>1. PICK gone : gone = {link[k] : k \in T}
  OBVIOUS
<1>2. /\ runs' = [r \in Run |-> IF r \in gone THEN "none" ELSE runs[r]]
      /\ keyOf' = [r \in Run |-> IF r \in gone THEN None ELSE keyOf[r]]
      /\ stray' = stray \ gone
  BY <1>1 DEF Forget
<1>3. \A k \in Key \ T : link[k] # None => link[k] \notin gone
  BY <1>1 DEF TypeInv, RunsTyped
<1>4. \A c \in Caller : mine[c] # None => mine[c] \in Run /\ mine[c] \notin gone
  BY <1>1 DEF TypeInv, HandsRight, PlaceTyped
<1>5. \A r \in Run : runs'[r] \in RunState /\ keyOf'[r] \in Key \cup {None}
  BY <1>2 DEF TypeInv, RunsTyped, RunState
<1>6. RunsTyped'
  BY <1>2, <1>3, <1>5 DEF TypeInv, RunsTyped
<1>7. KeptShrinks
  <2>1. \A r \in Kept' : r \in Kept /\ r \notin gone /\ keyOf'[r] = keyOf[r]
    BY <1>2 DEF Kept
  <2>2. None \notin Kept'
    BY NoneIsNothing DEF Kept
  <2>3. \A k \in T : link[k] \in gone
    BY <1>1
  <2> QED BY <2>1, <2>2, <2>3 DEF KeptShrinks
<1>8. \A c \in Caller : mine[c] # None => \A k \in Key : link'[k] # mine[c]
  BY DEF TypeInv, HandsRight
<1> QED BY <1>2, <1>4, <1>6, <1>7, <1>8

LEMMA InspectMoves ==
    ASSUME TypeInv, NEW c \in Caller, Inspect(c)
    PROVE  /\ PlaceTyped' /\ RunsTyped' /\ HandsRight' /\ OthersWait(c) /\ KeptShrinks
           /\ pc[c] = "inspecting" /\ pc'[c] = "repairing" /\ hand'[c] = hand[c]
           /\ todo' = todo
<1>1. PlaceTyped' /\ OthersWait(c)
  BY DEF Inspect, Goto, TypeInv, RecordInv, RecordTypes, PlaceTyped, OthersWait, Label
<1>2. /\ pc[c] = "inspecting" /\ pc'[c] = "repairing" /\ UNCHANGED <<hand, mine, todo>>
  BY DEF Inspect, Goto, TypeInv, PlaceTyped
<1>3. Told \in SUBSET Key /\ \A k \in Told : link[k] # None
  BY DEF Told
<1>4. Forget({link[k] : k \in Told}) /\ link' = [k \in Key |-> IF k \in Told THEN None ELSE link[k]]
  BY DEF Inspect
<1>5. /\ RunsTyped' /\ KeptShrinks
      /\ \A d \in Caller : mine[d] # None =>
            keyOf'[mine[d]] = keyOf[mine[d]] /\ \A k \in Key : link'[k] # mine[d]
  BY <1>2, <1>3, <1>4, ForgetLinked
<1>6. HandsRight'
  BY <1>1, <1>2, <1>5, HandsHold DEF TypeInv, OthersWait
<1> QED BY <1>1, <1>2, <1>5, <1>6

LEMMA ScreenMoves ==
    ASSUME TypeInv, Screen
    PROVE  /\ PlaceTyped' /\ RunsTyped' /\ HandsRight' /\ OthersWait(Service) /\ KeptShrinks
           /\ pc[Service] = "screening" /\ pc'[Service] = "choosing"
           /\ todo'[Service] = {k \in Key : Is(queue'[k], {"needs_repair", "degraded"})}
           /\ snap'[Service] = queue' /\ hand' = hand
           /\ phase' = "replay" /\ started' = started
           /\ \A k \in Over : link'[k] = None
<1>1. PICK S \in SUBSET Key : S = {k \in Key : Is(queue'[k], {"needs_repair", "degraded"})}
  OBVIOUS
<1>2. todo' = [todo EXCEPT ![Service] = S]
  BY <1>1 DEF Screen
<1>3. PlaceTyped' /\ OthersWait(Service)
  BY <1>2, ServiceIsCaller DEF Screen, Goto, TypeInv, RecordInv, RecordTypes, PlaceTyped,
     OthersWait, Label
<1>4. /\ pc[Service] = "screening" /\ pc'[Service] = "choosing" /\ todo'[Service] = S
      /\ snap'[Service] = queue' /\ UNCHANGED <<hand, mine, started>> /\ phase' = "replay"
  BY <1>2, ServiceIsCaller DEF Screen, Goto, TypeInv, RecordInv, RecordTypes, PlaceTyped
<1>5. Over \in SUBSET Key /\ \A k \in Over : link[k] # None
  BY DEF Over
<1>6. Forget({link[k] : k \in Over}) /\ link' = [k \in Key |-> IF k \in Over THEN None ELSE link[k]]
  BY DEF Screen
<1>7. /\ RunsTyped' /\ KeptShrinks
      /\ \A d \in Caller : mine[d] # None =>
            keyOf'[mine[d]] = keyOf[mine[d]] /\ \A k \in Key : link'[k] # mine[d]
  BY <1>4, <1>5, <1>6, ForgetLinked
<1>8. HandsRight'
  BY <1>3, <1>4, <1>7, HandsHold DEF TypeInv, OthersWait
<1> QED BY <1>1, <1>3, <1>4, <1>5, <1>6, <1>7, <1>8

LEMMA SpawnMoves ==
    ASSUME TypeInv, NEW c \in Caller, Spawn(c)
    PROVE  /\ PlaceTyped' /\ RunsTyped' /\ HandsRight' /\ OthersWait(c)
           /\ pc[c] = "launching" /\ pc'[c] = "spawned" /\ hand'[c] = hand[c]
           /\ queue' = queue /\ todo' = todo /\ snap' = snap /\ link' = link
           /\ mine[c] = None
           /\ \A r \in Kept' : r = mine'[c] \/ (r \in Kept /\ keyOf'[r] = keyOf[r])
           /\ \A r \in Kept : r \in Kept' /\ r # mine'[c]
           /\ mine'[c] \in Run /\ keyOf'[mine'[c]] = hand[c]
           /\ mine'[c] \in Kept' => \A d \in Caller \ {c} : pc[d] = "idle"
<1>1. PICK r \in Run :
         /\ runs[r] = "none"
         /\ runs' = [runs EXCEPT ![r] = "live"]
         /\ keyOf' = [keyOf EXCEPT ![r] = hand[c]]
         /\ mine' = [mine EXCEPT ![c] = r]
         /\ stray' = IF \E d \in Caller \ {c} : pc[d] # "idle" THEN stray \cup {r} ELSE stray
  BY DEF Spawn
<1>2. /\ pc[c] = "launching" /\ Goto(c, "spawned") /\ hand[c] \in Key
      /\ UNCHANGED <<queue, link, phase, snap, todo, hand, started>>
  BY DEF Spawn, TypeInv, RecordInv
<1>3. /\ pc'[c] = "spawned" /\ hand'[c] = hand[c] /\ mine'[c] = r /\ mine[c] = None
      /\ \A d \in Caller \ {c} : pc'[d] = pc[d] /\ hand'[d] = hand[d] /\ mine'[d] = mine[d]
  BY <1>1, <1>2 DEF Goto, TypeInv, PlaceTyped, HandsRight
<1>4. PlaceTyped' /\ OthersWait(c)
  BY <1>1, <1>2 DEF Goto, TypeInv, PlaceTyped, OthersWait, Label
<1>5. keyOf[r] = None /\ r \notin stray /\ r # None
  BY <1>1, NoneIsNothing DEF TypeInv, RunsTyped
<1>6. RunsTyped'
  BY <1>1, <1>2, <1>5, NoneIsNothing DEF TypeInv, RunsTyped, RunState
<1>7. \A k \in Key : link[k] # r
  BY <1>5, NoneIsNothing DEF TypeInv, RunsTyped
<1>8. \A d \in Caller : mine[d] # r
  BY <1>5, NoneIsNothing DEF TypeInv, HandsRight
<1>9. /\ keyOf'[r] = hand[c]
      /\ \A q \in Run : q # r => keyOf'[q] = keyOf[q] /\ runs'[q] = runs[q]
  BY <1>1 DEF TypeInv, RunsTyped
<1>10. HandsRight'
  <2>1. ASSUME NEW d \in Caller \ {c}
        PROVE  /\ pc'[d] \in {"spawned", "linking"} <=> mine'[d] # None
               /\ mine'[d] # None =>
                    /\ hand'[d] \in Key /\ keyOf'[mine'[d]] = hand'[d]
                    /\ \A k \in Key : link'[k] # mine'[d]
                    /\ \A e \in Caller : mine'[e] = mine'[d] => e = d
    BY <1>2, <1>3, <1>8, <1>9 DEF TypeInv, HandsRight, PlaceTyped
  <2>2. \A e \in Caller : mine'[e] = r => e = c
    BY <1>3, <1>8
  <2> QED BY <1>2, <1>3, <1>5, <1>7, <1>9, <2>1, <2>2 DEF HandsRight
<1>11. /\ \A q \in Kept' : q = r \/ (q \in Kept /\ keyOf'[q] = keyOf[q])
       /\ \A q \in Kept : q \in Kept' /\ q # r
  BY <1>1, <1>9 DEF Kept
<1>12. r \in Kept' => \A d \in Caller \ {c} : pc[d] = "idle"
  BY <1>1 DEF Kept
<1> QED BY <1>2, <1>3, <1>4, <1>6, <1>9, <1>10, <1>11, <1>12

LEMMA LinkMoves ==
    ASSUME TypeInv, NEW c \in Caller, Link(c)
    PROVE  /\ PlaceTyped' /\ RunsTyped' /\ HandsRight' /\ OthersWait(c)
           /\ pc[c] = "linking" /\ mine'[c] = None /\ hand'[c] = None
           /\ queue' = queue /\ hand[c] \in Key /\ mine[c] \in Run
           /\ \/ c \in Starter /\ pc'[c] = "idle" /\ todo'[c] = {}
              \/ c = Service /\ pc'[c] = "choosing" /\ todo'[c] = todo[c] /\ snap'[c] = snap[c]
           /\ link' = [link EXCEPT ![hand[c]] = mine[c]]
           /\ \A r \in Kept' : r \in Kept /\ keyOf'[r] = keyOf[r] /\ r # link[hand[c]]
<1>1. PICK k : k = hand[c]
  OBVIOUS
<1>2. PICK q : q = mine[c]
  OBVIOUS
<1>3. PICK lost : lost = {link[k]} \ {None, q}
  OBVIOUS
<1>4. /\ pc[c] = "linking" /\ GoOn(c) /\ UNCHANGED <<queue, phase>>
      /\ link' = [link EXCEPT ![k] = q]
      /\ runs' = [r \in Run |-> IF r \in lost \ Live THEN "none" ELSE runs[r]]
      /\ keyOf' = [r \in Run |-> IF r \in lost \ Live THEN None ELSE keyOf[r]]
      /\ stray' = (stray \cup lost) \cap {r \in Run : runs'[r] # "none"}
      /\ started' = IF c = Service /\ phase = "drain" THEN started \cup {k} ELSE started
  BY <1>1, <1>2, <1>3 DEF Link
<1>5. /\ k \in Key /\ q \in Run /\ keyOf[q] = k /\ runs[q] # "none" /\ q # None
      /\ \A j \in Key : link[j] # q
      /\ \A d \in Caller : mine[d] = q => d = c
  BY <1>1, <1>2, <1>4, NoneIsNothing DEF TypeInv, HandsRight, PlaceTyped, RunsTyped
<1>6. /\ OthersWait(c) /\ hand'[c] = None /\ mine'[c] = None
      /\ \/ c \in Starter /\ pc'[c] = "idle" /\ todo'[c] = {}
         \/ c = Service /\ pc'[c] = "choosing" /\ todo'[c] = todo[c] /\ snap'[c] = snap[c]
  BY <1>4, GoOnMoves
<1>7. PlaceTyped'
  BY <1>4, <1>5, GoOnMoves DEF TypeInv, PlaceTyped
<1>8. q \notin lost /\ \A j \in Key : j # k /\ link[j] # None => link[j] \notin lost
  BY <1>3, <1>5 DEF TypeInv, RunsTyped
<1>9. \A d \in Caller : mine[d] # None => mine[d] \notin lost
  BY <1>3, <1>5 DEF TypeInv, HandsRight
<1>10. \A r \in Run : runs'[r] \in RunState /\ keyOf'[r] \in Key \cup {None}
  BY <1>4 DEF TypeInv, RunsTyped, RunState
<1>11. RunsTyped'
  <2>1. runs' \in [Run -> RunState] /\ keyOf' \in [Run -> Key \cup {None}]
    BY <1>4, <1>10
  <2>2. \A r \in Run : keyOf'[r] = None <=> runs'[r] = "none"
    BY <1>4 DEF TypeInv, RunsTyped
  <2>3. link' \in [Key -> Run \cup {None}]
    BY <1>4, <1>5 DEF TypeInv, RunsTyped
  <2>4. \A j \in Key : link'[j] # None => keyOf'[link'[j]] = j
    BY <1>4, <1>5, <1>8 DEF TypeInv, RunsTyped
  <2> QED BY <1>4, <2>1, <2>2, <2>3, <2>4 DEF RunsTyped
<1>12. HandsRight'
  <2>1. ASSUME NEW d \in Caller \ {c}
        PROVE  /\ pc'[d] = pc[d] /\ hand'[d] = hand[d] /\ mine'[d] = mine[d]
               /\ mine[d] # None => /\ keyOf'[mine[d]] = keyOf[mine[d]]
                                    /\ \A j \in Key : link'[j] # mine[d]
    <3>1. mine[d] # None => mine[d] \in Run /\ mine[d] # q /\ \A j \in Key : link[j] # mine[d]
      BY <1>5 DEF TypeInv, HandsRight, PlaceTyped
    <3> QED BY <1>4, <1>6, <1>9, <3>1 DEF OthersWait, TypeInv, RunsTyped
  <2>2. pc'[c] \notin {"spawned", "linking"} /\ mine'[c] = None
    BY <1>6
  <2> QED BY <2>1, <2>2 DEF TypeInv, HandsRight
<1>13. ASSUME NEW r \in Kept' PROVE r \in Kept /\ keyOf'[r] = keyOf[r] /\ r # link[k]
  <2>1. r \in Run /\ runs'[r] # "none" /\ r \notin stray'
    BY <1>13 DEF Kept
  <2>2. r \notin lost
    BY <1>4, <2>1
  <2>3. r # link[k]
    BY <1>3, <1>5, <2>1, <2>2, NoneIsNothing
  <2> QED BY <1>4, <2>1, <2>2, <2>3 DEF Kept
<1> QED BY <1>1, <1>2, <1>4, <1>5, <1>6, <1>7, <1>11, <1>12, <1>13

LEMMA LaunchFailsMoves ==
    ASSUME TypeInv, NEW c \in Caller, LaunchFails(c)
    PROVE  /\ PlaceTyped' /\ RunsTyped' /\ HandsRight' /\ OthersWait(c)
           /\ pc[c] \in {"launching", "spawned", "linking"} /\ pc'[c] = "degrading"
           /\ hand'[c] = hand[c] /\ todo' = todo /\ snap' = snap /\ link' = link
           /\ mine'[c] = None /\ queue' = queue
           /\ \A r \in Kept' : r \in Kept /\ keyOf'[r] = keyOf[r] /\ r # mine[c]
<1>1. PICK q : q = mine[c]
  OBVIOUS
<1>2. /\ runs' = [r \in Run |-> IF r = q /\ r \notin Live THEN "none" ELSE runs[r]]
      /\ keyOf' = [r \in Run |-> IF runs'[r] = "none" THEN None ELSE keyOf[r]]
      /\ stray' = (stray \cup {q}) \cap {r \in Run : runs'[r] # "none"}
      /\ mine' = [mine EXCEPT ![c] = None]
      /\ pc[c] \in {"launching", "spawned", "linking"} /\ Goto(c, "degrading")
      /\ UNCHANGED <<queue, link, phase, snap, todo, hand, started>>
  BY <1>1 DEF LaunchFails
<1>3. PlaceTyped' /\ OthersWait(c) /\ pc'[c] = "degrading" /\ mine'[c] = None
  BY <1>2 DEF Goto, TypeInv, PlaceTyped, OthersWait, Label
<1>4. /\ \A k \in Key : link[k] # None => link[k] # q
      /\ \A d \in Caller \ {c} : mine[d] # None => mine[d] # q
  BY <1>1 DEF TypeInv, HandsRight
<1>5. \A r \in Run : r # q => runs'[r] = runs[r] /\ keyOf'[r] = keyOf[r]
  BY <1>2 DEF TypeInv, RunsTyped
<1>6. RunsTyped'
  <2>1. runs' \in [Run -> RunState] /\ keyOf' \in [Run -> Key \cup {None}]
    BY <1>2 DEF TypeInv, RunsTyped, RunState
  <2>2. \A r \in Run : keyOf'[r] = None <=> runs'[r] = "none"
    BY <1>2 DEF TypeInv, RunsTyped
  <2>3. \A k \in Key : link'[k] # None => keyOf'[link'[k]] = k
    BY <1>2, <1>4, <1>5 DEF TypeInv, RunsTyped
  <2> QED BY <1>2, <2>1, <2>2, <2>3 DEF TypeInv, RunsTyped
<1>7. HandsRight'
  <2>1. ASSUME NEW d \in Caller \ {c}
        PROVE  /\ pc'[d] = pc[d] /\ hand'[d] = hand[d] /\ mine'[d] = mine[d]
               /\ mine[d] # None => keyOf'[mine[d]] = keyOf[mine[d]]
    <3>1. mine[d] # None => mine[d] \in Run
      BY DEF TypeInv, PlaceTyped
    <3> QED BY <1>3, <1>4, <1>5, <3>1 DEF OthersWait
  <2> QED BY <1>2, <1>3, <2>1 DEF TypeInv, HandsRight
<1>8. \A r \in Kept' : r \in Kept /\ keyOf'[r] = keyOf[r] /\ r # q
  BY <1>2 DEF Kept
<1> QED BY <1>1, <1>2, <1>3, <1>6, <1>7, <1>8

\* Whoever moves while no caller does.
NobodyMoves == UNCHANGED <<pc, phase, todo, hand, mine, started>>

LEMMA RunEndsMoves ==
    ASSUME TypeInv, NEW r \in Run, RunEnds(r)
    PROVE  /\ NobodyMoves /\ RunsTyped' /\ HandsRight' /\ KeptShrinks
           /\ UNCHANGED <<queue, snap>>
<1>1. /\ NobodyMoves /\ UNCHANGED <<queue, snap, link>>
      /\ runs[r] = "live"
  BY DEF RunEnds, callVars, NobodyMoves
<1>2. PICK how \in RunState :
        /\ runs' = [runs EXCEPT ![r] = how]
        /\ how = "none" <=> r \notin Held
  BY DEF RunEnds, RunState
<1>3. /\ keyOf' = [keyOf EXCEPT ![r] = IF r \in Held THEN keyOf[r] ELSE None]
      /\ stray' = IF r \in Held THEN stray ELSE stray \ {r}
  BY DEF RunEnds
<1>4. /\ \A k \in Key : link[k] \in Held
      /\ \A c \in Caller : mine[c] \in Held
  BY DEF Held
<1>5. /\ \A q \in Run : q # r => runs'[q] = runs[q] /\ keyOf'[q] = keyOf[q]
      /\ \A q \in Held \cap Run : keyOf'[q] = keyOf[q]
      /\ runs'[r] = how /\ keyOf'[r] = IF r \in Held THEN keyOf[r] ELSE None
  BY <1>2, <1>3 DEF TypeInv, RunsTyped
<1>6. RunsTyped'
  <2>1. runs' \in [Run -> RunState] /\ keyOf' \in [Run -> Key \cup {None}]
    BY <1>2, <1>3 DEF TypeInv, RunsTyped
  <2>2. \A q \in Run : keyOf'[q] = None <=> runs'[q] = "none"
    BY <1>1, <1>2, <1>5 DEF TypeInv, RunsTyped
  <2>3. \A k \in Key : link'[k] # None => keyOf'[link'[k]] = k
    BY <1>1, <1>4, <1>5 DEF TypeInv, RunsTyped
  <2>4. stray' \subseteq {q \in Run : runs'[q] # "none"}
    BY <1>2, <1>3, <1>5 DEF TypeInv, RunsTyped
  <2> QED BY <1>1, <2>1, <2>2, <2>3, <2>4 DEF TypeInv, RunsTyped
<1>7. HandsRight'
  <2>1. \A c \in Caller : mine[c] # None => mine[c] \in Run
    BY DEF TypeInv, PlaceTyped
  <2>2. \A c \in Caller : mine[c] # None => keyOf'[mine[c]] = keyOf[mine[c]]
    BY <1>4, <1>5, <2>1
  <2> QED BY <1>1, <2>2 DEF TypeInv, HandsRight, NobodyMoves
<1>8. KeptShrinks
  <2>1. \A q \in Kept' : q \in Kept /\ keyOf'[q] = keyOf[q]
    BY <1>1, <1>2, <1>3, <1>5 DEF Kept
  <2> QED BY <1>1, <2>1 DEF KeptShrinks, NobodyMoves
<1> QED BY <1>1, <1>6, <1>7, <1>8

LEMMA LoseTrackMoves ==
    ASSUME TypeInv, NEW k \in Key, LoseTrack(k)
    PROVE  /\ NobodyMoves /\ RunsTyped' /\ HandsRight' /\ KeptShrinks
           /\ UNCHANGED <<queue, snap>>
<1>1. /\ NobodyMoves /\ UNCHANGED <<queue, snap, runs, keyOf>>
      /\ link[k] \in Run /\ runs[link[k]] = "live"
      /\ stray' = stray \cup {link[k]}
      /\ link' = [link EXCEPT ![k] = None]
  BY DEF LoseTrack, callVars, NobodyMoves, Live
<1>2. RunsTyped'
  BY <1>1 DEF TypeInv, RunsTyped
<1>3. HandsRight'
  BY <1>1 DEF TypeInv, HandsRight, NobodyMoves, RunsTyped
<1>4. KeptShrinks
  BY <1>1, NoneIsNothing DEF KeptShrinks, Kept, NobodyMoves, TypeInv, RunsTyped
<1> QED BY <1>1, <1>2, <1>3, <1>4

LEMMA AgeMoves ==
    ASSUME TypeInv, NEW k \in Key, Age(k)
    PROVE  /\ NobodyMoves /\ RunsTyped' /\ HandsRight' /\ KeptShrinks
           /\ UNCHANGED <<runs, keyOf, link, stray>>
<1>1. NobodyMoves /\ UNCHANGED <<runs, keyOf, link, stray>>
  BY DEF Age, NobodyMoves, runVars, history
<1> QED BY <1>1 DEF TypeInv, RunsTyped, HandsRight, NobodyMoves, KeptShrinks, Kept

-----------------------------------------------------------------------------
\* Types of what is counted and noted.

LEMMA NoteTyped ==
    ASSUME NotesTyped, NEW c, Note(c)
    PROVE  meanwhile' \in [Caller -> SUBSET Key]
<1>1. PICK news \in SUBSET Key :
        meanwhile' = [d \in Caller |-> IF pc'[d] = "idle" THEN {}
                                       ELSE IF d = c THEN meanwhile[d]
                                       ELSE meanwhile[d] \cup news]
  <2> DEFINE news == {k \in Key : /\ queue'[k] # queue[k]
                                  /\ Fresh(queue'[k]) \/ Is(queue'[k], {"completed"})}
  <2>1. news \in SUBSET Key
    OBVIOUS
  <2> QED BY <2>1 DEF Note
<1> QED BY <1>1 DEF NotesTyped

LEMMA WriteFileTyped ==
    ASSUME NotesTyped, NEW c, NEW entries, WriteFile(c, entries)
    PROVE  NotesTyped'
BY NoteTyped DEF WriteFile, NotesTyped

LEMMA CallerNotes ==
    ASSUME NotesTyped, NEW c \in Caller,
           Reconcile(c) \/ AlreadyThere(c) \/ Intent(c) \/ NoSession(c) \/ Requeue(c)
              \/ Enqueue(c) \/ Launch(c) \/ LaunchFails(c) \/ (\E k : Begin(c, k))
    PROVE  NotesTyped'
<1>1. CASE Reconcile(c)
  BY <1>1, WriteFileTyped, NoteTyped DEF Reconcile, Prune, Inspect, Repair, NotesTyped
<1>2. CASE AlreadyThere(c) \/ Intent(c)
  BY <1>2, NoteTyped DEF AlreadyThere, Intent, NotesTyped
<1>3. CASE NoSession(c) \/ Requeue(c)
  BY <1>3 DEF NoSession, Requeue, ReadToEnqueue, history, NotesTyped
<1>4. CASE Enqueue(c)
  BY <1>4, WriteFileTyped DEF Enqueue
<1>5. CASE Launch(c)
  BY <1>5, NoteTyped DEF Launch, PatchLaunching, Spawn, PatchRunning, Link, Degrade, history,
     NotesTyped
<1>6. CASE LaunchFails(c)
  BY <1>6 DEF LaunchFails, NotesTyped
<1>7. CASE \E k : Begin(c, k)
  BY <1>7 DEF Begin, NotesTyped
<1> QED BY <1>1, <1>2, <1>3, <1>4, <1>5, <1>6, <1>7

LEMMA ServiceNotes ==
    ASSUME NotesTyped, ServiceStep
    PROVE  NotesTyped'
<1>1. CASE Tick \/ Reconcile(Service) \/ Launch(Service)
  BY <1>1, CallerNotes, ServiceIsCaller DEF Tick
<1>2. ASSUME NEW k \in Key, Resume(k) \/ PassOver(k) \/ GiveUp(k) PROVE NotesTyped'
  BY <1>2 DEF Resume, PassOver, GiveUp, history, NotesTyped
<1>3. CASE Judge \/ Drained \/ Sweep \/ Terminalize \/ Recover
  BY <1>3 DEF Judge, Drained, Sweep, Terminalize, Recover, history, NotesTyped
<1>4. CASE Mark \/ Rewrite
  BY <1>4, WriteFileTyped DEF Mark, Rewrite
<1>5. CASE Screen
  BY <1>5 DEF Screen, NotesTyped
<1>6. CASE TickEnds
  BY <1>6, NoteTyped DEF TickEnds, NotesTyped
<1> QED BY <1>1, <1>2, <1>3, <1>4, <1>5, <1>6 DEF ServiceStep

LEMMA NextNotes ==
    ASSUME NotesTyped, QueueNext
    PROVE  NotesTyped'
<1>1. ASSUME NEW c \in Starter, (\E k \in Key : Ask(c, k)) \/ StarterGoesOn(c)
      PROVE  NotesTyped'
  BY <1>1, CallerNotes DEF Ask, StarterGoesOn, Caller
<1>2. ASSUME NEW c \in Caller, LaunchFails(c) PROVE NotesTyped'
  BY <1>2, CallerNotes
<1>3. ASSUME NEW r \in Run, RunEnds(r) PROVE NotesTyped'
  BY <1>3 DEF RunEnds, NotesTyped
<1>4. ASSUME NEW k \in Key, LoseTrack(k) \/ Age(k) PROVE NotesTyped'
  BY <1>4 DEF LoseTrack, Age, history, NotesTyped
<1> QED BY <1>1, <1>2, <1>3, <1>4, ServiceNotes DEF QueueNext

LEMMA NextCounts ==
    ASSUME CountsTyped, QueueNext
    PROVE  CountsTyped'
<1>1. ASSUME NEW c \in Caller, Launch(c) \/ Reconcile(c) PROVE CountsTyped'
  BY <1>1 DEF Launch, PatchLaunching, Spawn, PatchRunning, Link, Degrade, Reconcile, Prune,
     Inspect, Repair, CountsTyped
<1>2. ASSUME NEW c \in Starter, \E k \in Key : Ask(c, k) PROVE CountsTyped'
  BY <1>2, QueueAssumption DEF Ask, Begin, CountsTyped
<1>3. ASSUME NEW c \in Starter, StarterGoesOn(c) PROVE CountsTyped'
  BY <1>1, <1>3 DEF StarterGoesOn, AlreadyThere, Intent, NoSession, Requeue, ReadToEnqueue,
     Enqueue, CountsTyped, Caller
<1>4. CASE ServiceStep
  <2>1. ASSUME NEW k \in Key, Resume(k) \/ PassOver(k) \/ GiveUp(k) PROVE CountsTyped'
    BY <2>1 DEF Resume, PassOver, GiveUp, CountsTyped
  <2>2. CASE Launch(Service) \/ Reconcile(Service)
    BY <1>1, <2>2, ServiceIsCaller
  <2>3. CASE Tick \/ Judge \/ Drained \/ Mark \/ Sweep \/ Terminalize
    BY <2>3 DEF Tick, Begin, Judge, Drained, Mark, Sweep, Terminalize, CountsTyped
  <2>4. CASE Recover \/ Rewrite \/ Screen \/ TickEnds
    BY <2>4 DEF Recover, Rewrite, Screen, TickEnds, CountsTyped
  <2> QED BY <1>4, <2>1, <2>2, <2>3, <2>4 DEF ServiceStep
<1>5. ASSUME NEW c \in Caller, LaunchFails(c) PROVE CountsTyped'
  BY <1>5, QueueAssumption DEF LaunchFails, CountsTyped
<1>6. ASSUME NEW r \in Run, RunEnds(r) PROVE CountsTyped'
  BY <1>6, QueueAssumption DEF RunEnds, CountsTyped
<1>7. ASSUME NEW k \in Key, LoseTrack(k) \/ Age(k) PROVE CountsTyped'
  BY <1>7, QueueAssumption DEF LoseTrack, Age, CountsTyped
<1> QED BY <1>2, <1>3, <1>4, <1>5, <1>6, <1>7 DEF QueueNext

-----------------------------------------------------------------------------
\* The types are kept.

WorldKept == PlaceTyped' /\ RunsTyped' /\ HandsRight'

LEMMA QuietWorld ==
    ASSUME TypeInv, NEW c \in Caller, CallerMoves(c),
           \/ pc[c] \notin {"spawned", "linking"} /\ pc'[c] \notin {"spawned", "linking"}
           \/ /\ pc[c] \in {"spawned", "linking"} /\ pc'[c] \in {"spawned", "linking"}
              /\ hand'[c] = hand[c]
    PROVE  WorldKept
<1>1. HandsRight'
  BY HandsStay DEF TypeInv
<1>2. RunsTyped'
  BY DEF TypeInv, RunsTyped, CallerMoves, RunsStay
<1> QED BY <1>1, <1>2 DEF WorldKept, CallerMoves

LEMMA LaunchWorld ==
    ASSUME TypeInv, NEW c \in Caller, Launch(c)
    PROVE  WorldKept
<1>1. CASE PatchLaunching(c)
  BY <1>1, PatchLaunchingMoves, QuietWorld
<1>2. CASE Spawn(c)
  BY <1>2, SpawnMoves DEF WorldKept
<1>3. CASE PatchRunning(c)
  BY <1>3, PatchRunningMoves, QuietWorld
<1>4. CASE Link(c)
  BY <1>4, LinkMoves DEF WorldKept
<1>5. CASE Degrade(c)
  BY <1>5, DegradeMoves, QuietWorld
<1> QED BY <1>1, <1>2, <1>3, <1>4, <1>5 DEF Launch

LEMMA ReconcileWorld ==
    ASSUME TypeInv, NEW c \in Caller, Reconcile(c)
    PROVE  WorldKept
<1>1. CASE Prune(c)
  BY <1>1, PruneMoves, QuietWorld
<1>2. CASE Inspect(c)
  BY <1>2, InspectMoves DEF WorldKept
<1>3. CASE Repair(c)
  BY <1>3, RepairMoves, QuietWorld
<1> QED BY <1>1, <1>2, <1>3 DEF Reconcile

LEMMA StarterWorld ==
    ASSUME TypeInv, NEW c \in Caller, StarterGoesOn(c)
    PROVE  WorldKept
<1>1. CASE AlreadyThere(c)
  BY <1>1, AlreadyThereMoves, QuietWorld
<1>2. CASE Intent(c)
  BY <1>2, IntentMoves, QuietWorld
<1>3. CASE NoSession(c) \/ Requeue(c)
  BY <1>3, ReadToEnqueueMoves, QuietWorld
<1>4. CASE Enqueue(c)
  BY <1>4, EnqueueMoves, QuietWorld
<1> QED BY <1>1, <1>2, <1>3, <1>4, ReconcileWorld, LaunchWorld DEF StarterGoesOn

LEMMA ServiceWorld ==
    ASSUME TypeInv, ServiceStep
    PROVE  WorldKept
<1> USE ServiceIsCaller
<1>1. CASE Tick
  BY <1>1, BeginMoves DEF Tick, WorldKept
<1>2. ASSUME NEW k \in Key, Resume(k) \/ PassOver(k) \/ GiveUp(k) PROVE WorldKept
  <2>1. CASE Resume(k)
    BY <2>1, ResumeMoves, QuietWorld
  <2>2. CASE PassOver(k)
    BY <2>2, PassOverMoves, QuietWorld
  <2>3. CASE GiveUp(k)
    BY <2>3, GiveUpMoves, QuietWorld
  <2> QED BY <1>2, <2>1, <2>2, <2>3
<1>3. CASE Judge
  BY <1>3, JudgeMoves, QuietWorld
<1>4. CASE Drained
  BY <1>4, DrainedMoves, QuietWorld
<1>5. CASE Mark
  BY <1>5, MarkMoves, QuietWorld
<1>6. CASE Sweep
  BY <1>6, SweepMoves, QuietWorld
<1>7. CASE Terminalize
  BY <1>7, TerminalizeMoves, QuietWorld
<1>8. CASE Recover
  BY <1>8, RecoverMoves, QuietWorld
<1>9. CASE Rewrite
  BY <1>9, RewriteMoves, QuietWorld
<1>10. CASE Screen
  BY <1>10, ScreenMoves DEF WorldKept
<1>11. CASE TickEnds
  BY <1>11, TickEndsMoves, QuietWorld
<1> QED BY <1>1, <1>2, <1>3, <1>4, <1>5, <1>6, <1>7, <1>8, <1>9, <1>10, <1>11,
           ReconcileWorld, LaunchWorld DEF ServiceStep

LEMMA NextWorld ==
    ASSUME TypeInv, QueueNext
    PROVE  WorldKept
<1>1. ASSUME NEW c \in Starter, NEW k \in Key, Ask(c, k) PROVE WorldKept
  BY <1>1, BeginMoves DEF Ask, WorldKept, Caller
<1>2. ASSUME NEW c \in Starter, StarterGoesOn(c) PROVE WorldKept
  BY <1>2, StarterWorld DEF Caller
<1>3. ASSUME NEW c \in Caller, LaunchFails(c) PROVE WorldKept
  BY <1>3, LaunchFailsMoves DEF WorldKept
<1>4. CASE \/ \E r \in Run : RunEnds(r)
           \/ \E k \in Key : LoseTrack(k) \/ Age(k)
  <2>1. NobodyMoves /\ RunsTyped' /\ HandsRight'
    BY <1>4, RunEndsMoves, LoseTrackMoves, AgeMoves
  <2>2. PlaceTyped'
    BY <2>1 DEF NobodyMoves, TypeInv, PlaceTyped
  <2> QED BY <2>1, <2>2 DEF WorldKept
<1> QED BY <1>1, <1>2, <1>3, <1>4, ServiceWorld DEF QueueNext

LEMMA TypeInvInit == ASSUME QueueInit PROVE TypeInv
<1>1. RecordInv
  BY RecordInvInit
<1>2. PlaceTyped /\ NotesTyped
  BY DEF QueueInit, PlaceTyped, NotesTyped, Label
<1>3. RunsTyped /\ CountsTyped
  BY QueueAssumption DEF QueueInit, RunsTyped, RunState, CountsTyped
<1>4. HandsRight
  BY DEF QueueInit, HandsRight
<1> QED BY <1>1, <1>2, <1>3, <1>4 DEF TypeInv

LEMMA TypeInvStep == ASSUME TypeInv, [QueueNext]_queueVars PROVE TypeInv'
<1>1. RecordInv'
  BY StepIsSafe DEF TypeInv
<1>2. CASE QueueNext
  <2>1. WorldKept
    BY <1>2, NextWorld
  <2>2. NotesTyped' /\ CountsTyped'
    BY <1>2, NextNotes, NextCounts DEF TypeInv
  <2> QED BY <1>1, <2>1, <2>2 DEF TypeInv, WorldKept
<1>3. CASE UNCHANGED queueVars
  BY <1>1, <1>3 DEF queueVars, callVars, runVars, history, TypeInv, PlaceTyped, RunsTyped,
     CountsTyped, NotesTyped, HandsRight
<1> QED BY <1>2, <1>3

LEMMA TypeInvariant == QueueSpec => []TypeInv
BY TypeInvInit, TypeInvStep, PTL DEF QueueSpec

\* Types, what a caller holds where, and that a run is linked to the work it was
\* started for, for any number of works, requests, runs and faults.
THEOREM QueueTypeCorrect == QueueSpec => []QueueTypeOK
BY TypeInvTypes, TypeInvariant, PTL

-----------------------------------------------------------------------------
(***************************************************************************)
(* Duplicates are raced. A run that is started while every other caller     *)
(* rests is held by its caller, then linked, and while it is linked its     *)
(* entry says that it runs, in the queue and in whatever a caller is about  *)
(* to write over the queue. Nobody comes to start its work a second time:   *)
(* those who ask look at the link, and the service takes up only entries    *)
(* that do not say so.                                                      *)
(***************************************************************************)

Calm(entry) == entry = None \/ entry.status = "running"

\* A caller sees to the work in its hand, and holds entries that it will write.
Busy == {"intent", "launching", "spawned", "linking", "degrading", "requeuing", "enqueuing",
         "judging"}

Holding == {"pruning", "repairing", "marking", "rewriting", "enqueuing"}

KeptIsHeld == \A r \in Kept : link[keyOf[r]] = r \/ \E c \in Caller : mine[c] = r

Overlapped ==
    \A c, d \in Caller : c # d /\ mine[c] # None /\ pc[d] # "idle" => mine[c] \in stray

Free(k) == \A r \in Kept : keyOf[r] # k

HandFree(c) == pc[c] \in Busy => \A r \in Kept : keyOf[r] = hand[c] => r = mine[c]

KeptIsCalm == \A k \in Key : link[k] \in Kept => Calm(queue[k])

CopyCalm(c) == pc[c] \in Holding => \A k \in Key : link[k] \in Kept => Calm(snap[c][k])

LinkingCalm(c) == pc[c] = "linking" /\ mine[c] \in Kept => Calm(queue[hand[c]])

ToDoFree ==
    \A k \in todo[Service] :
        /\ pc[Service] # "idle" /\ Free(k)
        /\ pc[Service] \in Busy => hand[Service] # k

RaceInv ==
    /\ KeptIsHeld /\ Overlapped /\ KeptIsCalm /\ ToDoFree
    /\ \A c \in Caller : HandFree(c) /\ CopyCalm(c) /\ LinkingCalm(c)

LEMMA KeptFacts ==
    ASSUME TypeInv
    PROVE  /\ None \notin Kept
           /\ \A r \in Kept : r \in Run /\ keyOf[r] \in Key
           /\ \A k \in Key : link[k] \in Kept => keyOf[link[k]] = k
           /\ \A c \in Caller : mine[c] # None => mine[c] \in Run
           /\ \A c \in Caller : mine[c] # None /\ mine[c] \notin Kept => mine[c] \in stray
<1>1. None \notin Kept
  BY NoneIsNothing DEF Kept
<1>2. \A r \in Kept : r \in Run /\ keyOf[r] \in Key
  BY DEF Kept, TypeInv, RunsTyped
<1>3. \A k \in Key : link[k] \in Kept => keyOf[link[k]] = k
  BY <1>1 DEF TypeInv, RunsTyped
<1>4. \A c \in Caller : mine[c] # None => mine[c] \in Run
  BY DEF TypeInv, PlaceTyped
<1>5. \A c \in Caller : mine[c] # None => runs[mine[c]] # "none"
  BY <1>4, NoneIsNothing DEF TypeInv, HandsRight, RunsTyped
<1> QED BY <1>1, <1>2, <1>3, <1>4, <1>5 DEF Kept

\* What has no kept link, as seen by a caller that is at it and has no run, is free.
LEMMA UnlinkedFree ==
    ASSUME TypeInv, RaceInv, NEW c \in Caller, pc[c] # "idle", mine[c] = None, NEW k,
           link[k] \notin Kept
    PROVE  Free(k)
<1> SUFFICES ASSUME NEW r \in Kept, keyOf[r] = k PROVE FALSE
  BY DEF Free
<1>1. PICK d \in Caller : mine[d] = r
  BY DEF RaceInv, KeptIsHeld
<1>2. r # None /\ r \notin stray
  BY KeptFacts DEF Kept
<1> QED BY <1>1, <1>2 DEF RaceInv, Overlapped

LEMMA FreeUnlinked ==
    ASSUME TypeInv, NEW k \in Key, Free(k)
    PROVE  link[k] \notin Kept
BY KeptFacts DEF Free

\* The work in the hand of a caller without a run is free, and not linked to a kept
\* run with one.
LEMMA HandIsFree ==
    ASSUME TypeInv, RaceInv, NEW c \in Caller, pc[c] \in Busy
    PROVE  /\ mine[c] = None => Free(hand[c])
           /\ hand[c] \in Key => link[hand[c]] \notin Kept
<1>1. mine[c] = None => Free(hand[c])
  BY KeptFacts DEF RaceInv, HandFree, Free
<1>2. ASSUME hand[c] \in Key, link[hand[c]] \in Kept PROVE FALSE
  <2>1. link[hand[c]] = mine[c]
    BY <1>2, KeptFacts DEF RaceInv, HandFree
  <2> QED BY <1>2, <2>1, KeptFacts DEF TypeInv, HandsRight
<1> QED BY <1>1, <1>2

\* A step of c, or of nobody, after which no more runs are kept than before.
LEMMA RaceStep ==
    ASSUME TypeInv, TypeInv', RaceInv, KeptShrinks, NEW c \in Caller, OthersWait(c),
           pc[c] # "idle" \/ \A d \in Caller : mine'[d] # None => mine'[d] \in stray',
           pc'[c] \in Busy => \A r \in Kept' : keyOf'[r] = hand'[c] => r = mine'[c],
           \A k \in Key : link'[k] \in Kept' => Calm(queue'[k]),
           pc'[c] = "linking" /\ mine'[c] \in Kept' => Calm(queue'[hand'[c]]),
           pc'[c] \in Holding => \A k \in Key : link'[k] \in Kept' => Calm(snap'[c][k]),
           c = Service => \A k \in todo'[Service] :
              /\ pc'[Service] # "idle" /\ \A r \in Kept' : keyOf'[r] # k
              /\ pc'[Service] \in Busy => hand'[Service] # k
    PROVE  RaceInv'
<1>1. /\ None \notin Kept' /\ Kept' \subseteq Kept
      /\ \A r \in Kept' : r \in Run /\ keyOf'[r] = keyOf[r] /\ keyOf[r] \in Key
      /\ \A d \in Caller : mine'[d] # None /\ mine'[d] \notin Kept' => mine'[d] \in stray'
  <2>1. None \notin Kept' /\ \A d \in Caller : mine'[d] # None /\ mine'[d] \notin Kept'
                                 => mine'[d] \in stray'
    <3>1. \A d \in Caller : mine'[d] # None => mine'[d] \in Run /\ runs'[mine'[d]] # "none"
      BY NoneIsNothing DEF TypeInv, HandsRight, RunsTyped, PlaceTyped
    <3> QED BY <3>1, NoneIsNothing DEF Kept
  <2> QED BY <2>1, KeptFacts DEF KeptShrinks
<1>2. \A r \in Kept' : r \notin stray' /\ r \notin stray
  BY <1>1 DEF Kept
<1>3. \A d \in Caller \ {c} : mine[d] # None => mine'[d] \notin Kept'
  <2>1. ASSUME NEW d \in Caller \ {c}, mine[d] # None, mine'[d] \in Kept', pc[c] # "idle"
        PROVE  FALSE
    BY <1>2, <2>1 DEF RaceInv, Overlapped, OthersWait
  <2> QED BY <1>1, <1>2, <2>1
<1>4. KeptIsHeld'
  <2> SUFFICES ASSUME NEW r \in Kept'
               PROVE  link'[keyOf'[r]] = r \/ \E d \in Caller : mine'[d] = r
    BY DEF KeptIsHeld
  <2>1. keyOf'[r] = keyOf[r] /\ keyOf[r] \in Key /\ r \in Kept
    BY <1>1
  <2>2. link[keyOf[r]] = r \/ \E d \in Caller : mine[d] = r
    BY <2>1 DEF RaceInv, KeptIsHeld
  <2> QED BY <2>1, <2>2 DEF KeptShrinks
<1>5. Overlapped'
  <2> SUFFICES ASSUME NEW a \in Caller, NEW b \in Caller, a # b, mine'[a] # None,
                      pc'[b] # "idle"
               PROVE  mine'[a] \in stray'
    BY DEF Overlapped
  <2>1. mine'[a] = mine[a]
    BY DEF KeptShrinks
  <2>2. CASE pc[b] # "idle"
    <3>1. mine[a] \in stray
      BY <2>1, <2>2 DEF RaceInv, Overlapped
    <3>2. mine'[a] \notin Kept'
      BY <1>2, <2>1, <3>1
    <3> QED BY <1>1, <3>2
  <2>3. CASE pc[b] = "idle"
    BY <2>3 DEF OthersWait
  <2> QED BY <2>2, <2>3
<1>6. KeptIsCalm'
  BY DEF KeptIsCalm
<1>7. ToDoFree'
  <2>1. CASE c = Service
    BY <2>1 DEF ToDoFree, Free
  <2>2. CASE c # Service
    BY <1>1, <2>2, ServiceIsCaller DEF RaceInv, ToDoFree, Free, OthersWait
  <2> QED BY <2>1, <2>2
<1>8. HandFree(c)' /\ CopyCalm(c)' /\ LinkingCalm(c)'
  BY DEF HandFree, CopyCalm, LinkingCalm
<1>9. ASSUME NEW d \in Caller \ {c}
      PROVE  HandFree(d)' /\ CopyCalm(d)' /\ LinkingCalm(d)'
  <2>1. /\ pc'[d] = pc[d] /\ hand'[d] = hand[d] /\ mine'[d] = mine[d] /\ snap'[d] = snap[d]
        /\ HandFree(d) /\ CopyCalm(d)
    BY DEF OthersWait, RaceInv
  <2>2. HandFree(d)'
    BY <1>1, <2>1 DEF HandFree
  <2>3. CopyCalm(d)'
    BY <1>1, <2>1 DEF CopyCalm, KeptShrinks
  <2>4. LinkingCalm(d)'
    BY <1>1, <1>3, <2>1 DEF LinkingCalm
  <2> QED BY <2>2, <2>3, <2>4
<1> QED BY <1>4, <1>5, <1>6, <1>7, <1>8, <1>9 DEF RaceInv

\* A step of c that leaves the runs alone.
LEMMA RaceQuiet ==
    ASSUME TypeInv, TypeInv', RaceInv, NEW c \in Caller, CallerMoves(c), pc[c] # "idle",
           pc'[c] \in Busy => \A r \in Kept : keyOf[r] = hand'[c] => r = mine[c],
           \A k \in Key : link[k] \in Kept => Calm(queue'[k]),
           pc'[c] = "linking" /\ mine[c] \in Kept => Calm(queue'[hand'[c]]),
           pc'[c] \in Holding => \A k \in Key : link[k] \in Kept => Calm(snap'[c][k]),
           c = Service => \A k \in todo'[Service] :
              /\ pc'[Service] # "idle" /\ Free(k)
              /\ pc'[Service] \in Busy => hand'[Service] # k
    PROVE  RaceInv'
<1>1. KeptShrinks /\ Kept' = Kept /\ keyOf' = keyOf /\ link' = link /\ mine'[c] = mine[c]
  BY RunsStayKept DEF CallerMoves, RunsStay
<1>2. OthersWait(c)
  BY DEF CallerMoves
<1>3. c = Service => \A k \in todo'[Service] : \A r \in Kept' : keyOf'[r] # k
  BY <1>1 DEF Free
<1> QED BY <1>1, <1>2, <1>3, RaceStep

\* What c writes back is calm where it has to be.
LEMMA CopyWritten ==
    ASSUME RaceInv, NEW c \in Caller, pc[c] \in Holding, WriteFile(c, snap[c])
    PROVE  \A k \in Key : link[k] \in Kept => Calm(queue'[k])
BY DEF RaceInv, CopyCalm, WriteFile

\* The service's list only gets shorter, and it takes up nothing.
LEMMA ListShrinks ==
    ASSUME RaceInv, todo'[Service] \subseteq todo[Service], pc'[Service] # "idle",
           pc'[Service] \in Busy => pc[Service] \in Busy /\ hand'[Service] = hand[Service]
    PROVE  \A k \in todo'[Service] :
              /\ pc'[Service] # "idle" /\ Free(k)
              /\ pc'[Service] \in Busy => hand'[Service] # k
BY DEF RaceInv, ToDoFree

LEMMA PruneRace ==
    ASSUME TypeInv, TypeInv', RaceInv, NEW c \in Caller, Prune(c) PROVE RaceInv'
<1>1. /\ CallerMoves(c) /\ pc[c] = "pruning" /\ pc'[c] = "inspecting" /\ todo'[c] = todo[c]
  BY PruneMoves
<1>2. \A k \in Key : link[k] \in Kept => Calm(queue'[k])
  BY <1>1, CopyWritten DEF Prune, Holding
<1>3. c = Service => \A k \in todo'[Service] :
              /\ pc'[Service] # "idle" /\ Free(k)
              /\ pc'[Service] \in Busy => hand'[Service] # k
  BY <1>1, ListShrinks DEF Busy
<1> QED BY <1>1, <1>2, <1>3, RaceQuiet DEF Busy, Holding

LEMMA RepairRace ==
    ASSUME TypeInv, TypeInv', RaceInv, NEW c \in Caller, Repair(c) PROVE RaceInv'
<1>1. /\ CallerMoves(c) /\ pc[c] = "repairing" /\ pc'[c] \in {"choosing", "asking"}
      /\ c = Service => todo'[c] = {k \in Key : Drainable(snap[c][k])}
  BY RepairMoves
<1>2. \A k \in Key : link[k] \in Kept => Calm(queue'[k])
  BY <1>1, CopyWritten DEF Repair, Holding
<1>3. ASSUME c = Service, NEW k \in todo'[Service] PROVE Free(k)
  <2>1. k \in Key /\ ~ Calm(snap[c][k])
    BY <1>1, <1>3 DEF Drainable, Is, Calm
  <2>2. link[k] \notin Kept
    BY <1>1, <2>1 DEF RaceInv, CopyCalm, Holding
  <2>3. mine[c] = None
    BY <1>1 DEF TypeInv, HandsRight
  <2> QED BY <1>1, <2>2, <2>3, UnlinkedFree
<1> QED BY <1>1, <1>2, <1>3, RaceQuiet DEF Busy, Holding

LEMMA AlreadyThereRace ==
    ASSUME TypeInv, TypeInv', RaceInv, NEW c \in Starter, AlreadyThere(c) PROVE RaceInv'
<1>1. c \in Caller /\ c # Service
  BY ServiceIsCaller DEF Caller
<1>2. CallerMoves(c) /\ pc[c] = "asking" /\ pc'[c] = "idle"
  BY <1>1, AlreadyThereMoves
<1>3. \A k \in Key : link[k] \in Kept => Calm(queue'[k])
  BY DEF AlreadyThere, RaceInv, KeptIsCalm
<1> QED BY <1>1, <1>2, <1>3, RaceQuiet DEF Busy, Holding

\* Work that is asked for and wanted is free.
LEMMA WantedFree ==
    ASSUME TypeInv, RaceInv, NEW c \in Caller, pc[c] = "asking", Wanted(c)
    PROVE  Free(hand[c])
<1>1. mine[c] = None
  BY DEF TypeInv, HandsRight
<1>2. link[hand[c]] \notin Kept
  BY KeptFacts DEF Wanted
<1> QED BY <1>1, <1>2, UnlinkedFree

LEMMA IntentRace ==
    ASSUME TypeInv, TypeInv', RaceInv, NEW c \in Starter, Intent(c) PROVE RaceInv'
<1>1. c \in Caller /\ c # Service
  BY ServiceIsCaller DEF Caller
<1>2. /\ CallerMoves(c) /\ hand'[c] = hand[c] /\ pc[c] = "asking" /\ pc'[c] = "intent"
      /\ Wanted(c)
  BY <1>1, IntentMoves
<1>3. Free(hand[c]) /\ hand[c] \in Key
  BY <1>1, <1>2, WantedFree DEF TypeInv, RecordInv
<1>4. \A k \in Key : k # hand[c] => queue'[k] = queue[k]
  BY DEF Intent, TypeInv, RecordInv, RecordTypes, Queue
<1>5. \A k \in Key : link[k] \in Kept => Calm(queue'[k])
  BY <1>3, <1>4, FreeUnlinked DEF RaceInv, KeptIsCalm
<1> QED BY <1>1, <1>2, <1>3, <1>5, RaceQuiet DEF Holding, Free

LEMMA ReadToEnqueueRace ==
    ASSUME TypeInv, TypeInv', RaceInv, NEW c \in Starter, NoSession(c) \/ Requeue(c)
    PROVE  RaceInv'
<1>1. c \in Caller /\ c # Service
  BY ServiceIsCaller DEF Caller
<1>2. /\ CallerMoves(c) /\ hand'[c] = hand[c] /\ pc'[c] = "enqueuing" /\ snap'[c] = queue
      /\ queue' = queue
      /\ pc[c] = "requeuing" \/ (pc[c] = "asking" /\ Wanted(c))
  BY <1>1, ReadToEnqueueMoves
<1>3. \A k \in Key : link[k] \in Kept => Calm(queue[k])
  BY DEF RaceInv, KeptIsCalm
<1>4. \A r \in Kept : keyOf[r] = hand[c] => r = mine[c]
  <2>1. CASE pc[c] = "requeuing"
    BY <1>1, <2>1 DEF RaceInv, HandFree, Busy
  <2>2. CASE pc[c] = "asking" /\ Wanted(c)
    BY <1>1, <2>2, WantedFree DEF Free
  <2> QED BY <1>2, <2>1, <2>2
<1> QED BY <1>1, <1>2, <1>3, <1>4, RaceQuiet

LEMMA EnqueueRace ==
    ASSUME TypeInv, TypeInv', RaceInv, NEW c \in Starter, Enqueue(c) PROVE RaceInv'
<1>1. c \in Caller /\ c # Service
  BY ServiceIsCaller DEF Caller
<1>2. CallerMoves(c) /\ pc[c] = "enqueuing" /\ pc'[c] = "idle"
  BY <1>1, EnqueueMoves
<1>3. hand[c] \in Key
  BY <1>2 DEF TypeInv, RecordInv
<1>4. link[hand[c]] \notin Kept
  BY <1>1, <1>2, <1>3, HandIsFree DEF Busy
<1>5. \A k \in Key : k # hand[c] => queue'[k] = snap[c][k]
  BY <1>1 DEF Enqueue, WriteFile, TypeInv, RecordInv, RecordTypes, Queue
<1>6. \A k \in Key : link[k] \in Kept => Calm(queue'[k])
  BY <1>1, <1>2, <1>4, <1>5 DEF RaceInv, CopyCalm, Holding
<1> QED BY <1>1, <1>2, <1>6, RaceQuiet DEF Busy, Holding

\* A patch of the entry in the hand of a caller touches no entry of a kept link.
LEMMA PatchedCalm ==
    ASSUME TypeInv, RaceInv, NEW c \in Caller, pc[c] \in Busy, hand[c] \in Key,
           \A k \in Key : k # hand[c] => queue'[k] = queue[k]
    PROVE  \A k \in Key : link[k] \in Kept => Calm(queue'[k])
BY HandIsFree DEF RaceInv, KeptIsCalm

LEMMA PatchLaunchingRace ==
    ASSUME TypeInv, TypeInv', RaceInv, NEW c \in Caller, PatchLaunching(c) PROVE RaceInv'
<1>1. /\ CallerMoves(c) /\ pc[c] = "intent" /\ pc'[c] = "launching" /\ hand'[c] = hand[c]
      /\ todo'[c] = todo[c]
  BY PatchLaunchingMoves
<1>2. hand[c] \in Key /\ \A k \in Key : k # hand[c] => queue'[k] = queue[k]
  BY <1>1 DEF PatchLaunching, TypeInv, RecordInv, RecordTypes, Queue
<1>3. \A k \in Key : link[k] \in Kept => Calm(queue'[k])
  BY <1>1, <1>2, PatchedCalm DEF Busy
<1>4. c = Service => \A k \in todo'[Service] :
              /\ pc'[Service] # "idle" /\ Free(k)
              /\ pc'[Service] \in Busy => hand'[Service] # k
  BY <1>1, ListShrinks DEF Busy
<1>5. \A r \in Kept : keyOf[r] = hand[c] => r = mine[c]
  BY <1>1 DEF RaceInv, HandFree, Busy
<1> QED BY <1>1, <1>3, <1>4, <1>5, RaceQuiet DEF Holding

LEMMA PatchRunningRace ==
    ASSUME TypeInv, TypeInv', RaceInv, NEW c \in Caller, PatchRunning(c) PROVE RaceInv'
<1>1. /\ CallerMoves(c) /\ pc[c] = "spawned" /\ pc'[c] = "linking" /\ hand'[c] = hand[c]
      /\ todo'[c] = todo[c]
  BY PatchRunningMoves
<1>2. /\ hand[c] \in Key /\ \A k \in Key : k # hand[c] => queue'[k] = queue[k]
      /\ queue'[hand[c]] = Marked(queue[hand[c]], "running")
  BY <1>1 DEF PatchRunning, TypeInv, RecordInv, RecordTypes, Queue
<1>3. \A k \in Key : link[k] \in Kept => Calm(queue'[k])
  BY <1>1, <1>2, PatchedCalm DEF Busy
<1>4. c = Service => \A k \in todo'[Service] :
              /\ pc'[Service] # "idle" /\ Free(k)
              /\ pc'[Service] \in Busy => hand'[Service] # k
  BY <1>1, ListShrinks DEF Busy
<1>5. \A r \in Kept : keyOf[r] = hand[c] => r = mine[c]
  BY <1>1 DEF RaceInv, HandFree, Busy
<1>6. Calm(queue'[hand[c]])
  BY <1>2 DEF Calm, Marked, TypeInv, RecordInv, RecordTypes, Queue, QueueEntry
<1> QED BY <1>1, <1>3, <1>4, <1>5, <1>6, RaceQuiet DEF Holding

LEMMA DegradeRace ==
    ASSUME TypeInv, TypeInv', RaceInv, NEW c \in Caller, Degrade(c) PROVE RaceInv'
<1>1. /\ CallerMoves(c) /\ pc[c] = "degrading"
      /\ pc'[c] \in {"idle", "choosing", "judging", "requeuing"}
      /\ pc'[c] \in {"judging", "requeuing"} => hand'[c] = hand[c]
      /\ c = Service => pc'[c] # "idle" /\ todo'[c] = todo[c]
  BY DegradeMoves, ServiceIsCaller
<1>2. hand[c] \in Key /\ \A k \in Key : k # hand[c] => queue'[k] = queue[k]
  BY <1>1 DEF Degrade, TypeInv, RecordInv, RecordTypes, Queue
<1>3. \A k \in Key : link[k] \in Kept => Calm(queue'[k])
  BY <1>1, <1>2, PatchedCalm DEF Busy
<1>4. c = Service => \A k \in todo'[Service] :
              /\ pc'[Service] # "idle" /\ Free(k)
              /\ pc'[Service] \in Busy => hand'[Service] # k
  BY <1>1, ListShrinks DEF Busy
<1>5. \A r \in Kept : keyOf[r] = hand[c] => r = mine[c]
  BY <1>1 DEF RaceInv, HandFree, Busy
<1> QED BY <1>1, <1>3, <1>4, <1>5, RaceQuiet DEF Holding, Busy

LEMMA JudgeRace == ASSUME TypeInv, TypeInv', RaceInv, Judge PROVE RaceInv'
<1>1. /\ CallerMoves(Service) /\ pc[Service] = "judging" /\ pc'[Service] = "choosing"
      /\ todo'[Service] = todo[Service] /\ Service \in Caller
  BY JudgeMoves, ServiceIsCaller
<1>2. hand[Service] \in Key /\ \A k \in Key : k # hand[Service] => queue'[k] = queue[k]
  BY <1>1 DEF Judge, TypeInv, RecordInv, RecordTypes, Queue
<1>3. \A k \in Key : link[k] \in Kept => Calm(queue'[k])
  BY <1>1, <1>2, PatchedCalm DEF Busy
<1>4. \A k \in todo'[Service] :
              /\ pc'[Service] # "idle" /\ Free(k)
              /\ pc'[Service] \in Busy => hand'[Service] # k
  BY <1>1, ListShrinks DEF Busy
<1> QED BY <1>1, <1>3, <1>4, RaceQuiet DEF Holding, Busy

LEMMA ResumeRace == ASSUME TypeInv, TypeInv', RaceInv, NEW k \in Key, Resume(k) PROVE RaceInv'
<1>1. /\ CallerMoves(Service) /\ pc[Service] = "choosing" /\ pc'[Service] = "intent"
      /\ hand'[Service] = k /\ k \in todo[Service] /\ todo'[Service] = todo[Service] \ {k}
      /\ queue' = queue /\ Service \in Caller
  BY ResumeMoves, ServiceIsCaller
<1>2. \A j \in Key : link[j] \in Kept => Calm(queue'[j])
  BY <1>1 DEF RaceInv, KeptIsCalm
<1>3. \A r \in Kept : keyOf[r] # k
  BY <1>1 DEF RaceInv, ToDoFree, Free
<1>4. \A j \in todo'[Service] :
              /\ pc'[Service] # "idle" /\ Free(j)
              /\ pc'[Service] \in Busy => hand'[Service] # j
  BY <1>1 DEF RaceInv, ToDoFree
<1> QED BY <1>1, <1>2, <1>3, <1>4, RaceQuiet DEF Holding

LEMMA PassOverRace ==
    ASSUME TypeInv, TypeInv', RaceInv, NEW k \in Key, PassOver(k) PROVE RaceInv'
<1>1. /\ CallerMoves(Service) /\ pc[Service] = "choosing" /\ pc' = pc /\ Service \in Caller
      /\ todo'[Service] \subseteq todo[Service] /\ queue' = queue
  BY PassOverMoves, ServiceIsCaller
<1>2. \A j \in Key : link[j] \in Kept => Calm(queue'[j])
  BY <1>1 DEF RaceInv, KeptIsCalm
<1>3. \A j \in todo'[Service] :
              /\ pc'[Service] # "idle" /\ Free(j)
              /\ pc'[Service] \in Busy => hand'[Service] # j
  BY <1>1, ListShrinks DEF Busy
<1> QED BY <1>1, <1>2, <1>3, RaceQuiet DEF Holding, Busy

LEMMA GiveUpRace ==
    ASSUME TypeInv, TypeInv', RaceInv, NEW k \in Key, GiveUp(k) PROVE RaceInv'
<1>1. /\ CallerMoves(Service) /\ pc[Service] = "choosing" /\ pc' = pc /\ Service \in Caller
      /\ k \in todo[Service] /\ todo'[Service] \subseteq todo[Service]
  BY GiveUpMoves, ServiceIsCaller
<1>2. \A j \in Key : j # k => queue'[j] = queue[j]
  BY DEF GiveUp, TypeInv, RecordInv, RecordTypes, Queue
<1>3. link[k] \notin Kept
  BY <1>1, FreeUnlinked DEF RaceInv, ToDoFree
<1>4. \A j \in Key : link[j] \in Kept => Calm(queue'[j])
  BY <1>2, <1>3 DEF RaceInv, KeptIsCalm
<1>5. \A j \in todo'[Service] :
              /\ pc'[Service] # "idle" /\ Free(j)
              /\ pc'[Service] \in Busy => hand'[Service] # j
  BY <1>1, ListShrinks DEF Busy
<1> QED BY <1>1, <1>4, <1>5, RaceQuiet DEF Holding, Busy

LEMMA DrainedRace == ASSUME TypeInv, TypeInv', RaceInv, Drained PROVE RaceInv'
<1>1. /\ CallerMoves(Service) /\ pc[Service] = "choosing" /\ pc'[Service] = "marking"
      /\ todo' = todo /\ queue' = queue /\ Service \in Caller
  BY DrainedMoves, ServiceIsCaller
<1>2. \A j \in Key : link[j] \in Kept => Calm(queue[j])
  BY DEF RaceInv, KeptIsCalm
<1>3. \A j \in Key : snap'[Service][j] =
          IF j \in started /\ queue[j] # None
          THEN [Marked(queue[j], "running") EXCEPT !.old = FALSE] ELSE queue[j]
  BY <1>1 DEF Drained, TypeInv, RecordInv, RecordTypes
<1>4. \A j \in Key : link[j] \in Kept => Calm(snap'[Service][j])
  BY <1>2, <1>3 DEF Calm, Marked, TypeInv, RecordInv, RecordTypes, Queue, QueueEntry
<1>5. \A j \in todo'[Service] :
              /\ pc'[Service] # "idle" /\ Free(j)
              /\ pc'[Service] \in Busy => hand'[Service] # j
  BY <1>1, ListShrinks DEF Busy
<1> QED BY <1>1, <1>2, <1>4, <1>5, RaceQuiet DEF Busy

LEMMA MarkRace == ASSUME TypeInv, TypeInv', RaceInv, Mark PROVE RaceInv'
<1>1. /\ CallerMoves(Service) /\ pc[Service] = "marking" /\ todo' = todo
      /\ pc'[Service] \in {"sweeping", "choosing"} /\ Service \in Caller
  BY MarkMoves, ServiceIsCaller
<1>2. \A k \in Key : link[k] \in Kept => Calm(queue'[k])
  BY <1>1, CopyWritten DEF Mark, Holding
<1>3. \A k \in todo'[Service] :
              /\ pc'[Service] # "idle" /\ Free(k)
              /\ pc'[Service] \in Busy => hand'[Service] # k
  BY <1>1, ListShrinks DEF Busy
<1> QED BY <1>1, <1>2, <1>3, RaceQuiet DEF Busy, Holding

LEMMA RewriteRace == ASSUME TypeInv, TypeInv', RaceInv, Rewrite PROVE RaceInv'
<1>1. /\ CallerMoves(Service) /\ pc[Service] = "rewriting" /\ todo' = todo
      /\ pc'[Service] = "screening" /\ Service \in Caller
  BY RewriteMoves, ServiceIsCaller
<1>2. \A k \in Key : link[k] \in Kept => Calm(queue'[k])
  BY <1>1, CopyWritten DEF Rewrite, Holding
<1>3. \A k \in todo'[Service] :
              /\ pc'[Service] # "idle" /\ Free(k)
              /\ pc'[Service] \in Busy => hand'[Service] # k
  BY <1>1, ListShrinks DEF Busy
<1> QED BY <1>1, <1>2, <1>3, RaceQuiet DEF Busy, Holding

LEMMA SweepRace == ASSUME TypeInv, TypeInv', RaceInv, Sweep PROVE RaceInv'
<1>1. /\ CallerMoves(Service) /\ pc[Service] = "sweeping" /\ queue' = queue
      /\ pc'[Service] \in {"recovering", "terminalizing"} /\ Service \in Caller
      /\ todo'[Service] = {k \in Key : Orphaned(k, queue[k])}
  BY SweepMoves, ServiceIsCaller
<1>2. \A k \in Key : link[k] \in Kept => Calm(queue'[k])
  BY <1>1 DEF RaceInv, KeptIsCalm
<1>3. ASSUME NEW k \in todo'[Service] PROVE Free(k)
  <2>1. link[k] \notin Kept
    BY <1>1, <1>3, KeptFacts DEF Orphaned
  <2>2. mine[Service] = None
    BY <1>1 DEF TypeInv, HandsRight
  <2> QED BY <1>1, <2>1, <2>2, UnlinkedFree
<1> QED BY <1>1, <1>2, <1>3, RaceQuiet DEF Busy, Holding

LEMMA TerminalizeRace == ASSUME TypeInv, TypeInv', RaceInv, Terminalize PROVE RaceInv'
<1>1. /\ CallerMoves(Service) /\ pc[Service] = "terminalizing" /\ todo'[Service] = {}
      /\ pc'[Service] = "recovering" /\ Service \in Caller
  BY TerminalizeMoves, ServiceIsCaller
<1>2. \A k \in Key : k \notin todo[Service] => queue'[k] = queue[k]
  BY DEF Terminalize
<1>3. \A k \in Key : k \in todo[Service] => link[k] \notin Kept
  BY FreeUnlinked DEF RaceInv, ToDoFree
<1>4. \A k \in Key : link[k] \in Kept => Calm(queue'[k])
  BY <1>2, <1>3 DEF RaceInv, KeptIsCalm
<1> QED BY <1>1, <1>4, RaceQuiet DEF Busy, Holding

LEMMA RecoverRace == ASSUME TypeInv, TypeInv', RaceInv, Recover PROVE RaceInv'
<1>1. /\ CallerMoves(Service) /\ pc[Service] = "recovering" /\ todo' = todo
      /\ pc'[Service] \in {"screening", "rewriting"} /\ queue' = queue
      /\ Service \in Caller
  BY RecoverMoves, ServiceIsCaller
<1>2. \A k \in Key : link[k] \in Kept => Calm(queue[k])
  BY DEF RaceInv, KeptIsCalm
<1>3. ASSUME NEW k \in Key, link[k] \in Kept, pc'[Service] = "rewriting"
      PROVE  Calm(snap'[Service][k])
  <2>1. snap'[Service][k] =
            IF Stale(k, queue[k]) THEN Marked(queue[k], "needs_repair") ELSE queue[k]
    BY <1>1, <1>3 DEF Recover, Goto, TypeInv, RecordInv, RecordTypes, PlaceTyped
  <2>2. ~ Stale(k, queue[k])
    BY <1>2, <1>3, KeptFacts DEF Calm, Stale, Is
  <2> QED BY <1>2, <1>3, <2>1, <2>2
<1>4. \A k \in todo'[Service] :
              /\ pc'[Service] # "idle" /\ Free(k)
              /\ pc'[Service] \in Busy => hand'[Service] # k
  BY <1>1, ListShrinks DEF Busy
<1> QED BY <1>1, <1>2, <1>3, <1>4, RaceQuiet DEF Busy, Holding

LEMMA TickEndsRace == ASSUME TypeInv, TypeInv', RaceInv, TickEnds PROVE RaceInv'
<1>1. /\ CallerMoves(Service) /\ pc[Service] = "choosing" /\ pc'[Service] = "idle"
      /\ todo'[Service] = {} /\ queue' = queue /\ Service \in Caller
  BY TickEndsMoves, ServiceIsCaller DEF TickEnds
<1>2. \A k \in Key : link[k] \in Kept => Calm(queue'[k])
  BY <1>1 DEF RaceInv, KeptIsCalm
<1> QED BY <1>1, <1>2, RaceQuiet DEF Busy, Holding

LEMMA BeginRace ==
    ASSUME TypeInv, TypeInv', RaceInv, NEW c \in Caller, NEW k \in Key \cup {None}, Begin(c, k)
    PROVE  RaceInv'
<1>1. /\ OthersWait(c) /\ KeptShrinks
      /\ pc[c] = "idle" /\ pc'[c] = "pruning" /\ snap'[c] = queue /\ queue' = queue
      /\ todo' = todo
      /\ \A d \in Caller : mine'[d] # None => mine'[d] \in stray'
  BY BeginMoves
<1>2. \A j \in Key : link'[j] \in Kept' => Calm(queue[j])
  BY <1>1 DEF KeptShrinks, RaceInv, KeptIsCalm
<1>3. c = Service => todo'[Service] = {}
  BY <1>1 DEF RaceInv, ToDoFree, TypeInv, PlaceTyped
<1> QED BY <1>1, <1>2, <1>3, RaceStep DEF Busy

LEMMA InspectRace ==
    ASSUME TypeInv, TypeInv', RaceInv, NEW c \in Caller, Inspect(c) PROVE RaceInv'
<1>1. /\ OthersWait(c) /\ KeptShrinks
      /\ pc[c] = "inspecting" /\ pc'[c] = "repairing" /\ todo' = todo
  BY InspectMoves
<1>2. /\ link' = [k \in Key |-> IF k \in Told THEN None ELSE link[k]]
      /\ queue' = [k \in Key |-> IF k \in Told THEN Marked(queue[k], Outcome(k)) ELSE queue[k]]
      /\ \A k \in Key : snap'[c][k] =
            IF Orphaned(k, queue'[k]) /\ k \notin Told THEN Marked(queue'[k], "needs_repair")
            ELSE queue'[k]
  BY DEF Inspect, TypeInv, RecordInv, RecordTypes
<1>3. None \notin Kept'
  BY NoneIsNothing DEF Kept
<1>4. ASSUME NEW k \in Key, link'[k] \in Kept'
      PROVE  Calm(queue'[k]) /\ Calm(snap'[c][k])
  <2>1. k \notin Told /\ link[k] \in Kept /\ link[k] # None
    BY <1>1, <1>2, <1>3, <1>4 DEF KeptShrinks
  <2>2. queue'[k] = queue[k] /\ Calm(queue[k])
    BY <1>2, <2>1 DEF RaceInv, KeptIsCalm
  <2>3. snap'[c][k] = queue'[k]
    BY <1>2, <2>1 DEF Orphaned
  <2> QED BY <2>2, <2>3
<1>5. c = Service => \A k \in todo'[Service] :
              /\ pc'[Service] # "idle" /\ \A r \in Kept' : keyOf'[r] # k
              /\ pc'[Service] \in Busy => hand'[Service] # k
  BY <1>1 DEF RaceInv, ToDoFree, Free, KeptShrinks, Busy
<1> QED BY <1>1, <1>4, <1>5, RaceStep DEF Busy

LEMMA ScreenRace == ASSUME TypeInv, TypeInv', RaceInv, Screen PROVE RaceInv'
<1>1. /\ OthersWait(Service) /\ KeptShrinks
      /\ pc[Service] = "screening" /\ pc'[Service] = "choosing" /\ Service \in Caller
      /\ todo'[Service] = {k \in Key : Is(queue'[k], {"needs_repair", "degraded"})}
      /\ \A k \in Over : link'[k] = None
  BY ScreenMoves, ServiceIsCaller
<1>2. \A k \in Key : k \notin Over => queue'[k] = queue[k]
  BY DEF Screen, Screened
<1>3. None \notin Kept' /\ mine[Service] = None
  BY <1>1, NoneIsNothing DEF Kept, TypeInv, HandsRight
<1>4. ASSUME NEW k \in Key, link'[k] \in Kept' PROVE Calm(queue'[k])
  <2>1. k \notin Over /\ link[k] \in Kept
    BY <1>1, <1>3, <1>4 DEF KeptShrinks
  <2> QED BY <1>2, <2>1 DEF RaceInv, KeptIsCalm
<1>5. ASSUME NEW k \in todo'[Service], NEW r \in Kept', keyOf'[r] = k PROVE FALSE
  <2>1. r \in Kept /\ keyOf[r] = k /\ k \in Key /\ ~ Calm(queue'[k])
    BY <1>1, <1>5 DEF KeptShrinks, Is, Calm
  <2>2. CASE link[k] = r
    BY <1>1, <1>4, <1>5, <2>1, <2>2 DEF KeptShrinks
  <2>3. CASE link[k] # r
    <3>1. PICK d \in Caller : mine[d] = r
      BY <2>1, <2>3 DEF RaceInv, KeptIsHeld
    <3> QED BY <1>1, <1>3, <2>1, <3>1, KeptFacts DEF RaceInv, Overlapped, Kept
  <2> QED BY <2>2, <2>3
<1> QED BY <1>1, <1>4, <1>5, RaceStep DEF Busy, Holding

LEMMA LaunchFailsRace ==
    ASSUME TypeInv, TypeInv', RaceInv, NEW c \in Caller, LaunchFails(c) PROVE RaceInv'
<1>1. /\ OthersWait(c) /\ queue' = queue /\ link' = link /\ todo' = todo
      /\ pc[c] \in {"launching", "spawned", "linking"} /\ pc'[c] = "degrading"
      /\ hand'[c] = hand[c] /\ mine'[c] = None
      /\ \A r \in Kept' : r \in Kept /\ keyOf'[r] = keyOf[r] /\ r # mine[c]
  BY LaunchFailsMoves
<1>2. KeptShrinks
  BY <1>1 DEF KeptShrinks, OthersWait
<1>3. \A k \in Key : link'[k] \in Kept' => Calm(queue'[k])
  BY <1>1 DEF RaceInv, KeptIsCalm
<1>4. \A r \in Kept' : keyOf'[r] # hand'[c]
  BY <1>1 DEF RaceInv, HandFree, Busy
<1>5. c = Service => \A k \in todo'[Service] :
              /\ pc'[Service] # "idle" /\ \A r \in Kept' : keyOf'[r] # k
              /\ pc'[Service] \in Busy => hand'[Service] # k
  BY <1>1 DEF RaceInv, ToDoFree, Free, Busy
<1> QED BY <1>1, <1>2, <1>3, <1>4, <1>5, RaceStep DEF Holding

\* The run that a caller links is at its place from then on, and its entry is calm.
LEMMA LinkRace ==
    ASSUME TypeInv, TypeInv', RaceInv, NEW c \in Caller, Link(c) PROVE RaceInv'
<1>1. /\ OthersWait(c) /\ pc[c] = "linking" /\ mine'[c] = None /\ queue' = queue
      /\ hand[c] \in Key /\ mine[c] \in Run
      /\ \/ c \in Starter /\ pc'[c] = "idle" /\ todo'[c] = {}
         \/ c = Service /\ pc'[c] = "choosing" /\ todo'[c] = todo[c]
      /\ link' = [link EXCEPT ![hand[c]] = mine[c]]
      /\ \A r \in Kept' : r \in Kept /\ keyOf'[r] = keyOf[r] /\ r # link[hand[c]]
  BY LinkMoves
<1>2. pc'[c] \in {"idle", "choosing"} /\ (c = Service => pc'[c] = "choosing" /\ todo'[c] = todo[c])
  BY <1>1, ServiceIsCaller
<1>3. /\ keyOf[mine[c]] = hand[c] /\ mine[c] # None
      /\ link'[hand[c]] = mine[c] /\ \A k \in Key : k # hand[c] => link'[k] = link[k]
  BY <1>1, NoneIsNothing DEF TypeInv, HandsRight, RunsTyped
<1>4. /\ None \notin Kept'
      /\ \A d \in Caller : mine'[d] # None /\ mine'[d] \notin Kept' => mine'[d] \in stray'
  <2>1. \A d \in Caller : mine'[d] # None => mine'[d] \in Run /\ runs'[mine'[d]] # "none"
    BY NoneIsNothing DEF TypeInv, HandsRight, RunsTyped, PlaceTyped
  <2> QED BY <2>1, NoneIsNothing DEF Kept
<1>5. \A d \in Caller \ {c} : mine[d] # None => mine[d] \notin Kept
  BY <1>1 DEF RaceInv, Overlapped, Kept
<1>6. mine[c] \in Kept => \A d \in Caller \ {c} : pc[d] = "idle"
  BY <1>3 DEF RaceInv, Overlapped, Kept
<1>7. KeptIsHeld'
  <2> SUFFICES ASSUME NEW r \in Kept'
               PROVE  link'[keyOf'[r]] = r \/ \E d \in Caller : mine'[d] = r
    BY DEF KeptIsHeld
  <2>1. r \in Kept /\ keyOf'[r] = keyOf[r] /\ r # link[hand[c]] /\ keyOf[r] \in Key
    BY <1>1, KeptFacts
  <2>2. link[keyOf[r]] = r \/ \E d \in Caller : mine[d] = r
    BY <2>1 DEF RaceInv, KeptIsHeld
  <2>3. CASE link[keyOf[r]] = r
    BY <1>3, <2>1, <2>3
  <2>4. CASE \E d \in Caller : mine[d] = r
    BY <1>3, <1>5, <2>1, <2>4, KeptFacts
  <2> QED BY <2>2, <2>3, <2>4
<1>8. Overlapped'
  <2> SUFFICES ASSUME NEW a \in Caller, NEW b \in Caller, a # b, mine'[a] # None,
                      pc'[b] # "idle"
               PROVE  mine'[a] \in stray'
    BY DEF Overlapped
  <2>1. a # c /\ mine'[a] = mine[a]
    BY <1>1 DEF OthersWait
  <2> QED BY <1>1, <1>4, <1>5, <2>1
<1>9. \A k \in Key : link'[k] \in Kept' => Calm(queue'[k])
  <2> SUFFICES ASSUME NEW k \in Key, link'[k] \in Kept' PROVE Calm(queue[k])
    BY <1>1
  <2>1. CASE k = hand[c]
    BY <1>1, <1>3, <2>1 DEF RaceInv, LinkingCalm
  <2>2. CASE k # hand[c]
    BY <1>1, <1>3, <2>2 DEF RaceInv, KeptIsCalm
  <2> QED BY <2>1, <2>2
<1>10. KeptIsCalm'
  BY <1>9 DEF KeptIsCalm
<1>11. ToDoFree'
  <2>1. CASE c = Service
    BY <1>1, <1>2, <2>1 DEF RaceInv, ToDoFree, Free, Busy
  <2>2. CASE c # Service
    BY <1>1, <2>2, ServiceIsCaller DEF RaceInv, ToDoFree, Free, OthersWait
  <2> QED BY <2>1, <2>2
<1>12. HandFree(c)' /\ CopyCalm(c)' /\ LinkingCalm(c)'
  BY <1>2 DEF HandFree, CopyCalm, LinkingCalm, Busy, Holding
<1>13. ASSUME NEW d \in Caller \ {c}
       PROVE  HandFree(d)' /\ CopyCalm(d)' /\ LinkingCalm(d)'
  <2>1. /\ pc'[d] = pc[d] /\ hand'[d] = hand[d] /\ mine'[d] = mine[d] /\ snap'[d] = snap[d]
        /\ HandFree(d) /\ CopyCalm(d)
    BY <1>1 DEF OthersWait, RaceInv
  <2>2. HandFree(d)'
    BY <1>1, <2>1 DEF HandFree
  <2>3. CopyCalm(d)'
    <3> SUFFICES ASSUME pc[d] \in Holding, NEW k \in Key, link'[k] \in Kept'
                 PROVE  Calm(snap[d][k])
      BY <2>1 DEF CopyCalm
    <3>1. mine[c] \notin Kept
      BY <1>6 DEF Holding
    <3>2. link[k] \in Kept
      BY <1>1, <1>3, <3>1
    <3> QED BY <2>1, <3>2 DEF CopyCalm
  <2>4. LinkingCalm(d)'
    BY <1>1, <1>4, <1>5, <2>1 DEF LinkingCalm
  <2> QED BY <2>2, <2>3, <2>4
<1> QED BY <1>7, <1>8, <1>10, <1>11, <1>12, <1>13 DEF RaceInv

\* A run that is kept from its start on starts while all others rest, and finds its
\* work free: there is no other run of it to duplicate.
LEMMA SpawnRace ==
    ASSUME TypeInv, TypeInv', RaceInv, NEW c \in Caller, Spawn(c) PROVE RaceInv'
<1>1. /\ OthersWait(c) /\ pc[c] = "launching" /\ pc'[c] = "spawned" /\ hand'[c] = hand[c]
      /\ queue' = queue /\ todo' = todo /\ snap' = snap /\ link' = link
      /\ mine[c] = None
      /\ \A r \in Kept' : r = mine'[c] \/ (r \in Kept /\ keyOf'[r] = keyOf[r])
      /\ \A r \in Kept : r \in Kept' /\ r # mine'[c]
      /\ mine'[c] \in Run /\ keyOf'[mine'[c]] = hand[c]
      /\ mine'[c] \in Kept' => \A d \in Caller \ {c} : pc[d] = "idle"
  BY SpawnMoves
<1>2. Free(hand[c])
  BY <1>1, HandIsFree DEF Busy
<1>3. /\ None \notin Kept'
      /\ \A d \in Caller : mine'[d] # None /\ mine'[d] \notin Kept' => mine'[d] \in stray'
      /\ \A d \in Caller \ {c} : mine'[d] # mine'[c]
      /\ \A k \in Key : link'[k] # mine'[c]
  <2>1. \A d \in Caller : mine'[d] # None => mine'[d] \in Run /\ runs'[mine'[d]] # "none"
    BY NoneIsNothing DEF TypeInv, HandsRight, RunsTyped, PlaceTyped
  <2>2. mine'[c] # None
    BY <1>1, NoneIsNothing
  <2> QED BY <2>1, <2>2, NoneIsNothing DEF Kept, TypeInv, HandsRight
<1>4. \A d \in Caller \ {c} : mine[d] # None => mine[d] \notin Kept
  BY <1>1 DEF RaceInv, Overlapped, Kept
<1>5. \A k \in Key : link'[k] \in Kept' => link[k] \in Kept
  BY <1>1, <1>3
<1>6. KeptIsHeld'
  BY <1>1, <1>4, KeptFacts DEF RaceInv, KeptIsHeld
<1>7. Overlapped'
  <2> SUFFICES ASSUME NEW a \in Caller, NEW b \in Caller, a # b, mine'[a] # None,
                      pc'[b] # "idle"
               PROVE  mine'[a] \in stray'
    BY DEF Overlapped
  <2>1. CASE a = c
    BY <1>1, <1>3, <2>1 DEF OthersWait
  <2>2. CASE a # c
    BY <1>1, <1>3, <1>4, <2>2 DEF OthersWait
  <2> QED BY <2>1, <2>2
<1>8. KeptIsCalm'
  BY <1>1, <1>5 DEF RaceInv, KeptIsCalm
<1>9. ToDoFree'
  <2> SUFFICES ASSUME NEW k \in todo[Service]
               PROVE  /\ pc'[Service] # "idle" /\ Free(k)'
                      /\ pc'[Service] \in Busy => hand'[Service] # k
    BY <1>1 DEF ToDoFree
  <2>1. /\ pc[Service] # "idle" /\ Free(k)
        /\ pc[Service] \in Busy => hand[Service] # k
    BY DEF RaceInv, ToDoFree
  <2>2. CASE c = Service
    BY <1>1, <2>1, <2>2 DEF Free, Busy
  <2>3. CASE c # Service
    <3>1. Service \in Caller \ {c}
      BY <2>3, ServiceIsCaller
    <3>2. mine'[c] \notin Kept'
      BY <1>1, <2>1, <3>1
    <3> QED BY <1>1, <2>1, <3>1, <3>2 DEF Free, OthersWait
  <2> QED BY <2>2, <2>3
<1>10. HandFree(c)' /\ CopyCalm(c)' /\ LinkingCalm(c)'
  BY <1>1, <1>2 DEF HandFree, CopyCalm, LinkingCalm, Holding, Free
<1>11. ASSUME NEW d \in Caller \ {c}
       PROVE  HandFree(d)' /\ CopyCalm(d)' /\ LinkingCalm(d)'
  <2>1. /\ pc'[d] = pc[d] /\ hand'[d] = hand[d] /\ mine'[d] = mine[d] /\ snap'[d] = snap[d]
        /\ HandFree(d) /\ CopyCalm(d) /\ LinkingCalm(d)
    BY <1>1 DEF OthersWait, RaceInv
  <2>2. HandFree(d)'
    <3>1. pc[d] \in Busy => mine'[c] \notin Kept'
      BY <1>1 DEF Busy
    <3> QED BY <1>1, <2>1, <3>1 DEF HandFree
  <2>3. CopyCalm(d)'
    BY <1>5, <2>1 DEF CopyCalm
  <2>4. LinkingCalm(d)'
    BY <1>1, <1>3, <1>4, <2>1 DEF LinkingCalm
  <2> QED BY <2>2, <2>3, <2>4
<1> QED BY <1>6, <1>7, <1>8, <1>9, <1>10, <1>11 DEF RaceInv

\* A step of no caller, that leaves what is calm calm.
LEMMA RaceStands ==
    ASSUME TypeInv, TypeInv', RaceInv, NobodyMoves, KeptShrinks,
           \A k \in Key : Calm(queue[k]) => Calm(queue'[k]),
           \A c \in Caller : \A k \in Key : Calm(snap[c][k]) => Calm(snap'[c][k])
    PROVE  RaceInv'
<1>1. /\ Kept' \subseteq Kept
      /\ \A r \in Kept' : keyOf'[r] = keyOf[r] /\ keyOf[r] \in Key
      /\ \A k \in Key : link'[k] \in Kept' => link'[k] = link[k]
      /\ \A k \in Key : link[k] \in Kept' => link'[k] = link[k]
      /\ UNCHANGED <<pc, todo, hand, mine>>
  BY KeptFacts DEF KeptShrinks, NobodyMoves
<1>2. KeptIsHeld'
  BY <1>1 DEF RaceInv, KeptIsHeld
<1>3. Overlapped'
  <2>1. \A d \in Caller : mine'[d] # None => mine'[d] \in Run /\ runs'[mine'[d]] # "none"
    BY NoneIsNothing DEF TypeInv, HandsRight, RunsTyped, PlaceTyped
  <2>2. \A d \in Caller : mine[d] \in stray => mine[d] \notin Kept'
    BY <1>1 DEF Kept
  <2> QED BY <1>1, <2>1, <2>2 DEF RaceInv, Overlapped, Kept
<1>4. KeptIsCalm' /\ ToDoFree'
  BY <1>1 DEF RaceInv, KeptIsCalm, ToDoFree, Free
<1>5. ASSUME NEW c \in Caller PROVE HandFree(c)' /\ CopyCalm(c)' /\ LinkingCalm(c)'
  <2>1. HandFree(c) /\ CopyCalm(c) /\ LinkingCalm(c)
    BY DEF RaceInv
  <2>2. HandFree(c)' /\ CopyCalm(c)'
    BY <1>1, <2>1 DEF HandFree, CopyCalm
  <2>3. pc[c] = "linking" => hand[c] \in Key
    BY DEF TypeInv, HandsRight
  <2>4. LinkingCalm(c)'
    BY <1>1, <2>1, <2>3 DEF LinkingCalm
  <2> QED BY <2>2, <2>4
<1> QED BY <1>2, <1>3, <1>4, <1>5 DEF RaceInv

LEMMA AgeRace == ASSUME TypeInv, TypeInv', RaceInv, NEW k \in Key, Age(k) PROVE RaceInv'
<1>1. \A e \in QueueEntry \cup {None} : Calm(e) => Calm(Aged(e))
  BY DEF QueueEntry, Calm, Aged, Young
<1>2. \A j \in Key : Calm(queue[j]) => Calm(queue'[j])
  BY <1>1 DEF Age, TypeInv, RecordInv, RecordTypes, Queue
<1>3. ASSUME NEW c \in Caller, NEW j \in Key, Calm(snap[c][j]) PROVE Calm(snap'[c][j])
  <2>1. snap[c] \in Queue /\ snap'[c] = [snap[c] EXCEPT ![k] = Aged(@)]
    BY DEF Age, TypeInv, RecordInv, RecordTypes
  <2> QED BY <1>1, <1>3, <2>1 DEF Queue
<1> QED BY <1>2, <1>3, AgeMoves, RaceStands

LEMMA RaceInvInit == ASSUME QueueInit PROVE RaceInv
BY NoneIsNothing, ServiceIsCaller
   DEF QueueInit, RaceInv, KeptIsHeld, Kept, Overlapped, KeptIsCalm, ToDoFree, Free, HandFree,
       CopyCalm, LinkingCalm, Busy, Holding, Calm, Nothing

LEMMA RaceReconcile ==
    ASSUME TypeInv, TypeInv', RaceInv, NEW c \in Caller, Reconcile(c) PROVE RaceInv'
BY PruneRace, InspectRace, RepairRace DEF Reconcile

LEMMA RaceLaunch ==
    ASSUME TypeInv, TypeInv', RaceInv, NEW c \in Caller, Launch(c) PROVE RaceInv'
BY PatchLaunchingRace, SpawnRace, PatchRunningRace, LinkRace, DegradeRace DEF Launch

LEMMA RaceStarter ==
    ASSUME TypeInv, TypeInv', RaceInv, NEW c \in Starter, StarterGoesOn(c) PROVE RaceInv'
<1>1. c \in Caller
  BY DEF Caller
<1> QED BY <1>1, RaceReconcile, RaceLaunch, AlreadyThereRace, IntentRace, ReadToEnqueueRace,
           EnqueueRace DEF StarterGoesOn

LEMMA RaceService ==
    ASSUME TypeInv, TypeInv', RaceInv, ServiceStep PROVE RaceInv'
<1>1. CASE Tick \/ Reconcile(Service) \/ Launch(Service)
  BY <1>1, BeginRace, RaceReconcile, RaceLaunch, ServiceIsCaller DEF Tick
<1>2. CASE \E k \in Key : Resume(k) \/ PassOver(k) \/ GiveUp(k)
  BY <1>2, ResumeRace, PassOverRace, GiveUpRace
<1>3. CASE Judge \/ Drained \/ Mark \/ Sweep \/ Terminalize
  BY <1>3, JudgeRace, DrainedRace, MarkRace, SweepRace, TerminalizeRace
<1>4. CASE Recover \/ Rewrite \/ Screen \/ TickEnds
  BY <1>4, RecoverRace, RewriteRace, ScreenRace, TickEndsRace
<1> QED BY <1>1, <1>2, <1>3, <1>4 DEF ServiceStep

LEMMA RaceInvStep ==
    ASSUME TypeInv, TypeInv', RaceInv, [QueueNext]_queueVars PROVE RaceInv'
<1>1. CASE \E c \in Starter : \E k \in Key : Ask(c, k)
  BY <1>1, BeginRace DEF Ask, Caller
<1>2. CASE \E c \in Starter : StarterGoesOn(c)
  BY <1>2, RaceStarter
<1>3. CASE ServiceStep
  BY <1>3, RaceService
<1>4. CASE \E c \in Caller : LaunchFails(c)
  BY <1>4, LaunchFailsRace
<1>5. CASE \E r \in Run : RunEnds(r)
  BY <1>5, RunEndsMoves, RaceStands
<1>6. CASE \E k \in Key : LoseTrack(k) \/ Age(k)
  BY <1>6, LoseTrackMoves, AgeRace, RaceStands
<1>7. CASE UNCHANGED queueVars
  BY <1>7, RaceStands
     DEF queueVars, runVars, callVars, history, NobodyMoves, KeptShrinks, Kept
<1> QED BY <1>1, <1>2, <1>3, <1>4, <1>5, <1>6, <1>7 DEF QueueNext

LEMMA RaceInvariant == QueueSpec => [](TypeInv /\ RaceInv)
<1>1. TypeInv /\ RaceInv /\ [QueueNext]_queueVars => (TypeInv /\ RaceInv)'
  BY TypeInvStep, RaceInvStep
<1>2. QueueInit => TypeInv /\ RaceInv
  BY TypeInvInit, RaceInvInit
<1> QED BY <1>1, <1>2, PTL DEF QueueSpec

\* Two kept runs of one work are the same run: there is one link for the work, one kept
\* run that is not linked yet, and who has that sees no other run of its work.
LEMMA OneKeptRun ==
    ASSUME TypeInv, RaceInv, NEW r \in Kept, NEW q \in Kept, keyOf[r] = keyOf[q]
    PROVE  r = q
<1>1. \A p \in Kept : link[keyOf[p]] = p \/ \E c \in Caller : mine[c] = p
  BY DEF RaceInv, KeptIsHeld
<1>2. ASSUME NEW c \in Caller, NEW p \in Kept, NEW o \in Kept, keyOf[p] = keyOf[o], mine[c] = p
      PROVE  p = o
  <2>1. pc[c] \in Busy /\ keyOf[o] = hand[c]
    BY <1>2, KeptFacts DEF TypeInv, HandsRight, Busy
  <2> QED BY <1>2, <2>1 DEF RaceInv, HandFree
<1> QED BY <1>1, <1>2

\* At most one run of a work is at work whose launch was not overlapped and which has
\* not been lost track of (startBackgroundRun, the drain and the replay).
THEOREM DuplicatesAreRacedHolds == QueueSpec => []DuplicatesAreRaced
<1>1. TypeInv /\ RaceInv => DuplicatesAreRaced
  <2> SUFFICES ASSUME TypeInv, RaceInv, NEW r \in Live, NEW q \in Live, r # q,
                      keyOf[r] = keyOf[q], r \notin stray, q \notin stray
               PROVE  FALSE
    BY DEF DuplicatesAreRaced
  <2>1. r \in Kept /\ q \in Kept
    BY DEF Live, Kept
  <2> QED BY <2>1, OneKeptRun
<1> QED BY <1>1, RaceInvariant, PTL

-----------------------------------------------------------------------------
(***************************************************************************)
(* What the history says of a completed work, and of fresh work. A caller   *)
(* that opens the one again, or gives the other up, acts on what it read    *)
(* before: its copies of the entries and its list say of every work whether *)
(* it is completed, or fresh, unless that has become so in the meantime,    *)
(* and then the history has noted it.                                       *)
(***************************************************************************)

Done(entry) == Is(entry, {"completed"})

Launching == {"intent", "launching", "spawned", "linking", "degrading", "judging"}

\* The phases of the tick: the service has a list, and has launched works, only where
\* it goes through them.
ServicePlace ==
    /\ phase = "replay" => pc[Service] \in Launching \cup {"choosing"}
    /\ todo[Service] # {} => pc[Service] \in Launching \cup {"choosing", "terminalizing"}
    /\ started # {} => phase = "drain" /\ pc[Service] \in Launching \cup {"choosing", "marking"}

\* An attempt is counted, and a run recorded, only of what was launched.
Sane(entry) ==
    entry # None =>
        /\ entry.status \in {"running", "launching", "degraded"} => entry.launched
        /\ ~entry.launched => entry.attempts = 0

AllSane == \A k \in Key : Sane(queue[k]) /\ \A c \in Caller : Sane(snap[c][k])

\* A step of a request is none of the service's.
LEMMA StarterLeavesService ==
    ASSUME TypeInv, NEW c \in Starter, StarterGoesOn(c) \/ LaunchFails(c)
    PROVE  UNCHANGED <<phase, started>>
<1>1. c # Service
  BY QueueAssumption
<1>2. CASE Launch(c)
  BY <1>1, <1>2 DEF Launch, PatchLaunching, Spawn, PatchRunning, Link, Degrade
<1> QED BY <1>1, <1>2 DEF StarterGoesOn, Reconcile, Prune, Inspect, Repair, AlreadyThere,
           Intent, NoSession, Requeue, ReadToEnqueue, Enqueue, LaunchFails

LEMMA StarterIsAlone ==
    ASSUME TypeInv, NEW c \in Starter,
           (\E k \in Key : Ask(c, k)) \/ StarterGoesOn(c) \/ LaunchFails(c)
    PROVE  c \in Caller /\ c # Service /\ OthersWait(c) /\ UNCHANGED <<phase, started>>
<1>1. c \in Caller /\ c # Service
  BY ServiceIsCaller DEF Caller
<1>2. ASSUME NEW k \in Key, Ask(c, k) PROVE OthersWait(c) /\ UNCHANGED <<phase, started>>
  <2>1. Begin(c, k)
    BY <1>2 DEF Ask
  <2> QED BY <1>1, <2>1, BeginMoves DEF Begin
<1>3. ASSUME StarterGoesOn(c) PROVE OthersWait(c)
  <2>1. ASSUME Reconcile(c) PROVE OthersWait(c)
    BY <1>1, <2>1, PruneMoves, InspectMoves, RepairMoves DEF Reconcile, CallerMoves
  <2>2. ASSUME Launch(c) PROVE OthersWait(c)
    BY <1>1, <2>2, PatchLaunchingMoves, SpawnMoves, PatchRunningMoves, LinkMoves, DegradeMoves
       DEF Launch, CallerMoves
  <2>3. ASSUME AlreadyThere(c) \/ Intent(c) \/ NoSession(c) \/ Requeue(c) \/ Enqueue(c)
        PROVE  OthersWait(c)
    BY <1>1, <2>3, AlreadyThereMoves, IntentMoves, ReadToEnqueueMoves, EnqueueMoves
       DEF CallerMoves
  <2> QED BY <1>3, <2>1, <2>2, <2>3 DEF StarterGoesOn
<1>4. ASSUME LaunchFails(c) PROVE OthersWait(c)
  BY <1>1, <1>4, LaunchFailsMoves
<1> QED BY <1>1, <1>2, <1>3, <1>4, StarterLeavesService

LEMMA PlaceLaunch ==
    ASSUME TypeInv, ServicePlace, Launch(Service) \/ LaunchFails(Service) \/ Judge
    PROVE  ServicePlace'
<1> USE ServiceIsCaller
<1>1. pc[Service] \in Launching
  BY DEF Launch, PatchLaunching, Spawn, PatchRunning, Link, Degrade, LaunchFails, Judge,
     Launching
<1>2. pc'[Service] \in Launching \cup {"choosing"} /\ todo'[Service] = todo[Service]
  <2>1. CASE Launch(Service)
    BY <2>1, PatchLaunchingMoves, SpawnMoves, PatchRunningMoves, LinkMoves, DegradeMoves
       DEF Launch, Launching, Degrade
  <2>2. CASE LaunchFails(Service)
    BY <2>2, LaunchFailsMoves DEF Launching
  <2>3. CASE Judge
    BY <2>3, JudgeMoves
  <2> QED BY <2>1, <2>2, <2>3
<1>3. phase' = phase /\ (started' = started \/ phase = "drain")
  BY DEF Launch, PatchLaunching, Spawn, PatchRunning, Link, Degrade, LaunchFails, Judge
<1> QED BY <1>1, <1>2, <1>3 DEF ServicePlace

LEMMA PlaceService ==
    ASSUME TypeInv, ServicePlace, ServiceStep
    PROVE  ServicePlace'
<1> USE ServiceIsCaller
<1>1. CASE Tick
  <2>1. Begin(Service, None)
    BY <1>1 DEF Tick
  <2> QED BY <2>1, BeginMoves DEF Begin, ServicePlace, Launching
<1>2. CASE Reconcile(Service)
  <2>1. pc[Service] \in {"pruning", "inspecting", "repairing"} /\ UNCHANGED <<phase, started>>
    BY <1>2 DEF Reconcile, Prune, Inspect, Repair
  <2>2. \/ pc'[Service] = "choosing"
        \/ pc'[Service] \notin {"idle"} /\ todo'[Service] = todo[Service]
    BY <1>2, PruneMoves, InspectMoves, RepairMoves DEF Reconcile
  <2> QED BY <2>1, <2>2 DEF ServicePlace, Launching
<1>3. CASE Launch(Service) \/ Judge
  BY <1>3, PlaceLaunch
<1>4. ASSUME NEW k \in Key, Resume(k) \/ PassOver(k) \/ GiveUp(k) PROVE ServicePlace'
  <2>1. /\ pc[Service] = "choosing" /\ pc'[Service] \in {"choosing", "intent"}
        /\ UNCHANGED <<phase, started>>
    BY <1>4, ResumeMoves, PassOverMoves, GiveUpMoves DEF Resume, PassOver, GiveUp
  <2> QED BY <2>1 DEF ServicePlace, Launching
<1>5. CASE Drained
  BY <1>5, DrainedMoves DEF Drained, ServicePlace, Launching
<1>6. CASE Mark
  BY <1>6, MarkMoves DEF Mark, ServicePlace, Launching
<1>7. CASE Sweep
  BY <1>7, SweepMoves DEF Sweep, ServicePlace, Launching
<1>8. CASE Terminalize
  BY <1>8, TerminalizeMoves DEF Terminalize, ServicePlace, Launching
<1>9. CASE Recover
  BY <1>9, RecoverMoves DEF Recover, ServicePlace, Launching
<1>10. CASE Rewrite
  BY <1>10, RewriteMoves DEF Rewrite, ServicePlace, Launching
<1>11. CASE Screen
  BY <1>11, ScreenMoves DEF ServicePlace, Launching
<1>12. CASE TickEnds
  BY <1>12, TickEndsMoves DEF TickEnds, ServicePlace
<1> QED BY <1>1, <1>2, <1>3, <1>4, <1>5, <1>6, <1>7, <1>8, <1>9, <1>10, <1>11, <1>12
           DEF ServiceStep

LEMMA PlaceStep ==
    ASSUME TypeInv, ServicePlace, QueueNext
    PROVE  ServicePlace'
<1>1. ASSUME NEW c \in Starter,
             (\E k \in Key : Ask(c, k)) \/ StarterGoesOn(c) \/ LaunchFails(c)
      PROVE  ServicePlace'
  BY <1>1, StarterIsAlone, ServiceIsCaller DEF OthersWait, ServicePlace
<1>2. ASSUME NEW c \in Caller, LaunchFails(c) PROVE ServicePlace'
  BY <1>1, <1>2, PlaceLaunch DEF Caller
<1>3. CASE \/ \E r \in Run : RunEnds(r)
           \/ \E k \in Key : LoseTrack(k) \/ Age(k)
  <2>1. NobodyMoves
    BY <1>3, RunEndsMoves, LoseTrackMoves, AgeMoves
  <2> QED BY <2>1 DEF NobodyMoves, ServicePlace
<1> QED BY <1>1, <1>2, <1>3, PlaceService DEF QueueNext

LEMMA SaneEntries ==
    /\ Sane(None) /\ Sane(Request) /\ \A k \in Key : Sane(Nothing[k])
    /\ \A e \in QueueEntry \cup {None} : Sane(e) =>
          /\ \A s \in QueueStatus \ {"launching"} : Sane(Marked(e, s))
          /\ Sane(Aged(e))
    /\ \A e, f \in QueueEntry \cup {None} : f \in Requested(e) => Sane(f)
<1>1. Sane(None) /\ Sane(Request) /\ \A k \in Key : Sane(Nothing[k])
  BY DEF Sane, Request, Nothing
<1>2. ASSUME NEW e \in QueueEntry, Sane(e), NEW s \in QueueStatus \ {"launching"}
      PROVE  Sane(Marked(e, s))
  <2>1. Marked(e, s) = [e EXCEPT !.status = s,
                                 !.launched = @ \/ s \in {"running", "degraded"}]
    BY <1>2, NoneAssumption DEF Marked
  <2>2. e # None
    BY NoneAssumption
  <2> QED BY <1>2, <2>1, <2>2 DEF Sane, QueueEntry
<1>3. ASSUME NEW e \in QueueEntry, Sane(e) PROVE Sane(Aged(e))
  BY <1>3, NoneAssumption DEF Sane, Aged, QueueEntry
<1>4. Marked(None, "queued") = None /\ Aged(None) = None /\ \A s : Marked(None, s) = None
  BY DEF Marked, Aged, Young
<1>5. ASSUME NEW e \in QueueEntry \cup {None}, NEW f \in Requested(e) PROVE Sane(f)
  <2>1. PICK old : f = [Request EXCEPT !.old = old]
    BY <1>5 DEF Requested
  <2> QED BY <2>1 DEF Sane, Request
<1> QED BY <1>1, <1>2, <1>3, <1>4, <1>5

\* What a step writes and what it reads is sane.
LEMMA SaneMove ==
    ASSUME TypeInv, AllSane, NEW c \in Caller,
           \A k \in Key : Sane(queue'[k]) /\ Sane(snap'[c][k]),
           \A d \in Caller \ {c} : snap'[d] = snap[d]
    PROVE  AllSane'
BY DEF AllSane

LEMMA EntriesTyped ==
    ASSUME TypeInv
    PROVE  \A k \in Key : /\ queue[k] \in QueueEntry \cup {None}
                          /\ \A c \in Caller : snap[c][k] \in QueueEntry \cup {None}
BY DEF TypeInv, RecordInv, RecordTypes, Queue

\* c drops its copy, or keeps it.
LEMMA SaneDrop ==
    ASSUME TypeInv, AllSane, NEW c \in Caller, DropSnap(c) \/ snap' = snap
    PROVE  \A d \in Caller : \A k \in Key : Sane(snap'[d][k])
BY SaneEntries DEF DropSnap, TypeInv, RecordInv, RecordTypes, AllSane

LEMMA SaneReconcile ==
    ASSUME TypeInv, AllSane, NEW c \in Caller, Reconcile(c)
    PROVE  AllSane'
<1>1. CASE Prune(c) \/ Repair(c)
  <2>1. queue' = snap[c] /\ (DropSnap(c) \/ snap' = snap)
    BY <1>1 DEF Prune, Repair, WriteFile
  <2> QED BY <2>1, SaneDrop DEF AllSane
<1>2. CASE Inspect(c)
  <2>1. /\ queue' = [k \in Key |-> IF k \in Told THEN Marked(queue[k], Outcome(k)) ELSE queue[k]]
        /\ \A k \in Key : snap'[c][k] =
              IF Orphaned(k, queue'[k]) /\ k \notin Told THEN Marked(queue'[k], "needs_repair")
              ELSE queue'[k]
        /\ \A d \in Caller \ {c} : snap'[d] = snap[d]
    BY <1>2 DEF Inspect, TypeInv, RecordInv, RecordTypes
  <2>2. \A k \in Told : Outcome(k) \in QueueStatus \ {"launching"}
    BY DEF Told, Outcome, QueueStatus
  <2>3. \A k \in Key : Sane(queue'[k])
    BY <2>1, <2>2, EntriesTyped, SaneEntries DEF AllSane
  <2>4. \A k \in Key : k \notin Told => Sane(Marked(queue[k], "needs_repair"))
    BY EntriesTyped, SaneEntries DEF AllSane, QueueStatus
  <2>5. \A k \in Key : Sane(snap'[c][k])
    BY <2>1, <2>3, <2>4
  <2> QED BY <2>1, <2>3, <2>5, SaneMove
<1> QED BY <1>1, <1>2 DEF Reconcile

\* One entry is replaced by a sane one.
LEMMA SanePatch ==
    ASSUME TypeInv, AllSane, NEW c \in Caller, NEW k, NEW e,
           queue' = [queue EXCEPT ![k] = e], k \in Key => Sane(e), DropSnap(c) \/ snap' = snap
    PROVE  AllSane'
<1>1. \A j \in Key : Sane(queue'[j])
  BY DEF TypeInv, RecordInv, RecordTypes, Queue, AllSane
<1> QED BY <1>1, SaneDrop DEF AllSane

LEMMA SaneMark ==
    ASSUME TypeInv, AllSane, NEW c \in Caller, NEW k, NEW s \in QueueStatus \ {"launching"},
           queue' = [queue EXCEPT ![k] = Marked(@, s)], DropSnap(c) \/ snap' = snap
    PROVE  AllSane'
<1>1. queue' = [queue EXCEPT ![k] = Marked(queue[k], s)]
  OBVIOUS
<1>2. k \in Key => Sane(Marked(queue[k], s))
  BY EntriesTyped, SaneEntries DEF AllSane
<1> QED BY <1>1, <1>2, SanePatch

\* c's copy is dropped when it goes on to rest, and kept else.
LEMMA GoOnDrops == ASSUME NEW c \in Caller, GoOn(c) PROVE DropSnap(c) \/ snap' = snap
BY DEF GoOn, Leave

LEMMA SaneLaunch ==
    ASSUME TypeInv, AllSane, NEW c \in Caller, Launch(c) \/ LaunchFails(c)
    PROVE  AllSane'
<1>1. CASE PatchLaunching(c)
  <2>1. PICK e : e = IF queue[hand[c]] = None THEN None ELSE
                        [status |-> "launching", attempts |-> Counted(tries[c]), old |-> FALSE,
                         launched |-> TRUE]
    OBVIOUS
  <2>2. queue' = [queue EXCEPT ![hand[c]] = e] /\ snap' = snap
    BY <1>1, <2>1 DEF PatchLaunching
  <2>3. Sane(e)
    BY <2>1 DEF Sane
  <2> QED BY <2>2, <2>3, SanePatch
<1>2. CASE Spawn(c) \/ LaunchFails(c)
  BY <1>2 DEF Spawn, LaunchFails, AllSane
<1>3. CASE PatchRunning(c)
  <2>1. queue' = [queue EXCEPT ![hand[c]] = Marked(@, "running")] /\ snap' = snap
    BY <1>3 DEF PatchRunning
  <2> QED BY <2>1, SaneMark DEF QueueStatus
<1>4. CASE Link(c)
  BY <1>4, GoOnDrops, SaneDrop DEF Link, AllSane
<1>5. CASE Degrade(c)
  <2>1. /\ queue' = [queue EXCEPT ![hand[c]] = Marked(@, "degraded")]
        /\ DropSnap(c) \/ snap' = snap
    BY <1>5, GoOnDrops DEF Degrade
  <2> QED BY <2>1, SaneMark DEF QueueStatus
<1> QED BY <1>1, <1>2, <1>3, <1>4, <1>5 DEF Launch

LEMMA SaneStarter ==
    ASSUME TypeInv, AllSane, NEW c \in Starter, StarterGoesOn(c)
    PROVE  AllSane'
<1>0. c \in Caller
  BY DEF Caller
<1>1. CASE AlreadyThere(c)
  BY <1>0, <1>1, SaneDrop DEF AlreadyThere, Leave, AllSane
<1>2. CASE Intent(c)
  <2>1. hand[c] \in Key /\ queue[hand[c]] \in QueueEntry \cup {None}
    BY <1>0, <1>2, EntriesTyped DEF Intent, TypeInv, RecordInv
  <2>2. PICK entry \in Requested(queue[hand[c]]) : queue' = [queue EXCEPT ![hand[c]] = entry]
    BY <1>2 DEF Intent
  <2>3. Sane(entry)
    BY <2>1, <2>2, SaneEntries, EntryTypes
  <2> QED BY <1>0, <1>2, <2>2, <2>3, SanePatch DEF Intent
<1>3. CASE NoSession(c) \/ Requeue(c)
  <2>1. queue' = queue /\ snap' = [snap EXCEPT ![c] = queue]
    BY <1>3 DEF NoSession, Requeue, ReadToEnqueue
  <2> QED BY <1>0, <2>1 DEF AllSane, TypeInv, RecordInv, RecordTypes
<1>4. CASE Enqueue(c)
  <2>1. /\ queue' = snap[c] \/ queue' = [snap[c] EXCEPT ![hand[c]] = Request]
        /\ DropSnap(c)
    BY <1>4 DEF Enqueue, WriteFile, Leave
  <2>2. \A k \in Key : Sane(queue'[k])
    BY <1>0, <2>1, SaneEntries DEF AllSane, TypeInv, RecordInv, RecordTypes, Queue
  <2> QED BY <1>0, <2>1, <2>2, SaneDrop DEF AllSane
<1> QED BY <1>0, <1>1, <1>2, <1>3, <1>4, SaneReconcile, SaneLaunch DEF StarterGoesOn

LEMMA SaneService ==
    ASSUME TypeInv, AllSane, ServiceStep
    PROVE  AllSane'
<1> USE ServiceIsCaller
<1>1. CASE Tick
  <2>1. queue' = queue /\ snap' = [snap EXCEPT ![Service] = queue]
    BY <1>1 DEF Tick, Begin
  <2> QED BY <2>1 DEF AllSane, TypeInv, RecordInv, RecordTypes
<1>2. CASE Judge
  <2>1. PICK s \in {"failed", "needs_repair"} :
           s = IF Exhausted(queue[hand[Service]]) THEN "failed" ELSE "needs_repair"
    OBVIOUS
  <2>2. queue' = [queue EXCEPT ![hand[Service]] = Marked(@, s)]
    BY <1>2, <2>1 DEF Judge, Marked
  <2>3. snap' = snap \/ DropSnap(Service)
    BY <1>2, GoOnDrops DEF Judge
  <2> QED BY <2>2, <2>3, SaneMark DEF QueueStatus
<1>3. ASSUME NEW k \in Key, Resume(k) \/ PassOver(k) \/ GiveUp(k) PROVE AllSane'
  <2>1. CASE GiveUp(k)
    BY <2>1, SaneMark DEF GiveUp, QueueStatus
  <2>2. CASE Resume(k) \/ PassOver(k)
    BY <2>2 DEF Resume, PassOver, AllSane
  <2> QED BY <1>3, <2>1, <2>2
<1>4. CASE Drained
  <2>1. /\ queue' = queue
        /\ \A k \in Key : snap'[Service][k] =
              IF k \in started /\ queue[k] # None
              THEN [Marked(queue[k], "running") EXCEPT !.old = FALSE] ELSE queue[k]
        /\ \A d \in Caller \ {Service} : snap'[d] = snap[d]
    BY <1>4 DEF Drained, TypeInv, RecordInv, RecordTypes
  <2>2. ASSUME NEW k \in Key PROVE Sane(snap'[Service][k])
    <3>1. CASE k \in started /\ queue[k] # None
      <4>1. queue[k] \in QueueEntry
        BY <3>1, EntriesTyped
      <4>2. snap'[Service][k] = [queue[k] EXCEPT !.status = "running", !.launched = TRUE,
                                                 !.old = FALSE]
        BY <2>1, <3>1, <4>1 DEF Marked, QueueEntry
      <4> QED BY <4>1, <4>2 DEF Sane, QueueEntry
    <3>2. CASE ~ (k \in started /\ queue[k] # None)
      BY <2>1, <3>2 DEF AllSane
    <3> QED BY <3>1, <3>2
  <2> QED BY <2>1, <2>2, SaneMove DEF AllSane
<1>5. CASE Mark \/ Rewrite
  <2>1. queue' = snap[Service] /\ DropSnap(Service)
    BY <1>5 DEF Mark, Rewrite, WriteFile
  <2> QED BY <2>1, SaneDrop DEF AllSane
<1>6. CASE Sweep
  BY <1>6 DEF Sweep, AllSane
<1>7. CASE Terminalize
  <2>1. \A k \in Key : Sane(Marked(queue[k], "failed"))
    BY EntriesTyped, SaneEntries DEF AllSane, QueueStatus
  <2> QED BY <1>7, <2>1 DEF Terminalize, AllSane
<1>8. CASE Recover
  <2>1. /\ queue' = queue
        /\ \/ snap' = snap
           \/ /\ \A k \in Key : snap'[Service][k] \in {queue[k], Marked(queue[k], "needs_repair")}
              /\ \A d \in Caller \ {Service} : snap'[d] = snap[d]
    BY <1>8 DEF Recover, TypeInv, RecordInv, RecordTypes
  <2>2. \A k \in Key : Sane(Marked(queue[k], "needs_repair"))
    BY EntriesTyped, SaneEntries DEF AllSane, QueueStatus
  <2> QED BY <2>1, <2>2 DEF AllSane
<1>9. CASE Screen
  <2>1. /\ \A k \in Key : queue'[k] = Screened(k) /\ snap'[Service][k] = queue'[k]
        /\ \A d \in Caller \ {Service} : snap'[d] = snap[d]
    BY <1>9 DEF Screen, TypeInv, RecordInv, RecordTypes
  <2>2. \A k \in Key : Sane(Marked(queue[k], "needs_repair"))
    BY EntriesTyped, SaneEntries DEF AllSane, QueueStatus
  <2>3. \A k \in Key : Sane(Screened(k))
    BY <2>2 DEF Screened, Sane, AllSane
  <2> QED BY <2>1, <2>3, SaneMove
<1>10. CASE TickEnds
  BY <1>10, SaneDrop DEF TickEnds, Leave, AllSane
<1> QED BY <1>1, <1>2, <1>3, <1>4, <1>5, <1>6, <1>7, <1>8, <1>9, <1>10, SaneReconcile,
           SaneLaunch DEF ServiceStep

LEMMA SaneStep ==
    ASSUME TypeInv, AllSane, QueueNext
    PROVE  AllSane'
<1>1. ASSUME NEW c \in Starter, NEW k \in Key, Ask(c, k) PROVE AllSane'
  <2>1. queue' = queue /\ snap' = [snap EXCEPT ![c] = queue] /\ c \in Caller
    BY <1>1 DEF Ask, Begin, Caller
  <2> QED BY <2>1 DEF AllSane, TypeInv, RecordInv, RecordTypes
<1>2. ASSUME NEW r \in Run, RunEnds(r) PROVE AllSane'
  BY <1>2 DEF RunEnds, callVars, AllSane
<1>3. ASSUME NEW k \in Key, LoseTrack(k) PROVE AllSane'
  BY <1>3 DEF LoseTrack, callVars, AllSane
<1>4. ASSUME NEW k \in Key, Age(k) PROVE AllSane'
  <2>1. /\ \A j \in Key : queue'[j] \in {queue[j], Aged(queue[j])}
        /\ \A c \in Caller : \A j \in Key : snap'[c][j] \in {snap[c][j], Aged(snap[c][j])}
    BY <1>4 DEF Age, TypeInv, RecordInv, RecordTypes, Queue
  <2> QED BY <2>1, EntriesTyped, SaneEntries DEF AllSane
<1> QED BY <1>1, <1>2, <1>3, <1>4, SaneStarter, SaneService, SaneLaunch DEF QueueNext

-----------------------------------------------------------------------------
\* Done stays done. What a caller knows of the completed works that the history has not
\* noted for it.

DoneKnown(c) ==
    \A k \in Key : Done(queue[k]) /\ k \notin meanwhile[c] =>
        /\ pc[c] \in Holding \ {"enqueuing"} => Done(snap[c][k])
        /\ pc[c] \in Launching => hand[c] # k
        /\ c = Service => k \notin todo[Service] \cup started

\* The callers but c have noted what c completes.
DoneHeard(c) ==
    \A d \in Caller \ {c} : pc'[d] # "idle" =>
        \A k \in Key : Done(queue'[k]) /\ k \notin meanwhile'[d] =>
            Done(queue[k]) /\ k \notin meanwhile[d]

Reopened(k) ==
    \/ \E c \in Starter : pc[c] \in {"asking", "enqueuing"} /\ pc'[c] # pc[c]
    \/ \E c \in Caller : GoesOn(c) /\ k \in meanwhile[c]
    \/ link[k] \in stray

DoneSafe == \A k \in Key : Done(queue[k]) /\ ~Done(queue'[k]) => Reopened(k)

\* What is shown of a step of c.
DoneMove(c) == DoneKnown(c)' /\ DoneHeard(c) /\ DoneSafe

LEMMA NoteHeard ==
    ASSUME NEW c \in Caller, Note(c)
    PROVE  DoneHeard(c) /\ (pc'[c] # "idle" => meanwhile'[c] = meanwhile[c])
BY DEF Note, DoneHeard, Done

LEMMA NothingDone ==
    ASSUME NEW c \in Caller, \A d \in Caller \ {c} : meanwhile'[d] = meanwhile[d],
           \A k \in Key : Done(queue'[k]) => Done(queue[k])
    PROVE  DoneHeard(c)
BY DEF DoneHeard

LEMMA OthersKnow ==
    ASSUME ServicePlace, NEW c \in Caller, OthersWait(c), DoneHeard(c),
           c # Service => UNCHANGED started, NEW d \in Caller \ {c}, DoneKnown(d)
    PROVE  DoneKnown(d)'
<1>1. pc'[d] = pc[d] /\ hand'[d] = hand[d] /\ snap'[d] = snap[d] /\ todo'[d] = todo[d]
  BY DEF OthersWait
<1>2. CASE pc[d] = "idle"
  <2>1. d = Service => todo'[Service] = {} /\ started' = {}
    BY <1>1, <1>2 DEF ServicePlace, Launching
  <2> QED BY <1>1, <1>2, <2>1 DEF DoneKnown, Holding, Launching
<1>3. CASE pc[d] # "idle"
  <2>1. ASSUME NEW k \in Key, Done(queue'[k]), k \notin meanwhile'[d]
        PROVE  /\ pc'[d] \in Holding \ {"enqueuing"} => Done(snap'[d][k])
               /\ pc'[d] \in Launching => hand'[d] # k
               /\ d = Service => k \notin todo'[Service] \cup started'
    <3>1. Done(queue[k]) /\ k \notin meanwhile[d]
      BY <1>1, <1>3, <2>1 DEF DoneHeard
    <3>2. d = Service => started' = started
      OBVIOUS
    <3> QED BY <1>1, <3>1, <3>2 DEF DoneKnown
  <2> QED BY <2>1 DEF DoneKnown
<1> QED BY <1>2, <1>3

\* A caller moves on with the work in its hand, to which alone it writes.
LEMMA DoneAtHand ==
    ASSUME TypeInv, NEW c \in Caller, DoneKnown(c),
           pc[c] \in Launching, pc'[c] # pc[c], pc'[c] \notin Holding \ {"enqueuing"},
           queue' = queue \/ (hand[c] \in Key => ~Done(queue'[hand[c]])),
           \A k \in Key : k # hand[c] => queue'[k] = queue[k],
           pc'[c] \in Launching => hand'[c] = hand[c],
           pc'[c] # "idle" => meanwhile'[c] = meanwhile[c],
           c = Service => /\ pc'[c] # "idle" /\ todo'[c] = todo[c]
                          /\ started' \subseteq started \cup {hand[c]}
    PROVE  DoneKnown(c)' /\ DoneSafe
<1>1. ASSUME NEW k \in Key, Done(queue'[k]), k \notin meanwhile'[c], pc'[c] # "idle"
      PROVE  Done(queue[k]) /\ k \notin meanwhile[c] /\ k # hand[c]
  <2>1. Done(queue[k]) /\ k \notin meanwhile[c]
    BY <1>1
  <2> QED BY <2>1 DEF DoneKnown
<1>2. ASSUME NEW k \in Key, Done(queue'[k]), k \notin meanwhile'[c]
      PROVE  /\ pc'[c] \in Holding \ {"enqueuing"} => Done(snap'[c][k])
             /\ pc'[c] \in Launching => hand'[c] # k
             /\ c = Service => k \notin todo'[Service] \cup started'
  <2>1. CASE pc'[c] = "idle"
    BY <2>1 DEF Launching
  <2>2. CASE pc'[c] # "idle"
    BY <1>1, <1>2, <2>2 DEF DoneKnown
  <2> QED BY <2>1, <2>2
<1>3. ASSUME NEW k \in Key, Done(queue[k]), ~Done(queue'[k]) PROVE Reopened(k)
  <2>1. k = hand[c]
    BY <1>3
  <2>2. k \in meanwhile[c]
    BY <1>3, <2>1 DEF DoneKnown
  <2>3. GoesOn(c)
    BY DEF GoesOn
  <2> QED BY <2>2, <2>3 DEF Reopened
<1> QED BY <1>2, <1>3 DEF DoneKnown, DoneSafe

\* A caller writes back what it holds.
LEMMA DoneWritten ==
    ASSUME TypeInv, NEW c \in Caller, DoneKnown(c), WriteFile(c, snap[c]),
           pc[c] \in Holding \ {"enqueuing"}, pc'[c] # pc[c],
           pc'[c] \notin Holding \cup Launching, pc'[c] # "idle",
           c = Service => \A k \in todo'[Service] \cup started' : k \in Key => ~Done(snap[c][k])
    PROVE  DoneMove(c)
<1>1. queue' = snap[c] /\ Note(c)
  BY DEF WriteFile
<1>2. DoneHeard(c)
  BY <1>1, NoteHeard
<1>3. DoneKnown(c)'
  BY <1>1 DEF DoneKnown
<1>4. ASSUME NEW k \in Key, Done(queue[k]), ~Done(queue'[k]) PROVE Reopened(k)
  <2>1. k \in meanwhile[c]
    BY <1>1, <1>4 DEF DoneKnown
  <2>2. GoesOn(c)
    BY DEF GoesOn
  <2> QED BY <2>1, <2>2 DEF Reopened
<1> QED BY <1>2, <1>3, <1>4 DEF DoneSafe, DoneMove

\* A caller reads: it knows what it sees.
LEMMA DoneRead ==
    ASSUME NEW c \in Caller, queue' = queue, DoneKnown(c),
           \A d \in Caller \ {c} : meanwhile'[d] = meanwhile[d],
           \A k \in Key : Done(queue[k]) /\ k \notin meanwhile'[c] =>
               /\ pc'[c] \in Holding \ {"enqueuing"} => Done(snap'[c][k])
               /\ pc'[c] \in Launching => hand'[c] # k
               /\ c = Service => k \notin todo'[Service] \cup started'
    PROVE  DoneMove(c)
BY NothingDone DEF DoneKnown, DoneSafe, DoneMove

LEMMA DoneLaunch ==
    ASSUME TypeInv, NEW c \in Caller, DoneKnown(c), Launch(c) \/ LaunchFails(c)
    PROVE  DoneMove(c)
<1>1. CASE PatchLaunching(c)
  <2>1. /\ pc[c] = "intent" /\ pc'[c] = "launching" /\ hand'[c] = hand[c]
        /\ todo'[c] = todo[c] /\ UNCHANGED <<started, meanwhile>>
    BY <1>1, PatchLaunchingMoves DEF PatchLaunching, history
  <2>2. /\ \A k \in Key : k # hand[c] => queue'[k] = queue[k]
        /\ hand[c] \in Key => ~Done(queue'[hand[c]])
    BY <1>1 DEF PatchLaunching, TypeInv, RecordInv, RecordTypes, Queue, Done, Is
  <2>3. DoneHeard(c)
    BY <2>1, <2>2, NothingDone
  <2> QED BY <2>1, <2>2, <2>3, DoneAtHand DEF Launching, Holding, DoneMove
<1>2. CASE Spawn(c)
  <2>1. /\ pc[c] = "launching" /\ pc'[c] = "spawned" /\ hand'[c] = hand[c]
        /\ todo' = todo /\ queue' = queue /\ UNCHANGED <<started, meanwhile>>
    BY <1>2, SpawnMoves DEF Spawn
  <2> QED BY <2>1, DoneAtHand, NothingDone DEF Launching, Holding, DoneMove
<1>3. CASE PatchRunning(c)
  <2>1. /\ pc[c] = "spawned" /\ pc'[c] = "linking" /\ hand'[c] = hand[c]
        /\ todo'[c] = todo[c] /\ UNCHANGED <<started, meanwhile>>
    BY <1>3, PatchRunningMoves DEF PatchRunning, history
  <2>2. /\ \A k \in Key : k # hand[c] => queue'[k] = queue[k]
        /\ hand[c] \in Key => queue'[hand[c]] = Marked(queue[hand[c]], "running")
    BY <1>3 DEF PatchRunning, TypeInv, RecordInv, RecordTypes, Queue
  <2>3. hand[c] \in Key => ~Done(queue'[hand[c]])
    BY <2>2, EntriesTyped DEF Marked, Done, Is, QueueEntry
  <2>4. DoneHeard(c)
    BY <2>1, <2>2, <2>3, NothingDone
  <2> QED BY <2>1, <2>2, <2>3, <2>4, DoneAtHand DEF Launching, Holding, DoneMove
<1>4. CASE Link(c)
  <2>1. /\ pc[c] = "linking" /\ queue' = queue /\ Note(c)
        /\ pc'[c] \in {"idle", "choosing"}
        /\ c = Service => pc'[c] = "choosing" /\ todo'[c] = todo[c]
        /\ started' \subseteq started \cup {hand[c]}
    BY <1>4, LinkMoves, ServiceIsCaller DEF Link
  <2>2. pc'[c] # "idle" => meanwhile'[c] = meanwhile[c]
    BY <2>1, NoteHeard
  <2> QED BY <2>1, <2>2, DoneAtHand, NoteHeard DEF Launching, Holding, DoneMove
<1>5. CASE Degrade(c)
  <2>1. /\ pc[c] = "degrading" /\ Note(c) /\ started' = started
        /\ pc'[c] \in {"idle", "choosing", "judging", "requeuing"}
        /\ pc'[c] \in {"judging", "requeuing"} => hand'[c] = hand[c]
        /\ c = Service => pc'[c] # "idle" /\ todo'[c] = todo[c]
    BY <1>5, DegradeMoves, ServiceIsCaller DEF Degrade
  <2>2. /\ \A k \in Key : k # hand[c] => queue'[k] = queue[k]
        /\ hand[c] \in Key => queue'[hand[c]] = Marked(queue[hand[c]], "degraded")
    BY <1>5 DEF Degrade, TypeInv, RecordInv, RecordTypes, Queue
  <2>3. hand[c] \in Key => ~Done(queue'[hand[c]])
    BY <2>2, EntriesTyped DEF Marked, Done, Is, QueueEntry
  <2>4. pc'[c] # "idle" => meanwhile'[c] = meanwhile[c]
    BY <2>1, NoteHeard
  <2> QED BY <2>1, <2>2, <2>3, <2>4, DoneAtHand, NoteHeard DEF Launching, Holding, DoneMove
<1>6. CASE LaunchFails(c)
  <2>1. /\ pc[c] \in {"launching", "spawned", "linking"} /\ pc'[c] = "degrading"
        /\ hand'[c] = hand[c] /\ todo' = todo /\ queue' = queue
        /\ UNCHANGED <<started, meanwhile>>
    BY <1>6, LaunchFailsMoves DEF LaunchFails
  <2> QED BY <2>1, DoneAtHand, NothingDone DEF Launching, Holding, DoneMove
<1> QED BY <1>1, <1>2, <1>3, <1>4, <1>5, <1>6 DEF Launch

LEMMA DoneJudge ==
    ASSUME TypeInv, DoneKnown(Service), Judge
    PROVE  DoneMove(Service)
<1>1. /\ Service \in Caller /\ pc[Service] = "judging" /\ pc'[Service] = "choosing"
      /\ todo'[Service] = todo[Service] /\ UNCHANGED <<started, meanwhile>>
  BY ServiceIsCaller, JudgeMoves DEF Judge, history
<1>2. \A k \in Key : k # hand[Service] => queue'[k] = queue[k]
  BY DEF Judge, TypeInv, RecordInv, RecordTypes, Queue
<1>3. hand[Service] \in Key => ~Done(queue'[hand[Service]])
  <2>1. PICK s \in {"failed", "needs_repair"} :
           queue' = [queue EXCEPT ![hand[Service]] = Marked(@, s)]
    BY DEF Judge, Marked
  <2>2. hand[Service] \in Key => queue'[hand[Service]] = Marked(queue[hand[Service]], s)
    BY <2>1 DEF TypeInv, RecordInv, RecordTypes, Queue
  <2> QED BY <2>2, EntriesTyped DEF Marked, Done, Is, QueueEntry
<1>4. DoneHeard(Service)
  BY <1>1, <1>2, <1>3, NothingDone
<1> QED BY <1>1, <1>2, <1>3, <1>4, DoneAtHand DEF Launching, Holding, DoneMove

LEMMA DoneBegin ==
    ASSUME TypeInv, ServicePlace, NEW c \in Caller, DoneKnown(c),
           NEW k \in Key \cup {None}, Begin(c, k)
    PROVE  DoneMove(c)
<1>1. /\ queue' = queue /\ pc[c] = "idle" /\ pc'[c] = "pruning" /\ snap'[c] = queue
      /\ todo' = todo
  BY BeginMoves
<1>2. started' = started /\ \A d \in Caller \ {c} : meanwhile'[d] = meanwhile[d]
  BY DEF Begin, TypeInv, NotesTyped
<1>3. c = Service => todo[Service] = {} /\ started = {}
  BY <1>1 DEF ServicePlace, Launching
<1> QED BY <1>1, <1>2, <1>3, DoneRead DEF Launching

\* The service has no list, and has launched nothing, before it chooses.
LEMMA DoneReconcile ==
    ASSUME TypeInv, TypeInv', RaceInv, ServicePlace, NEW c \in Caller, DoneKnown(c),
           Reconcile(c)
    PROVE  DoneMove(c)
<1>1. c = Service => todo[Service] = {} /\ started' = {}
  BY DEF Reconcile, Prune, Inspect, Repair, ServicePlace, Launching
<1>2. CASE Prune(c)
  <2>1. /\ pc[c] = "pruning" /\ pc'[c] = "inspecting" /\ todo'[c] = todo[c]
        /\ WriteFile(c, snap[c])
    BY <1>2, PruneMoves DEF Prune
  <2> QED BY <1>1, <2>1, DoneWritten DEF Holding, Launching
<1>3. CASE Repair(c)
  <2>1. /\ pc[c] = "repairing" /\ pc'[c] \in {"choosing", "asking"} /\ WriteFile(c, snap[c])
        /\ c = Service => todo'[c] = {k \in Key : Drainable(snap[c][k])}
    BY <1>3, RepairMoves DEF Repair
  <2>2. c = Service => \A k \in todo'[Service] : ~Done(snap[c][k])
    BY <2>1 DEF Drainable, Is, Done
  <2> QED BY <1>1, <2>1, <2>2, DoneWritten DEF Holding, Launching
<1>4. CASE Inspect(c)
  <2>1. pc[c] = "inspecting" /\ pc'[c] = "repairing" /\ todo' = todo
    BY <1>4, InspectMoves
  <2>2. /\ queue' = [k \in Key |-> IF k \in Told THEN Marked(queue[k], Outcome(k)) ELSE queue[k]]
        /\ \A k \in Key : snap'[c][k] =
              IF Orphaned(k, queue'[k]) /\ k \notin Told THEN Marked(queue'[k], "needs_repair")
              ELSE queue'[k]
        /\ Note(c)
    BY <1>4 DEF Inspect, TypeInv, RecordInv, RecordTypes
  <2>3. DoneHeard(c)
    BY <2>2, NoteHeard
  <2>4. \A k \in Key : Done(queue'[k]) => Done(snap'[c][k])
    BY <2>2 DEF Done, Is, Orphaned
  <2>5. DoneKnown(c)'
    BY <1>1, <2>1, <2>4 DEF DoneKnown, Launching
  <2>6. ASSUME NEW k \in Key, Done(queue[k]), ~Done(queue'[k]) PROVE link[k] \in stray
    <3>1. link[k] # None
      BY <2>2, <2>6 DEF Told
    <3>2. link[k] \notin Kept
      BY <2>6 DEF RaceInv, KeptIsCalm, Calm, Done, Is
    <3>3. link[k] \in Run /\ runs[link[k]] # "none"
      BY <3>1, NoneIsNothing DEF TypeInv, RunsTyped
    <3> QED BY <3>2, <3>3 DEF Kept
  <2> QED BY <2>3, <2>5, <2>6 DEF DoneSafe, Reopened, DoneMove
<1> QED BY <1>2, <1>3, <1>4 DEF Reconcile

LEMMA DoneStarter ==
    ASSUME TypeInv, TypeInv', RaceInv, ServicePlace, NEW c \in Starter, DoneKnown(c),
           StarterGoesOn(c)
    PROVE  DoneMove(c)
<1>0. c \in Caller /\ c # Service
  BY ServiceIsCaller DEF Caller
<1>1. CASE AlreadyThere(c)
  <2>1. pc'[c] = "idle" /\ queue' = queue /\ Note(c)
    BY <1>0, <1>1, AlreadyThereMoves DEF AlreadyThere
  <2> QED BY <1>0, <2>1, NoteHeard DEF DoneMove, DoneSafe, DoneKnown, Holding, Launching
<1>2. CASE Intent(c)
  <2>1. /\ pc[c] = "asking" /\ pc'[c] = "intent" /\ hand'[c] = hand[c] /\ hand[c] \in Key
    BY <1>0, <1>2, IntentMoves DEF TypeInv, RecordInv
  <2>2. PICK entry \in Requested(queue[hand[c]]) : queue' = [queue EXCEPT ![hand[c]] = entry]
    BY <1>2 DEF Intent
  <2>3. ~Done(queue'[hand[c]])
    <3>1. PICK old : entry = [Request EXCEPT !.old = old]
      BY <2>2 DEF Requested
    <3> QED BY <2>1, <2>2, <3>1 DEF Request, Done, Is, TypeInv, RecordInv, RecordTypes, Queue
  <2>4. DoneKnown(c)'
    BY <1>0, <2>1, <2>3 DEF DoneKnown, Holding
  <2>5. DoneHeard(c)
    BY <1>0, <1>2, NoteHeard DEF Intent
  <2> QED BY <2>1, <2>4, <2>5 DEF DoneSafe, Reopened, DoneMove
<1>3. CASE NoSession(c) \/ Requeue(c)
  <2>1. pc'[c] = "enqueuing" /\ queue' = queue /\ meanwhile' = meanwhile
    BY <1>0, <1>3, ReadToEnqueueMoves DEF NoSession, Requeue, ReadToEnqueue, history
  <2> QED BY <1>0, <2>1, DoneRead DEF Launching
<1>4. CASE Enqueue(c)
  <2>1. pc[c] = "enqueuing" /\ pc'[c] = "idle" /\ Note(c)
    BY <1>0, <1>4, EnqueueMoves DEF Enqueue, WriteFile
  <2>2. DoneHeard(c) /\ DoneKnown(c)'
    BY <1>0, <2>1, NoteHeard DEF DoneKnown, Holding, Launching
  <2> QED BY <2>1, <2>2 DEF DoneSafe, Reopened, DoneMove
<1> QED BY <1>0, <1>1, <1>2, <1>3, <1>4, DoneReconcile, DoneLaunch DEF StarterGoesOn

\* The service reads a list of works, none of which it knows to be completed.
LEMMA DoneService ==
    ASSUME TypeInv, TypeInv', RaceInv, ServicePlace, DoneKnown(Service), ServiceStep
    PROVE  DoneMove(Service)
<1> USE ServiceIsCaller
<1>1. CASE Tick
  BY <1>1, DoneBegin DEF Tick
<1>2. ASSUME NEW k \in Key, Resume(k) PROVE DoneMove(Service)
  <2>1. /\ pc[Service] = "choosing" /\ pc'[Service] = "intent" /\ hand'[Service] = k
        /\ k \in todo[Service] /\ todo'[Service] \subseteq todo[Service] /\ queue' = queue
        /\ UNCHANGED <<started, meanwhile>>
    BY <1>2, ResumeMoves DEF Resume, history
  <2>2. \A j \in Key : Done(queue[j]) /\ j \notin meanwhile[Service] =>
            j \notin todo[Service] /\ j \notin started
    BY DEF DoneKnown
  <2> QED BY <2>1, <2>2, DoneRead DEF Holding
<1>3. ASSUME NEW k \in Key, PassOver(k) PROVE DoneMove(Service)
  <2>1. /\ pc[Service] = "choosing" /\ pc' = pc /\ todo'[Service] \subseteq todo[Service]
        /\ queue' = queue /\ UNCHANGED <<started, meanwhile>>
    BY <1>3, PassOverMoves DEF PassOver, history
  <2>2. \A j \in Key : Done(queue[j]) /\ j \notin meanwhile[Service] =>
            j \notin todo[Service] /\ j \notin started
    BY DEF DoneKnown
  <2> QED BY <2>1, <2>2, DoneRead DEF Holding, Launching
<1>4. ASSUME NEW k \in Key, GiveUp(k) PROVE DoneMove(Service)
  <2>1. /\ pc[Service] = "choosing" /\ pc' = pc /\ k \in todo[Service]
        /\ todo'[Service] = todo[Service] \ {k} /\ UNCHANGED <<started, meanwhile>>
        /\ \A j \in Key : j # k => queue'[j] = queue[j]
        /\ queue'[k] = Marked(queue[k], "failed")
    BY <1>4, GiveUpMoves DEF GiveUp, history, TypeInv, RecordInv, RecordTypes, Queue
  <2>2. ~Done(queue'[k])
    BY <2>1, EntriesTyped DEF Marked, Done, Is, QueueEntry
  <2>3. DoneHeard(Service)
    BY <2>1, <2>2, NothingDone
  <2>4. DoneKnown(Service)'
    BY <2>1, <2>2 DEF DoneKnown, Holding, Launching
  <2>5. k \in meanwhile[Service] \/ ~Done(queue[k])
    BY <2>1 DEF DoneKnown
  <2>6. GoesOn(Service)
    BY <2>1 DEF GoesOn
  <2> QED BY <2>1, <2>3, <2>4, <2>5, <2>6 DEF DoneSafe, Reopened, DoneMove
<1>5. CASE Drained
  <2>1. /\ pc'[Service] = "marking" /\ todo' = todo /\ todo[Service] = {} /\ queue' = queue
        /\ UNCHANGED <<started, meanwhile>>
    BY <1>5, DrainedMoves DEF Drained, history
  <2>2. \A j \in Key : j \notin started => snap'[Service][j] = queue[j]
    BY <1>5 DEF Drained, TypeInv, RecordInv, RecordTypes
  <2>3. \A j \in Key : Done(queue[j]) /\ j \notin meanwhile[Service] => j \notin started
    BY DEF DoneKnown
  <2> QED BY <2>1, <2>2, <2>3, DoneRead DEF Launching
<1>6. CASE Mark
  <2>1. /\ pc[Service] = "marking" /\ pc'[Service] \in {"sweeping", "choosing"}
        /\ todo'[Service] = {} /\ started' = {} /\ WriteFile(Service, snap[Service])
    BY <1>6, MarkMoves DEF Mark, ServicePlace, Launching
  <2> QED BY <2>1, DoneWritten DEF Holding, Launching
<1>7. CASE Rewrite
  <2>1. /\ pc[Service] = "rewriting" /\ pc'[Service] = "screening"
        /\ todo'[Service] = {} /\ started' = {} /\ WriteFile(Service, snap[Service])
    BY <1>7, RewriteMoves DEF Rewrite, ServicePlace, Launching
  <2> QED BY <2>1, DoneWritten DEF Holding, Launching
<1>8. CASE Sweep
  <2>1. /\ pc[Service] = "sweeping" /\ pc'[Service] \in {"recovering", "terminalizing"}
        /\ todo'[Service] = {k \in Key : Orphaned(k, queue[k])} /\ queue' = queue
        /\ UNCHANGED <<started, meanwhile>>
    BY <1>8, SweepMoves DEF Sweep, history
  <2>2. started = {} /\ \A k \in todo'[Service] : ~Done(queue[k])
    BY <2>1 DEF ServicePlace, Launching, Orphaned, Done, Is
  <2> QED BY <2>1, <2>2, DoneRead DEF Holding, Launching
<1>9. CASE Terminalize
  <2>1. /\ pc[Service] = "terminalizing" /\ pc'[Service] = "recovering" /\ todo'[Service] = {}
        /\ UNCHANGED <<started, meanwhile>>
    BY <1>9, TerminalizeMoves DEF Terminalize, history
  <2>2. \A k \in Key : /\ k \notin todo[Service] => queue'[k] = queue[k]
                       /\ k \in todo[Service] => queue'[k] = Marked(queue[k], "failed")
    BY <1>9 DEF Terminalize
  <2>3. \A k \in Key : k \in todo[Service] => ~Done(queue'[k])
    BY <2>2, EntriesTyped DEF Marked, Done, Is, QueueEntry
  <2>4. started = {}
    BY <2>1 DEF ServicePlace, Launching
  <2>5. DoneHeard(Service)
    BY <2>1, <2>2, <2>3, NothingDone
  <2>6. DoneKnown(Service)'
    BY <2>1, <2>4 DEF DoneKnown, Holding, Launching
  <2>7. \A k \in Key : Done(queue[k]) /\ k \in todo[Service] => k \in meanwhile[Service]
    BY DEF DoneKnown
  <2>8. GoesOn(Service)
    BY <2>1 DEF GoesOn
  <2> QED BY <2>2, <2>5, <2>6, <2>7, <2>8 DEF DoneSafe, Reopened, DoneMove
<1>10. CASE Recover
  <2>1. /\ pc[Service] = "recovering" /\ pc'[Service] \in {"screening", "rewriting"}
        /\ todo' = todo /\ queue' = queue /\ UNCHANGED <<started, meanwhile>>
    BY <1>10, RecoverMoves DEF Recover, history
  <2>2. todo[Service] = {} /\ started = {}
    BY <2>1 DEF ServicePlace, Launching
  <2>3. pc'[Service] = "rewriting" =>
           \A k \in Key : snap'[Service][k] =
              IF Stale(k, queue[k]) THEN Marked(queue[k], "needs_repair") ELSE queue[k]
    BY <1>10 DEF Recover, Goto, TypeInv, RecordInv, RecordTypes, PlaceTyped
  <2>4. pc'[Service] = "rewriting" =>
           \A k \in Key : Done(queue[k]) => Done(snap'[Service][k])
    BY <2>3 DEF Stale, Done, Is
  <2> QED BY <2>1, <2>2, <2>4, DoneRead DEF Holding, Launching
<1>11. CASE Screen
  <2>1. /\ pc[Service] = "screening" /\ pc'[Service] = "choosing" /\ meanwhile' = meanwhile
        /\ todo'[Service] = {k \in Key : Is(queue'[k], {"needs_repair", "degraded"})}
        /\ started' = started
    BY <1>11, ScreenMoves DEF Screen
  <2>2. started = {}
    BY <2>1 DEF ServicePlace, Launching
  <2>3. \A k \in Key : Done(queue'[k]) <=> Done(queue[k])
    <3>1. \A k \in Key : queue'[k] = Screened(k)
      BY <1>11 DEF Screen
    <3>2. ASSUME NEW k \in Key PROVE Done(Screened(k)) <=> Done(queue[k])
      <4>1. CASE k \in Over /\ queue[k] = None
        <5>1. Screened(k).status = "needs_repair"
          BY <4>1 DEF Screened, Is
        <5> QED BY <4>1, <5>1 DEF Done, Is
      <4>2. CASE k \in Over /\ Is(queue[k], {"running", "launching"})
        <5>1. queue[k] # None /\ Screened(k) = Marked(queue[k], "needs_repair")
          BY <4>2 DEF Screened, Is
        <5>2. Screened(k).status = "needs_repair"
          BY <5>1, EntriesTyped DEF Marked, QueueEntry
        <5> QED BY <4>2, <5>2 DEF Done, Is
      <4>3. CASE /\ ~ (k \in Over /\ queue[k] = None)
                 /\ ~ (k \in Over /\ Is(queue[k], {"running", "launching"}))
        BY <4>3 DEF Screened
      <4> QED BY <4>1, <4>2, <4>3
    <3> QED BY <3>1, <3>2
  <2>4. DoneHeard(Service)
    BY <2>1, <2>3, NothingDone
  <2>5. DoneKnown(Service)'
    BY <2>1, <2>2 DEF DoneKnown, Holding, Launching, Done, Is
  <2> QED BY <2>3, <2>4, <2>5 DEF DoneSafe, DoneMove
<1>12. CASE TickEnds
  <2>1. /\ pc'[Service] = "idle" /\ todo'[Service] = {} /\ queue' = queue /\ Note(Service)
        /\ phase = "replay" /\ started' = started
    BY <1>12, TickEndsMoves DEF TickEnds
  <2>2. started = {}
    BY <2>1 DEF ServicePlace
  <2>3. DoneKnown(Service)'
    BY <2>1, <2>2 DEF DoneKnown, Holding, Launching
  <2> QED BY <2>1, <2>3, NoteHeard DEF DoneSafe, DoneMove
<1> QED BY <1>1, <1>2, <1>3, <1>4, <1>5, <1>6, <1>7, <1>8, <1>9, <1>10, <1>11, <1>12,
           DoneReconcile, DoneLaunch, DoneJudge DEF ServiceStep

LEMMA ServiceIsAlone == ASSUME TypeInv, ServiceStep PROVE OthersWait(Service)
<1> USE ServiceIsCaller
<1>1. ASSUME Tick \/ Reconcile(Service) PROVE OthersWait(Service)
  BY <1>1, BeginMoves, PruneMoves, InspectMoves, RepairMoves DEF Tick, Reconcile, CallerMoves
<1>2. ASSUME Launch(Service) PROVE OthersWait(Service)
  BY <1>2, PatchLaunchingMoves, SpawnMoves, PatchRunningMoves, LinkMoves, DegradeMoves
     DEF Launch, CallerMoves
<1>3. ASSUME NEW k \in Key, Resume(k) \/ PassOver(k) \/ GiveUp(k) PROVE OthersWait(Service)
  BY <1>3, ResumeMoves, PassOverMoves, GiveUpMoves DEF CallerMoves
<1>4. ASSUME Judge \/ Drained \/ Mark \/ Sweep \/ Terminalize PROVE OthersWait(Service)
  BY <1>4, JudgeMoves, DrainedMoves, MarkMoves, SweepMoves, TerminalizeMoves DEF CallerMoves
<1>5. ASSUME Recover \/ Rewrite \/ Screen \/ TickEnds PROVE OthersWait(Service)
  BY <1>5, RecoverMoves, RewriteMoves, ScreenMoves, TickEndsMoves DEF CallerMoves
<1> QED BY <1>1, <1>2, <1>3, <1>4, <1>5 DEF ServiceStep

\* A step of no caller opens nothing, and completes nothing.
LEMMA DoneStands ==
    ASSUME NobodyMoves, UNCHANGED meanwhile,
           \A k \in Key : Done(queue'[k]) <=> Done(queue[k]),
           \A c \in Caller : \A k \in Key : Done(snap[c][k]) => Done(snap'[c][k]),
           \A c \in Caller : DoneKnown(c)
    PROVE  DoneSafe /\ \A c \in Caller : DoneKnown(c)'
BY DEF NobodyMoves, DoneSafe, DoneKnown

LEMMA AgedAlike ==
    ASSUME TypeInv, NEW k \in Key, Age(k)
    PROVE  /\ \A j \in Key : queue'[j] \in {queue[j], Aged(queue[j])}
           /\ \A c \in Caller : \A j \in Key : snap'[c][j] \in {snap[c][j], Aged(snap[c][j])}
           /\ \A e \in QueueEntry \cup {None} :
                 /\ Done(Aged(e)) <=> Done(e)
                 /\ Fresh(Aged(e)) <=> Fresh(e)
                 /\ Is(Aged(e), {"failed"}) <=> Is(e, {"failed"})
                 /\ Exhausted(Aged(e)) <=> Exhausted(e)
<1>1. /\ \A j \in Key : queue'[j] \in {queue[j], Aged(queue[j])}
      /\ \A c \in Caller : \A j \in Key : snap'[c][j] \in {snap[c][j], Aged(snap[c][j])}
  BY DEF Age, TypeInv, RecordInv, RecordTypes, Queue
<1>2. ASSUME NEW e \in QueueEntry
      PROVE  /\ Aged(e) # None /\ Aged(e).status = e.status
             /\ Aged(e).launched = e.launched /\ Aged(e).attempts = e.attempts
  BY EntryTypes, NoneAssumption DEF Aged, QueueEntry
<1>3. Aged(None) = None
  BY DEF Aged, Young
<1>4. ASSUME NEW e \in QueueEntry \cup {None}
      PROVE  /\ Done(Aged(e)) <=> Done(e)
             /\ Fresh(Aged(e)) <=> Fresh(e)
             /\ Is(Aged(e), {"failed"}) <=> Is(e, {"failed"})
             /\ Exhausted(Aged(e)) <=> Exhausted(e)
  BY <1>2, <1>3, NoneAssumption DEF Done, Fresh, Is, Exhausted
<1> QED BY <1>1, <1>4

LEMMA DoneStep ==
    ASSUME TypeInv, TypeInv', RaceInv, ServicePlace, \A c \in Caller : DoneKnown(c),
           [QueueNext]_queueVars
    PROVE  DoneSafe /\ \A c \in Caller : DoneKnown(c)'
<1> DEFINE Goal == DoneSafe /\ \A c \in Caller : DoneKnown(c)'
<1>1. ASSUME NEW c \in Caller, OthersWait(c), DoneMove(c), c # Service => UNCHANGED started
      PROVE  Goal
  BY <1>1, OthersKnow DEF DoneMove
<1>2. ASSUME NEW c \in Starter, (\E k \in Key : Ask(c, k)) \/ StarterGoesOn(c)
      PROVE  Goal
  <2>1. c \in Caller /\ OthersWait(c) /\ UNCHANGED started
    BY <1>2, StarterIsAlone
  <2>2. DoneMove(c)
    BY <1>2, <2>1, DoneBegin, DoneStarter DEF Ask
  <2> QED BY <1>1, <2>1, <2>2
<1>3. ASSUME NEW c \in Caller, LaunchFails(c) PROVE Goal
  BY <1>1, <1>3, LaunchFailsMoves, DoneLaunch DEF LaunchFails
<1>4. CASE ServiceStep
  <2>1. OthersWait(Service)
    BY <1>4, ServiceIsAlone
  <2> QED BY <1>1, <1>4, <2>1, DoneService, ServiceIsCaller
<1>5. CASE \/ UNCHANGED queueVars
           \/ \E r \in Run : RunEnds(r)
           \/ \E k \in Key : LoseTrack(k)
  <2>1. NobodyMoves /\ UNCHANGED <<queue, snap, meanwhile>>
    BY <1>5, RunEndsMoves, LoseTrackMoves
       DEF queueVars, callVars, history, NobodyMoves, RunEnds, LoseTrack
  <2> QED BY <2>1, DoneStands
<1>6. ASSUME NEW k \in Key, Age(k) PROVE Goal
  <2>1. NobodyMoves /\ UNCHANGED meanwhile
    BY <1>6, AgeMoves DEF Age, history
  <2>2. /\ \A j \in Key : Done(queue'[j]) <=> Done(queue[j])
        /\ \A c \in Caller : \A j \in Key : Done(snap[c][j]) => Done(snap'[c][j])
    BY <1>6, AgedAlike, EntriesTyped
  <2> QED BY <2>1, <2>2, DoneStands
<1> QED BY <1>2, <1>3, <1>4, <1>5, <1>6 DEF QueueNext

LEMMA DoneInvInit == ASSUME QueueInit PROVE ServicePlace /\ \A c \in Caller : DoneKnown(c)
BY ServiceIsCaller DEF QueueInit, ServicePlace, DoneKnown, Done, Is, Holding, Launching

\* What is known of completed works, everywhere.
DoneInv == TypeInv /\ RaceInv /\ ServicePlace /\ \A c \in Caller : DoneKnown(c)

LEMMA DoneInvStep ==
    DoneInv /\ [QueueNext]_queueVars => DoneInv' /\ DoneSafe
<1> SUFFICES ASSUME DoneInv, [QueueNext]_queueVars PROVE DoneInv' /\ DoneSafe
  OBVIOUS
<1>1. TypeInv' /\ RaceInv'
  BY TypeInvStep, RaceInvStep DEF DoneInv
<1>2. ServicePlace'
  <2>1. CASE UNCHANGED queueVars
    BY <2>1 DEF queueVars, callVars, DoneInv, ServicePlace
  <2> QED BY <2>1, PlaceStep DEF DoneInv
<1> QED BY <1>1, <1>2, DoneStep DEF DoneInv

\* A completed entry is opened again by a new request, by who was under way when it was
\* completed, or through a run that had a race, and by nothing else (the pruning, the
\* reconciliation, the drain and the passes that write the queue back).
THEOREM DoneStaysDoneHolds == QueueSpec => DoneStaysDone
<1>1. QueueInit => DoneInv
  BY TypeInvInit, RaceInvInit, DoneInvInit DEF DoneInv
<1>2. DoneSafe =>
        [\A k \in Key : Is(queue[k], {"completed"}) /\ ~Is(queue'[k], {"completed"}) =>
            \/ \E c \in Starter : pc[c] \in {"asking", "enqueuing"} /\ pc'[c] # pc[c]
            \/ \E c \in Caller : GoesOn(c) /\ k \in meanwhile[c]
            \/ link[k] \in stray]_queueVars
  BY DEF DoneSafe, Done, Reopened
<1> QED BY <1>1, <1>2, DoneInvStep, PTL DEF QueueSpec, DoneStaysDone

-----------------------------------------------------------------------------
\* Fresh work gets a try. The service fails a work that it tried to launch, that should
\* have a run and has none, or whose attempts are used up: none of this is true of a
\* fresh one, unless it has become fresh since the service began.

FreshKnown ==
    \A k \in Key : Fresh(queue[k]) /\ k \notin meanwhile[Service] =>
        /\ pc[Service] \in Launching \ {"intent"} => hand[Service] # k
        /\ pc[Service] = "terminalizing" => k \notin todo[Service]
        /\ phase = "replay" /\ k \in todo[Service] => ~Exhausted(snap[Service][k])

\* The service has noted what others make fresh.
FreshHeard ==
    pc'[Service] # "idle" =>
        \A k \in Key : Fresh(queue'[k]) /\ k \notin meanwhile'[Service] =>
            Fresh(queue[k]) /\ k \notin meanwhile[Service]

GivenUp(k) ==
    \/ \E c \in Caller : GoesOn(c) /\ (k \in meanwhile[c] \/ Is(snap[c][k], {"failed"}))
    \/ link[k] # None

FreshSafe == \A k \in Key : Fresh(queue[k]) /\ Is(queue'[k], {"failed"}) => GivenUp(k)

LEMMA NothingFails ==
    ASSUME \A k \in Key : queue'[k] = queue[k] \/ ~Is(queue'[k], {"failed"})
    PROVE  FreshSafe
BY DEF FreshSafe, Fresh, Is

LEMMA NoteFresh ==
    ASSUME NEW c \in Caller, c # Service, Note(c)
    PROVE  FreshHeard
BY ServiceIsCaller DEF Note, FreshHeard

LEMMA NothingFresh ==
    ASSUME meanwhile'[Service] = meanwhile[Service],
           \A k \in Key : Fresh(queue'[k]) => Fresh(queue[k])
    PROVE  FreshHeard
BY DEF FreshHeard

\* What a caller fails by writing back what it holds, it has read as failed.
LEMMA FailedAsRead ==
    ASSUME NEW c \in Caller, WriteFile(c, snap[c]), pc'[c] # pc[c]
    PROVE  FreshSafe
BY DEF WriteFile, FreshSafe, GivenUp, GoesOn

LEMMA FreshReconcile ==
    ASSUME TypeInv, NEW c \in Caller, Reconcile(c)
    PROVE  FreshSafe /\ (c # Service => FreshHeard)
<1>1. CASE Prune(c) \/ Repair(c)
  <2>1. WriteFile(c, snap[c]) /\ pc'[c] # pc[c]
    BY <1>1, PruneMoves, RepairMoves DEF Prune, Repair
  <2> QED BY <2>1, FailedAsRead, NoteFresh DEF WriteFile
<1>2. CASE Inspect(c)
  <2>1. Note(c) /\ \A k \in Key : k \notin Told => queue'[k] = queue[k]
    BY <1>2 DEF Inspect
  <2>2. FreshSafe
    BY <2>1 DEF FreshSafe, GivenUp, Told, Fresh, Is
  <2> QED BY <2>1, <2>2, NoteFresh
<1> QED BY <1>1, <1>2 DEF Reconcile

\* The step leaves or makes no fresh work of the one in the caller's hand, and fails none.
LEMMA LaunchPatches ==
    ASSUME TypeInv, NEW c \in Caller, Launch(c) \/ LaunchFails(c)
    PROVE  /\ \A k \in Key : k # hand[c] => queue'[k] = queue[k]
           /\ \/ queue' = queue /\ pc[c] # "intent"
              \/ hand[c] \in Key => /\ ~Fresh(queue'[hand[c]])
                                    /\ ~Is(queue'[hand[c]], {"failed"})
<1>1. CASE PatchLaunching(c)
  BY <1>1 DEF PatchLaunching, TypeInv, RecordInv, RecordTypes, Queue, Fresh, Is
<1>2. CASE Spawn(c) \/ Link(c) \/ LaunchFails(c)
  BY <1>2 DEF Spawn, Link, LaunchFails
<1>3. ASSUME NEW s \in {"running", "degraded"}, queue' = [queue EXCEPT ![hand[c]] = Marked(@, s)]
      PROVE  /\ \A k \in Key : k # hand[c] => queue'[k] = queue[k]
             /\ hand[c] \in Key => ~Fresh(queue'[hand[c]]) /\ ~Is(queue'[hand[c]], {"failed"})
  <2>1. /\ \A k \in Key : k # hand[c] => queue'[k] = queue[k]
        /\ hand[c] \in Key => queue'[hand[c]] = Marked(queue[hand[c]], s)
    BY <1>3 DEF TypeInv, RecordInv, RecordTypes, Queue
  <2>2. ASSUME NEW e \in QueueEntry \cup {None}
        PROVE  ~Fresh(Marked(e, s)) /\ ~Is(Marked(e, s), {"failed"})
    BY DEF Marked, Fresh, Is, QueueEntry
  <2> QED BY <2>1, <2>2, EntriesTyped
<1>4. CASE PatchRunning(c) \/ Degrade(c)
  BY <1>3, <1>4 DEF PatchRunning, Degrade
<1> QED BY <1>1, <1>2, <1>4 DEF Launch

LEMMA FreshLaunch ==
    ASSUME TypeInv, NEW c \in Caller, Launch(c) \/ LaunchFails(c)
    PROVE  FreshSafe /\ (c # Service => FreshHeard)
<1>1. FreshSafe
  BY LaunchPatches, NothingFails
<1>2. ASSUME c # Service PROVE FreshHeard
  <2>1. CASE Link(c) \/ Degrade(c)
    BY <1>2, <2>1, NoteFresh DEF Link, Degrade
  <2>2. CASE PatchLaunching(c) \/ Spawn(c) \/ PatchRunning(c) \/ LaunchFails(c)
    <3>1. meanwhile' = meanwhile
      BY <2>2 DEF PatchLaunching, Spawn, PatchRunning, LaunchFails, history
    <3>2. \A k \in Key : Fresh(queue'[k]) => Fresh(queue[k])
      BY LaunchPatches
    <3> QED BY <3>1, <3>2, NothingFresh
  <2> QED BY <2>1, <2>2 DEF Launch
<1> QED BY <1>1, <1>2

LEMMA FreshStarter ==
    ASSUME TypeInv, NEW c \in Starter, (\E k \in Key : Ask(c, k)) \/ StarterGoesOn(c)
    PROVE  FreshSafe /\ FreshHeard
<1>0. c \in Caller /\ c # Service
  BY ServiceIsCaller DEF Caller
<1>1. CASE \E k \in Key : Ask(c, k)
  <2>1. queue' = queue /\ meanwhile'[Service] = meanwhile[Service]
    BY <1>0, <1>1 DEF Ask, Begin, TypeInv, NotesTyped
  <2> QED BY <2>1, NothingFails, NothingFresh
<1>2. CASE AlreadyThere(c)
  BY <1>0, <1>2, NothingFails, NoteFresh DEF AlreadyThere
<1>3. CASE Intent(c)
  <2>1. PICK entry \in Requested(queue[hand[c]]) : queue' = [queue EXCEPT ![hand[c]] = entry]
    BY <1>3 DEF Intent
  <2>2. ~Is(entry, {"failed"})
    <3>1. PICK old : entry = [Request EXCEPT !.old = old]
      BY <2>1 DEF Requested
    <3> QED BY <3>1 DEF Request, Is
  <2>3. \A k \in Key : queue'[k] = queue[k] \/ queue'[k] = entry
    BY <2>1 DEF TypeInv, RecordInv, RecordTypes, Queue
  <2> QED BY <1>0, <1>3, <2>2, <2>3, NothingFails, NoteFresh DEF Intent
<1>4. CASE NoSession(c) \/ Requeue(c)
  <2>1. queue' = queue /\ meanwhile' = meanwhile
    BY <1>4 DEF NoSession, Requeue, ReadToEnqueue, history
  <2> QED BY <2>1, NothingFails, NothingFresh
<1>5. CASE Enqueue(c)
  <2>1. pc'[c] # pc[c] /\ Note(c)
    BY <1>0, <1>5, EnqueueMoves DEF Enqueue, WriteFile
  <2>2. \A k \in Key : queue'[k] = snap[c][k] \/ ~Is(queue'[k], {"failed"})
    <3>1. queue' = snap[c] \/ queue' = [snap[c] EXCEPT ![hand[c]] = Request]
      BY <1>5 DEF Enqueue, WriteFile
    <3>2. ~Is(Request, {"failed"})
      BY DEF Request, Is
    <3> QED BY <1>0, <3>1, <3>2 DEF TypeInv, RecordInv, RecordTypes, Queue
  <2>3. FreshSafe
    BY <1>0, <2>1, <2>2 DEF FreshSafe, GivenUp, GoesOn
  <2> QED BY <1>0, <2>1, <2>3, NoteFresh
<1> QED BY <1>0, <1>1, <1>2, <1>3, <1>4, <1>5, FreshReconcile, FreshLaunch DEF StarterGoesOn

\* Others make fresh only what the service notes.
LEMMA FreshOther ==
    ASSUME ServicePlace, FreshKnown, NEW c \in Caller, c # Service, OthersWait(c), FreshHeard,
           UNCHANGED phase
    PROVE  FreshKnown'
<1>1. /\ pc'[Service] = pc[Service] /\ hand'[Service] = hand[Service]
      /\ todo'[Service] = todo[Service] /\ snap'[Service] = snap[Service]
  BY ServiceIsCaller DEF OthersWait
<1>2. CASE pc[Service] = "idle"
  BY <1>1, <1>2 DEF ServicePlace, FreshKnown, Launching
<1>3. CASE pc[Service] # "idle"
  BY <1>1, <1>3 DEF FreshHeard, FreshKnown
<1> QED BY <1>2, <1>3

LEMMA FreshOwnLaunch ==
    ASSUME TypeInv, ServicePlace, FreshKnown, Launch(Service) \/ LaunchFails(Service)
    PROVE  FreshKnown'
<1> USE ServiceIsCaller
<1>1. /\ \A k \in Key : k # hand[Service] => queue'[k] = queue[k]
      /\ \/ queue' = queue /\ pc[Service] # "intent"
         \/ hand[Service] \in Key => ~Fresh(queue'[hand[Service]])
  BY LaunchPatches
<1>2. pc[Service] \in Launching
  BY DEF Launch, PatchLaunching, Spawn, PatchRunning, Link, Degrade, LaunchFails, Launching
<1>3. /\ phase' = phase /\ todo'[Service] = todo[Service] /\ snap'[Service] = snap[Service]
      /\ pc'[Service] \in Launching \cup {"choosing"}
      /\ pc'[Service] \in Launching => hand'[Service] = hand[Service]
  <2>1. CASE PatchLaunching(Service) \/ Spawn(Service) \/ PatchRunning(Service)
    BY <2>1, PatchLaunchingMoves, SpawnMoves, PatchRunningMoves
       DEF PatchLaunching, Spawn, PatchRunning, Launching
  <2>2. CASE Link(Service)
    BY <2>2, LinkMoves DEF Link, Launching
  <2>3. CASE Degrade(Service)
    BY <2>3, DegradeMoves DEF Degrade, Launching
  <2>4. CASE LaunchFails(Service)
    BY <2>4, LaunchFailsMoves DEF LaunchFails, Launching
  <2> QED BY <2>1, <2>2, <2>3, <2>4 DEF Launch
<1>4. meanwhile'[Service] = meanwhile[Service]
  <2>1. CASE Link(Service) \/ Degrade(Service)
    BY <1>3, <2>1, NoteHeard DEF Link, Degrade, Launching
  <2>2. CASE PatchLaunching(Service) \/ Spawn(Service) \/ PatchRunning(Service)
                \/ LaunchFails(Service)
    BY <2>2 DEF PatchLaunching, Spawn, PatchRunning, LaunchFails, history
  <2> QED BY <2>1, <2>2 DEF Launch
<1>5. ASSUME NEW k \in Key, Fresh(queue'[k]), k \notin meanwhile'[Service]
      PROVE  /\ pc'[Service] \in Launching \ {"intent"} => hand'[Service] # k
             /\ pc'[Service] = "terminalizing" => k \notin todo'[Service]
             /\ phase' = "replay" /\ k \in todo'[Service] => ~Exhausted(snap'[Service][k])
  <2>1. Fresh(queue[k]) /\ k \notin meanwhile[Service]
    BY <1>1, <1>4, <1>5
  <2>2. hand[Service] # k
    BY <1>1, <1>2, <1>5, <2>1 DEF FreshKnown
  <2> QED BY <1>3, <2>1, <2>2 DEF FreshKnown, Launching
<1> QED BY <1>5 DEF FreshKnown

\* Where the service has no list to replay or to fail, and launches nothing.
LEMMA FreshElsewhere ==
    ASSUME phase' # "replay", pc'[Service] \notin Launching \cup {"terminalizing"}
    PROVE  FreshKnown'
BY DEF FreshKnown

\* The service's list gets shorter.
LEMMA FreshShorter ==
    ASSUME FreshKnown, pc[Service] = "choosing", pc'[Service] \in {"choosing", "intent"},
           phase' = phase, meanwhile' = meanwhile, todo'[Service] \subseteq todo[Service],
           snap' = snap,
           \A k \in Key : Fresh(queue'[k]) => Fresh(queue[k])
    PROVE  FreshKnown'
BY DEF FreshKnown, Launching

LEMMA FreshService ==
    ASSUME TypeInv, RaceInv, ServicePlace, AllSane, AllSane', FreshKnown, ServiceStep
    PROVE  FreshSafe /\ FreshKnown'
<1> USE ServiceIsCaller
<1>1. CASE Tick
  <2>1. /\ queue' = queue /\ pc[Service] = "idle" /\ pc'[Service] = "pruning" /\ phase' = phase
    BY <1>1, BeginMoves DEF Tick, Begin
  <2>2. phase # "replay"
    BY <2>1 DEF ServicePlace, Launching
  <2> QED BY <2>1, <2>2, NothingFails, FreshElsewhere DEF Launching
<1>2. CASE Reconcile(Service)
  <2>1. /\ pc[Service] \in {"pruning", "inspecting", "repairing"} /\ phase' = phase
        /\ pc'[Service] \in {"inspecting", "repairing", "choosing"}
    BY <1>2, PruneMoves, InspectMoves, RepairMoves DEF Reconcile, Prune, Inspect, Repair
  <2>2. phase # "replay"
    BY <2>1 DEF ServicePlace, Launching
  <2> QED BY <1>2, <2>1, <2>2, FreshReconcile, FreshElsewhere DEF Launching
<1>3. CASE Launch(Service)
  BY <1>3, FreshLaunch, FreshOwnLaunch
<1>4. ASSUME NEW k \in Key, Resume(k) \/ PassOver(k) PROVE FreshSafe /\ FreshKnown'
  <2>1. /\ queue' = queue /\ snap' = snap /\ phase' = phase /\ meanwhile' = meanwhile
        /\ pc[Service] = "choosing" /\ pc'[Service] \in {"choosing", "intent"}
        /\ todo'[Service] \subseteq todo[Service]
    BY <1>4, ResumeMoves, PassOverMoves DEF Resume, PassOver, history
  <2> QED BY <2>1, NothingFails, FreshShorter
<1>5. ASSUME NEW k \in Key, GiveUp(k) PROVE FreshSafe /\ FreshKnown'
  <2>1. /\ pc[Service] = "choosing" /\ pc' = pc /\ snap' = snap /\ k \in todo[Service]
        /\ phase = "replay" /\ phase' = phase /\ meanwhile' = meanwhile
        /\ todo'[Service] = todo[Service] \ {k} /\ Exhausted(snap[Service][k])
        /\ \A j \in Key : j # k => queue'[j] = queue[j]
        /\ queue'[k] = Marked(queue[k], "failed")
    BY <1>5, GiveUpMoves DEF GiveUp, history, TypeInv, RecordInv, RecordTypes, Queue
  <2>2. ~Fresh(queue'[k])
    BY <2>1, EntriesTyped DEF Marked, Fresh, QueueEntry
  <2>3. FreshKnown'
    BY <2>1, <2>2, FreshShorter
  <2>4. Fresh(queue[k]) => k \in meanwhile[Service]
    BY <2>1 DEF FreshKnown
  <2>5. GoesOn(Service)
    BY <2>1 DEF GoesOn
  <2> QED BY <2>1, <2>3, <2>4, <2>5 DEF FreshSafe, GivenUp, Fresh, Is
<1>6. CASE Judge
  <2>1. /\ pc[Service] = "judging" /\ pc'[Service] = "choosing" /\ phase' = phase
        /\ meanwhile' = meanwhile /\ todo'[Service] = todo[Service]
        /\ snap'[Service] = snap[Service]
        /\ \A k \in Key : k # hand[Service] => queue'[k] = queue[k]
    BY <1>6, JudgeMoves DEF Judge, history, TypeInv, RecordInv, RecordTypes, Queue
  <2>2. hand[Service] \notin todo[Service]
    BY <2>1 DEF RaceInv, ToDoFree, Busy
  <2>3. FreshKnown'
    BY <2>1, <2>2 DEF FreshKnown, Launching
  <2>4. \A k \in Key : Fresh(queue[k]) /\ k = hand[Service] => k \in meanwhile[Service]
    BY <2>1 DEF FreshKnown, Launching
  <2>5. GoesOn(Service)
    BY <2>1 DEF GoesOn
  <2> QED BY <2>1, <2>3, <2>4, <2>5 DEF FreshSafe, GivenUp, Fresh, Is
<1>7. CASE Drained
  <2>1. queue' = queue /\ pc'[Service] = "marking" /\ phase = "drain" /\ phase' = phase
    BY <1>7, DrainedMoves DEF Drained
  <2> QED BY <2>1, NothingFails, FreshElsewhere DEF Launching
<1>8. CASE Mark \/ Rewrite
  <2>1. /\ WriteFile(Service, snap[Service]) /\ phase' = phase
        /\ pc[Service] \in {"marking", "rewriting"}
        /\ pc'[Service] \in {"sweeping", "choosing", "screening"} /\ pc'[Service] # pc[Service]
    BY <1>8, MarkMoves, RewriteMoves DEF Mark, Rewrite
  <2>2. phase # "replay"
    BY <2>1 DEF ServicePlace, Launching
  <2> QED BY <2>1, <2>2, FailedAsRead, FreshElsewhere DEF Launching
<1>9. CASE Sweep
  <2>1. /\ queue' = queue /\ pc[Service] = "sweeping" /\ phase' = phase
        /\ pc'[Service] \in {"recovering", "terminalizing"}
        /\ todo'[Service] = {k \in Key : Orphaned(k, queue[k])}
    BY <1>9, SweepMoves DEF Sweep
  <2>2. phase # "replay"
    BY <2>1 DEF ServicePlace, Launching
  <2>3. \A k \in todo'[Service] : ~Fresh(queue[k])
    BY <2>1 DEF AllSane, Sane, Orphaned, Fresh, Is
  <2>4. FreshKnown'
    BY <2>1, <2>2, <2>3 DEF FreshKnown, Launching
  <2> QED BY <2>1, <2>4, NothingFails
<1>10. CASE Terminalize
  <2>1. /\ pc[Service] = "terminalizing" /\ pc'[Service] = "recovering" /\ phase' = phase
        /\ \A k \in Key : k \notin todo[Service] => queue'[k] = queue[k]
    BY <1>10, TerminalizeMoves DEF Terminalize
  <2>2. phase # "replay"
    BY <2>1 DEF ServicePlace, Launching
  <2>3. \A k \in Key : Fresh(queue[k]) /\ k \in todo[Service] => k \in meanwhile[Service]
    BY <2>1 DEF FreshKnown
  <2>4. GoesOn(Service)
    BY <2>1 DEF GoesOn
  <2>5. FreshSafe
    BY <2>1, <2>3, <2>4 DEF FreshSafe, GivenUp, Fresh, Is
  <2> QED BY <2>1, <2>2, <2>5, FreshElsewhere DEF Launching
<1>11. CASE Recover
  <2>1. /\ queue' = queue /\ pc[Service] = "recovering" /\ phase' = phase
        /\ pc'[Service] \in {"screening", "rewriting"}
    BY <1>11, RecoverMoves DEF Recover
  <2>2. phase # "replay"
    BY <2>1 DEF ServicePlace, Launching
  <2> QED BY <2>1, <2>2, NothingFails, FreshElsewhere DEF Launching
<1>12. CASE Screen
  <2>1. /\ pc'[Service] = "choosing" /\ snap'[Service] = queue'
        /\ \A k \in Key : queue'[k] = Screened(k)
    BY <1>12, ScreenMoves DEF Screen
  <2>2. FreshSafe
    <3>1. ASSUME NEW k \in Key, Fresh(queue[k]), Is(Screened(k), {"failed"}) PROVE FALSE
      <4>1. CASE k \in Over /\ Is(queue[k], {"running", "launching"})
        <5>1. queue[k] # None /\ Screened(k) = Marked(queue[k], "needs_repair")
          BY <4>1 DEF Screened, Is
        <5>2. Screened(k).status = "needs_repair"
          BY <5>1, EntriesTyped DEF Marked, QueueEntry
        <5> QED BY <3>1, <5>2 DEF Is
      <4>2. CASE ~ (k \in Over /\ Is(queue[k], {"running", "launching"}))
        <5>1. queue[k] # None
          BY <3>1 DEF Fresh
        <5>2. Screened(k) = queue[k]
          BY <4>2, <5>1 DEF Screened
        <5> QED BY <3>1, <5>2 DEF Fresh, Is
      <4> QED BY <4>1, <4>2
    <3> QED BY <2>1, <3>1 DEF FreshSafe
  <2>3. \A k \in Key : Fresh(queue'[k]) => ~Exhausted(queue'[k])
    BY QueueAssumption DEF AllSane, Sane, Fresh, Exhausted
  <2>4. FreshKnown'
    BY <2>1, <2>3 DEF FreshKnown, Launching
  <2> QED BY <2>2, <2>4
<1>13. CASE TickEnds
  <2>1. queue' = queue /\ pc'[Service] = "idle" /\ phase' = "drain"
    BY <1>13, TickEndsMoves DEF TickEnds
  <2> QED BY <2>1, NothingFails, FreshElsewhere DEF Launching
<1> QED BY <1>1, <1>2, <1>3, <1>4, <1>5, <1>6, <1>7, <1>8, <1>9, <1>10, <1>11, <1>12, <1>13
           DEF ServiceStep

LEMMA FreshStep ==
    ASSUME TypeInv, RaceInv, ServicePlace, AllSane, FreshKnown, [QueueNext]_queueVars
    PROVE  AllSane' /\ FreshSafe /\ FreshKnown'
<1>1. AllSane'
  <2>1. CASE UNCHANGED queueVars
    BY <2>1 DEF queueVars, callVars, AllSane
  <2> QED BY <2>1, SaneStep
<1>2. ASSUME NEW c \in Starter, (\E k \in Key : Ask(c, k)) \/ StarterGoesOn(c)
      PROVE  FreshSafe /\ FreshKnown'
  BY <1>2, StarterIsAlone, FreshStarter, FreshOther
<1>3. ASSUME NEW c \in Caller, LaunchFails(c) PROVE FreshSafe /\ FreshKnown'
  <2>1. CASE c = Service
    BY <1>3, <2>1, FreshLaunch, FreshOwnLaunch
  <2>2. CASE c # Service
    BY <1>3, <2>2, FreshLaunch, LaunchFailsMoves, FreshOther DEF LaunchFails
  <2> QED BY <2>1, <2>2
<1>4. CASE ServiceStep
  BY <1>1, <1>4, FreshService
<1>5. CASE \/ UNCHANGED queueVars
           \/ \E r \in Run : RunEnds(r)
           \/ \E k \in Key : LoseTrack(k)
  <2>1. NobodyMoves /\ UNCHANGED <<queue, snap, meanwhile>>
    BY <1>5, RunEndsMoves, LoseTrackMoves
       DEF queueVars, callVars, history, NobodyMoves, RunEnds, LoseTrack
  <2> QED BY <1>1, <2>1, NothingFails DEF NobodyMoves, FreshKnown
<1>6. ASSUME NEW k \in Key, Age(k) PROVE FreshSafe /\ FreshKnown'
  <2>1. NobodyMoves /\ UNCHANGED meanwhile
    BY <1>6, AgeMoves DEF Age, history
  <2>2. /\ \A j \in Key : /\ Fresh(queue'[j]) <=> Fresh(queue[j])
                          /\ Is(queue'[j], {"failed"}) <=> Is(queue[j], {"failed"})
        /\ \A j \in Key : Exhausted(snap[Service][j]) <=> Exhausted(snap'[Service][j])
    BY <1>6, AgedAlike, EntriesTyped, ServiceIsCaller
  <2>3. FreshSafe
    BY <2>2 DEF FreshSafe, Fresh, Is
  <2> QED BY <2>1, <2>2, <2>3 DEF NobodyMoves, FreshKnown
<1> QED BY <1>1, <1>2, <1>3, <1>4, <1>5, <1>6 DEF QueueNext

LEMMA FreshInvInit == ASSUME QueueInit PROVE ServicePlace /\ AllSane /\ FreshKnown
BY ServiceIsCaller DEF QueueInit, ServicePlace, AllSane, Sane, FreshKnown, Fresh, Launching

\* What is known of fresh works.
FreshInv == TypeInv /\ RaceInv /\ ServicePlace /\ AllSane /\ FreshKnown

LEMMA FreshInvStep ==
    FreshInv /\ [QueueNext]_queueVars => FreshInv' /\ FreshSafe
<1> SUFFICES ASSUME FreshInv, [QueueNext]_queueVars PROVE FreshInv' /\ FreshSafe
  OBVIOUS
<1>1. TypeInv' /\ RaceInv'
  BY TypeInvStep, RaceInvStep DEF FreshInv
<1>2. ServicePlace'
  <2>1. CASE UNCHANGED queueVars
    BY <2>1 DEF queueVars, callVars, FreshInv, ServicePlace
  <2> QED BY <2>1, PlaceStep DEF FreshInv
<1> QED BY <1>1, <1>2, FreshStep DEF FreshInv

\* Requested work is failed before a launch of it was tried only by who was under way
\* before the request, had read it as failed, or tells the end of another run of it (the
\* sweep, the replay and its budget, the reconciliation).
THEOREM FreshWorkGetsATryHolds == QueueSpec => FreshWorkGetsATry
<1>1. QueueInit => FreshInv
  BY TypeInvInit, RaceInvInit, FreshInvInit DEF FreshInv
<1>2. FreshSafe =>
        [\A k \in Key : Fresh(queue[k]) /\ Is(queue'[k], {"failed"}) =>
            \/ \E c \in Caller :
                  GoesOn(c) /\ (k \in meanwhile[c] \/ Is(snap[c][k], {"failed"}))
            \/ link[k] # None]_queueVars
  BY DEF FreshSafe, GivenUp
<1> QED BY <1>1, <1>2, FreshInvStep, PTL DEF QueueSpec, FreshWorkGetsATry
=============================================================================
