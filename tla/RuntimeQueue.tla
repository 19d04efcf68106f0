----------------------------- MODULE RuntimeQueue -----------------------------
(***************************************************************************)
(* The queue of background work of a project                                *)
(* (.openclaw-research/workflow-runtime-queue.json): what is written to it  *)
(* by those who start work (tools/workflow-fast-paths.ts), by the launch of *)
(* a run (tools/workflow-session-orchestrator.ts) and by the service's      *)
(* tick, which drains the queue and then runs the maintenance pass          *)
(* (tools/workflow-runtime-maintenance.ts, tools/workflow-runtime-recovery  *)
(* .ts).                                                                    *)
(*                                                                          *)
(* Half of the writers update one entry under the store's lock; the others  *)
(* read the file without it and later write the whole of it, so that what   *)
(* was written in between is gone. Every write names a work by its key and  *)
(* looks at no other field of the entry it finds.                           *)
(*                                                                          *)
(* A started run is linked when the sessions file has an active entry for   *)
(* it. What else happens to that file is the module BackgroundPool's        *)
(* matter: here a link may get lost (LoseTrack), and the runs of one work   *)
(* all go to its preferred session, whose entry the later one takes.        *)
(***************************************************************************)
EXTENDS Naturals

CONSTANTS Key,       \* queue keys: one for each piece of work
          Starter,   \* concurrent requests to start some work
          Service,   \* the process that ticks
          Run,       \* bound: runs at work at once
          MaxRepairAttempts,
          MaxStarts, \* bound: requests
          MaxFaults, \* bound: launches that fail, runs that do not end well
          None

Caller == Starter \cup {Service}

ASSUME QueueAssumption ==
    /\ MaxRepairAttempts \in Nat \ {0}
    /\ MaxStarts \in Nat
    /\ MaxFaults \in Nat
    /\ Service \notin Starter
    /\ None \notin Key \cup Run

VARIABLES
    queue,     \* the entry of each key
    runs,      \* what the runtime knows of each run
    keyOf,     \* the work it was started for
    link,      \* the run each key's session has an active entry for
    pc,        \* where each caller is
    phase,     \* what the service does: drain the queue, or the pass
    snap,      \* the entries a caller read
    todo,      \* the keys it still has to see to
    hand,      \* the key it is starting
    tries,     \* the attemptCount it read of it
    mine,      \* the run it started
    started,   \* the keys the drain has launched
    requests,  \* requests so far
    faults,    \* faults so far
    stray,     \* history: runs whose launch another operation overlapped, or that
               \* nobody keeps track of
    meanwhile, \* history: keys others made fresh or completed since a caller began
    erased     \* history: keys that a write of older entries removed

callVars == <<pc, phase, snap, todo, hand, tries, mine, started>>
runVars == <<runs, keyOf, link>>
history == <<stray, meanwhile, erased>>
queueVars == <<queue, runVars, callVars, requests, faults, history>>

QueueStatus == {"queued", "launching", "running", "degraded", "needs_repair",
                "failed", "completed"}

\* attempts is counted up to the budget, which is all it is compared with; old
\* tells that the grace periods since lastAttemptedAt (or else queuedAt) are over.
\* launched is history: a launch was tried since the work was last requested.
QueueEntry == [status: QueueStatus, attempts: 0 .. MaxRepairAttempts, old: BOOLEAN,
               launched: BOOLEAN]

ASSUME NoneAssumption == None \notin QueueEntry

Queue == [Key -> QueueEntry \cup {None}]

\* "lost": over, and the runtime does not know how it ended.
RunState == {"none", "live", "completed", "failed", "throttled", "lost"}

Live == {r \in Run : runs[r] = "live"}

Is(entry, statuses) == entry # None /\ entry.status \in statuses

Marked(entry, status) ==
    IF entry = None THEN None
    ELSE [entry EXCEPT !.status = status, !.launched = @ \/ status \in {"running", "degraded"}]

Request == [status |-> "queued", attempts |-> 0, old |-> FALSE, launched |-> FALSE]

\* Mutant: the attempts of an existing entry are kept.
RequestedKeeping(entry) ==
    IF entry = None THEN {Request} ELSE {[Request EXCEPT !.attempts = entry.attempts]}

\* Mutant: an entry is updated, and not made.
RequestedIfThere(entry) == IF entry = None THEN {None} ELSE {Request}

\* upsertTransitionEntry: an entry of the key is started afresh, whatever it is, but
\* for queuedAt, so that the new request may be taken for an old one.
Requested(entry) ==
    {[Request EXCEPT !.old = old] : old \in IF entry = None THEN {FALSE} ELSE {entry.old, TRUE}}

AttemptsOf(entry) == IF entry = None THEN 0 ELSE entry.attempts

\* Mutant: an attempt is counted twice.
CountedTwice(n) == n + 2

Counted(n) == IF n < MaxRepairAttempts THEN n + 1 ELSE n

\* isBackgroundQueueEntryPending, and the drain's backoff since the last attempt.
Drainable(entry) ==
    /\ Is(entry, {"queued", "launching", "degraded", "needs_repair"})
    /\ entry.launched => entry.old

\* Mutant: whatever has no run is taken for an orphan.
OrphanedAny(k, entry) == entry # None /\ entry.old /\ link[k] = None

\* An entry that should have a run (isRunningBackgroundQueueEntry), for more than
\* the grace period, without a session for it.
Orphaned(k, entry) ==
    Is(entry, {"running", "launching"}) /\ entry.old /\ link[k] = None

\* isStaleQueueEntry
Stale(k, entry) ==
    /\ Is(entry, {"queued", "launching", "running", "degraded"})
    /\ entry.old
    /\ entry.status = "running" => link[k] = None

\* Mutant: the budget is never used up.
ExhaustedNever(entry) == entry.attempts > MaxRepairAttempts

Exhausted(entry) == entry.attempts >= MaxRepairAttempts

--------------------------------------------------------------------------------

QueueInit ==
    /\ queue = [k \in Key |-> None]
    /\ runs = [r \in Run |-> "none"]
    /\ keyOf = [r \in Run |-> None]
    /\ link = [k \in Key |-> None]
    /\ pc = [c \in Caller |-> "idle"]
    /\ phase = "drain"
    /\ snap = [c \in Caller |-> [k \in Key |-> None]]
    /\ todo = [c \in Caller |-> {}]
    /\ hand = [c \in Caller |-> None]
    /\ tries = [c \in Caller |-> 0]
    /\ mine = [c \in Caller |-> None]
    /\ started = {}
    /\ requests = 0
    /\ faults = 0
    /\ stray = {}
    /\ meanwhile = [c \in Caller |-> {}]
    /\ erased = {}

Goto(c, label) == pc' = [pc EXCEPT ![c] = label]

\* Runs nobody will ask about any more leave the model.
Forget(over) ==
    /\ runs' = [r \in Run |-> IF r \in over THEN "none" ELSE runs[r]]
    /\ keyOf' = [r \in Run |-> IF r \in over THEN None ELSE keyOf[r]]
    /\ stray' = stray \ over

\* Requested, and not yet launched or given up.
Fresh(entry) == entry # None /\ ~entry.launched /\ entry.status # "failed"

\* What c's step makes fresh, or completed, while other callers are busy.
Note(c) ==
    LET news == {k \in Key : /\ queue'[k] # queue[k]
                             /\ Fresh(queue'[k]) \/ Is(queue'[k], {"completed"})}
    IN  meanwhile' = [d \in Caller |-> IF pc'[d] = "idle" THEN {}
                                       ELSE IF d = c THEN meanwhile[d]
                                       ELSE meanwhile[d] \cup news]

\* The whole file is written: what is missing from the entries read is gone.
WriteFile(c, entries) ==
    /\ queue' = entries
    /\ erased' = {k \in Key : entries[k] = None /\ (queue[k] # None \/ k \in erased)}
    /\ Note(c)

Nothing == [k \in Key |-> None]

\* c has no more use for the entries it read.
DropSnap(c) == snap' = [snap EXCEPT ![c] = Nothing]

\* c drops what it holds: when its operation ends, and when the service's launch does.
PutDown(c) ==
    /\ hand' = [hand EXCEPT ![c] = None]
    /\ tries' = [tries EXCEPT ![c] = 0]
    /\ mine' = [mine EXCEPT ![c] = None]

Leave(c) ==
    /\ Goto(c, "idle")
    /\ PutDown(c)
    /\ DropSnap(c)
    /\ todo' = [todo EXCEPT ![c] = {}]

--------------------------------------------------------------------------------
\* reconcileBackgroundWorkflowQueueWithRegistry, which requests and the drain
\* begin with.

Begin(c, k) ==
    /\ pc[c] = "idle"
    /\ Goto(c, "pruning")
    /\ snap' = [snap EXCEPT ![c] = queue]
    /\ hand' = [hand EXCEPT ![c] = k]
    /\ meanwhile' = [meanwhile EXCEPT ![c] = {}]
    /\ stray' = stray \cup ({mine[d] : d \in Caller} \ {None})
    /\ UNCHANGED <<queue, runVars, phase, todo, tries, mine, started, faults, erased>>

\* startBackgroundRun; drainQueuedBackgroundWorkflowRuns, at each tick.
Ask(c, k) ==
    /\ requests < MaxStarts
    /\ requests' = requests + 1
    /\ Begin(c, k)

Tick ==
    /\ Begin(Service, None)
    /\ UNCHANGED requests

\* pruneBackgroundWorkflowQueue always writes back what it read.
Prune(c) ==
    /\ pc[c] = "pruning"
    /\ Goto(c, "inspecting")
    /\ WriteFile(c, snap[c])
    /\ DropSnap(c)
    /\ UNCHANGED <<runVars, phase, todo, hand, tries, mine, started, requests,
                   faults, stray>>

\* The keys whose run is over, and the runtime tells how.
Told == {k \in Key : link[k] # None /\ runs[link[k]] \in {"completed", "failed", "throttled"}}

\* reconcileQueueTerminalState
Outcome(k) == IF runs[link[k]] = "throttled" THEN "needs_repair" ELSE runs[link[k]]

\* The registry is pruned, and the queue is read again. What is recorded between
\* the two is young, and no orphan.
Inspect(c) ==
    /\ pc[c] = "inspecting"
    /\ queue' = [k \in Key |-> IF k \in Told THEN Marked(queue[k], Outcome(k)) ELSE queue[k]]
    /\ link' = [k \in Key |-> IF k \in Told THEN None ELSE link[k]]
    /\ Forget({link[k] : k \in Told})
    /\ snap' = [snap EXCEPT ![c] = [k \in Key |->
          IF Orphaned(k, queue'[k]) /\ k \notin Told
          THEN Marked(queue'[k], "needs_repair") ELSE queue'[k]]]
    /\ Goto(c, "repairing")
    /\ Note(c)
    /\ UNCHANGED <<phase, todo, hand, tries, mine, started, requests, faults, erased>>

\* The reconciled entries are written (the write of the second pruning and the one of the
\* repairs are one here); the drain goes on with those that are due.
Repair(c) ==
    /\ pc[c] = "repairing"
    /\ IF c = Service
       THEN /\ Goto(c, "choosing")
            /\ todo' = [todo EXCEPT ![c] = {k \in Key : Drainable(snap[c][k])}]
            /\ DropSnap(c)
       ELSE /\ Goto(c, "asking")
            /\ UNCHANGED <<todo, snap>>
    /\ WriteFile(c, snap[c])
    /\ UNCHANGED <<runVars, phase, hand, tries, mine, started, requests,
                   faults, stray>>

--------------------------------------------------------------------------------
\* startBackgroundRun goes on.

\* Mutant: only an entry in the queue keeps work from being started again.
WantedIfNotQueued(c) == ~Is(snap[c][hand[c]], {"queued", "launching", "degraded"})

\* hasPendingBackgroundWorkflowQueueKey
Wanted(c) ==
    /\ ~Is(snap[c][hand[c]], {"queued", "launching", "degraded"})
    /\ link[hand[c]] = None

AlreadyThere(c) ==
    /\ pc[c] = "asking"
    /\ ~Wanted(c)
    /\ Leave(c)
    /\ UNCHANGED <<queue, runVars, phase, started, requests, faults, stray, erased>>
    /\ Note(c)

\* createWorkflowTransitionIntent
Intent(c) ==
    /\ pc[c] = "asking"
    /\ Wanted(c)
    /\ \E entry \in Requested(queue[hand[c]]) : queue' = [queue EXCEPT ![hand[c]] = entry]
    /\ tries' = [tries EXCEPT ![c] = AttemptsOf(queue'[hand[c]])]
    /\ erased' = erased \ {hand[c]}
    /\ Goto(c, "intent")
    /\ Note(c)
    /\ DropSnap(c)
    /\ UNCHANGED <<runVars, phase, todo, hand, mine, started, requests,
                   faults, stray>>

\* enqueueQueuedBackgroundWorkflowRun reads the file.
ReadToEnqueue(c) ==
    /\ snap' = [snap EXCEPT ![c] = queue]
    /\ Goto(c, "enqueuing")
    /\ UNCHANGED <<queue, runVars, phase, todo, hand, tries, mine, started,
                   requests, faults, history>>

\* No session is to be had, or no runtime.
NoSession(c) ==
    /\ pc[c] = "asking"
    /\ Wanted(c)
    /\ ReadToEnqueue(c)

\* The launch failed because the runtime is out of reach: the work is left to the drain.
Requeue(c) ==
    /\ pc[c] = "requeuing"
    /\ ReadToEnqueue(c)

\* The file is written back with the work in it, unless it is there.
Enqueue(c) ==
    /\ pc[c] = "enqueuing"
    /\ Leave(c)
    /\ WriteFile(c, IF Is(snap[c][hand[c]], {"queued", "launching", "running", "degraded"})
                    THEN snap[c] ELSE [snap[c] EXCEPT ![hand[c]] = Request])
    /\ UNCHANGED <<runVars, phase, started, requests, faults, stray>>

--------------------------------------------------------------------------------
\* resumeWorkflowTransition and executePersistedWorkflowTransition. A patch of an
\* entry that is not there is none.

Resumable(k) == queue[k] # None

\* The service takes up an entry it read before, and reads the queue again.
Resume(k) ==
    /\ pc[Service] = "choosing"
    /\ k \in todo[Service]
    /\ phase = "replay" => ~Exhausted(snap[Service][k])
    /\ Resumable(k)
    /\ hand' = [hand EXCEPT ![Service] = k]
    /\ tries' = [tries EXCEPT ![Service] = AttemptsOf(queue[k])]
    /\ todo' = [todo EXCEPT ![Service] = @ \ {k}]
    /\ Goto(Service, "intent")
    /\ UNCHANGED <<queue, runVars, phase, snap, mine, started, requests, faults, history>>

\* The entry is gone; or the drain gets no session for it.
PassOver(k) ==
    /\ pc[Service] = "choosing"
    /\ k \in todo[Service]
    /\ \/ phase = "replay" /\ ~Exhausted(snap[Service][k]) /\ ~Resumable(k)
       \/ phase = "drain"
    /\ todo' = [todo EXCEPT ![Service] = @ \ {k}]
    /\ UNCHANGED <<queue, runVars, pc, phase, snap, hand, tries, mine, started,
                   requests, faults, history>>

PatchLaunching(c) ==
    /\ pc[c] = "intent"
    /\ queue' = [queue EXCEPT ![hand[c]] = IF @ = None THEN None ELSE
          [status |-> "launching", attempts |-> Counted(tries[c]), old |-> FALSE,
           launched |-> TRUE]]
    /\ tries' = [tries EXCEPT ![c] = 0]
    /\ Goto(c, "launching")
    /\ UNCHANGED <<runVars, phase, snap, todo, hand, mine, started, requests,
                   faults, history>>

Spawn(c) ==
    /\ pc[c] = "launching"
    /\ \E r \in Run : runs[r] = "none"
    /\ LET r == CHOOSE r \in Run : runs[r] = "none"
       IN  /\ runs' = [runs EXCEPT ![r] = "live"]
           /\ keyOf' = [keyOf EXCEPT ![r] = hand[c]]
           /\ mine' = [mine EXCEPT ![c] = r]
           /\ stray' = IF \E d \in Caller \ {c} : pc[d] # "idle" THEN stray \cup {r} ELSE stray
    /\ Goto(c, "spawned")
    /\ UNCHANGED <<queue, link, phase, snap, todo, hand, tries, started, requests,
                   faults, meanwhile, erased>>

PatchRunning(c) ==
    /\ pc[c] = "spawned"
    /\ queue' = [queue EXCEPT ![hand[c]] = Marked(@, "running")]
    /\ Goto(c, "linking")
    /\ UNCHANGED <<runVars, phase, snap, todo, hand, tries, mine, started, requests,
                   faults, history>>

\* Where a caller goes on after a launch.
GoOn(c) ==
    IF c \in Starter THEN Leave(c)
    ELSE Goto(c, "choosing") /\ PutDown(c) /\ UNCHANGED <<snap, todo>>

\* recordWorkflowRuntimeSession: the session's entry is this run's from now on.
Link(c) ==
    LET k == hand[c]
        displaced == {link[k]} \ {None, mine[c]}
    IN  /\ pc[c] = "linking"
        /\ link' = [link EXCEPT ![k] = mine[c]]
        /\ runs' = [r \in Run |-> IF r \in displaced \ Live THEN "none" ELSE runs[r]]
        /\ keyOf' = [r \in Run |-> IF r \in displaced \ Live THEN None ELSE keyOf[r]]
        /\ stray' = (stray \cup displaced) \cap {r \in Run : runs'[r] # "none"}
        /\ started' = IF c = Service /\ phase = "drain" THEN started \cup {k} ELSE started
        /\ GoOn(c)
        /\ UNCHANGED <<queue, phase, requests, faults, erased>>
        /\ Note(c)

\* The start fails, or what follows it does (the store's lock is not obtained).
LaunchFails(c) ==
    /\ pc[c] \in {"launching", "spawned", "linking"}
    /\ faults < MaxFaults
    /\ faults' = faults + 1
    /\ runs' = [r \in Run |-> IF r = mine[c] /\ r \notin Live THEN "none" ELSE runs[r]]
    /\ keyOf' = [r \in Run |-> IF runs'[r] = "none" THEN None ELSE keyOf[r]]
    /\ stray' = (stray \cup {mine[c]}) \cap {r \in Run : runs'[r] # "none"}
    /\ mine' = [mine EXCEPT ![c] = None]
    /\ Goto(c, "degrading")
    /\ UNCHANGED <<queue, link, phase, snap, todo, hand, tries, started, requests,
                   meanwhile, erased>>

Degrade(c) ==
    /\ pc[c] = "degrading"
    /\ queue' = [queue EXCEPT ![hand[c]] = Marked(@, "degraded")]
    /\ \/ ~(c = Service /\ phase = "replay") /\ GoOn(c)
       \/ /\ \/ c = Service /\ phase = "replay" /\ Goto(c, "judging")
             \/ c \in Starter /\ Goto(c, "requeuing")
          /\ UNCHANGED <<snap, todo, hand, tries, mine>>
    /\ Note(c)
    /\ UNCHANGED <<runVars, phase, started, requests, faults, stray, erased>>

\* The pass reads the entry again, and gives the work up or keeps it for repair.
Judge ==
    /\ pc[Service] = "judging"
    /\ queue' = [queue EXCEPT ![hand[Service]] =
          IF @ = None THEN None
          ELSE Marked(@, IF Exhausted(@) THEN "failed" ELSE "needs_repair")]
    /\ GoOn(Service)
    /\ UNCHANGED <<runVars, phase, started, requests, faults, history>>

--------------------------------------------------------------------------------
\* The rest of the tick.

\* The drain has seen to all its entries: those it launched it marks as running,
\* in the file as it reads it now; then it prunes the file once more.
Drained ==
    /\ pc[Service] = "choosing" /\ phase = "drain" /\ todo[Service] = {}
    /\ snap' = [snap EXCEPT ![Service] = [k \in Key |->
          IF k \in started /\ queue[k] # None
          THEN [Marked(queue[k], "running") EXCEPT !.old = FALSE] ELSE queue[k]]]
    /\ Goto(Service, "marking")
    /\ UNCHANGED <<queue, runVars, phase, todo, hand, tries, mine, started, requests,
                   faults, history>>

Mark ==
    /\ pc[Service] = "marking"
    /\ Goto(Service, IF started = {} THEN "sweeping" ELSE "choosing")
    /\ WriteFile(Service, snap[Service])
    /\ started' = {}
    /\ DropSnap(Service)
    /\ UNCHANGED <<runVars, phase, todo, hand, tries, mine, requests, faults,
                   stray>>

\* terminalizeDeadActiveRuntimeEntries: it reads, then fails what it found by key.
Sweep ==
    /\ pc[Service] = "sweeping"
    /\ todo' = [todo EXCEPT ![Service] = {k \in Key : Orphaned(k, queue[k])}]
    /\ Goto(Service, IF todo'[Service] = {} THEN "recovering" ELSE "terminalizing")
    /\ UNCHANGED <<queue, runVars, phase, snap, hand, tries, mine, started, requests,
                   faults, history>>

Terminalize ==
    /\ pc[Service] = "terminalizing"
    /\ queue' = [k \in Key |-> IF k \in todo[Service] THEN Marked(queue[k], "failed")
                               ELSE queue[k]]
    /\ todo' = [todo EXCEPT ![Service] = {}]
    /\ Goto(Service, "recovering")
    /\ UNCHANGED <<runVars, phase, snap, hand, tries, mine, started, requests,
                   faults, history>>

\* recoverWorkflowRuntimeState writes the file when an entry is stale.
Recover ==
    /\ pc[Service] = "recovering"
    /\ IF \E k \in Key : Stale(k, queue[k])
       THEN /\ snap' = [snap EXCEPT ![Service] = [k \in Key |->
                  IF Stale(k, queue[k]) THEN Marked(queue[k], "needs_repair") ELSE queue[k]]]
            /\ Goto(Service, "rewriting")
       ELSE /\ Goto(Service, "screening")
            /\ UNCHANGED snap
    /\ UNCHANGED <<queue, runVars, phase, todo, hand, tries, mine, started, requests,
                   faults, history>>

Rewrite ==
    /\ pc[Service] = "rewriting"
    /\ Goto(Service, "screening")
    /\ WriteFile(Service, snap[Service])
    /\ DropSnap(Service)
    /\ UNCHANGED <<runVars, phase, todo, hand, tries, mine, started, requests,
                   faults, stray>>

\* The work of these keys is over, in one way or another.
Over == {k \in Key : link[k] # None /\ link[k] \notin Live}

\* repairInvalidActiveRuntimeSessions: a session that is active in the file only is
\* for repair, with its work, however the run ended;
\* restoreMissingQueueEntriesForRepairSessions: also when the entry is gone.
Screened(k) ==
    CASE k \in Over /\ queue[k] = None ->
            [status |-> "needs_repair", attempts |-> Counted(0), old |-> TRUE,
             launched |-> TRUE]
      [] k \in Over /\ Is(queue[k], {"running", "launching"}) ->
            Marked(queue[k], "needs_repair")
      [] OTHER -> queue[k]

\* After it the pass reads the entries it will replay.
Screen ==
    /\ pc[Service] = "screening"
    /\ queue' = [k \in Key |-> Screened(k)]
    /\ link' = [k \in Key |-> IF k \in Over THEN None ELSE link[k]]
    /\ Forget({link[k] : k \in Over})
    /\ erased' = {k \in erased : queue'[k] = None}
    /\ snap' = [snap EXCEPT ![Service] = queue']
    /\ todo' = [todo EXCEPT ![Service] =
          {k \in Key : Is(queue'[k], {"needs_repair", "degraded"})}]
    /\ phase' = "replay"
    /\ Goto(Service, "choosing")
    /\ UNCHANGED <<hand, tries, mine, started, requests, faults, meanwhile>>

\* The repair budget is exhausted: markQueueFailed, by key.
GiveUp(k) ==
    /\ pc[Service] = "choosing" /\ phase = "replay"
    /\ k \in todo[Service]
    /\ Exhausted(snap[Service][k])
    /\ queue' = [queue EXCEPT ![k] = Marked(@, "failed")]
    /\ todo' = [todo EXCEPT ![Service] = @ \ {k}]
    /\ UNCHANGED <<runVars, pc, phase, snap, hand, tries, mine, started, requests,
                   faults, history>>

TickEnds ==
    /\ pc[Service] = "choosing" /\ phase = "replay" /\ todo[Service] = {}
    /\ phase' = "drain"
    /\ Leave(Service)
    /\ UNCHANGED <<queue, runVars, started, requests, faults, stray, erased>>
    /\ Note(Service)

--------------------------------------------------------------------------------

Held == {link[k] : k \in Key} \cup {mine[c] : c \in Caller}

\* A run comes to its end. That it does not end well, or that the runtime loses it,
\* is a fault.
RunEnds(r) ==
    /\ runs[r] = "live"
    /\ \/ /\ runs' = [runs EXCEPT ![r] = IF r \in Held THEN "completed" ELSE "none"]
          /\ UNCHANGED faults
       \/ /\ r \in Held
          /\ faults < MaxFaults
          /\ faults' = faults + 1
          /\ \E how \in {"failed", "throttled", "lost"} : runs' = [runs EXCEPT ![r] = how]
    /\ keyOf' = [keyOf EXCEPT ![r] = IF r \in Held THEN @ ELSE None]
    /\ stray' = IF r \in Held THEN stray ELSE stray \ {r}
    /\ UNCHANGED <<queue, link, callVars, requests, meanwhile, erased>>

\* The session of a run at work is taken for dead.
LoseTrack(k) ==
    /\ link[k] \in Live
    /\ faults < MaxFaults
    /\ faults' = faults + 1
    /\ stray' = stray \cup {link[k]}
    /\ link' = [link EXCEPT ![k] = None]
    /\ UNCHANGED <<queue, runs, keyOf, callVars, requests, meanwhile, erased>>

Young(entry) == entry # None /\ ~entry.old /\ entry.status \notin {"completed", "failed"}

Aged(entry) == IF Young(entry) THEN [entry EXCEPT !.old = TRUE] ELSE entry

\* The grace periods of a work pass, in the file and for those who read it: what they
\* write back is as old as it is. That of an entry that is over is never looked at.
Age(k) ==
    /\ Young(queue[k]) \/ \E c \in Caller : Young(snap[c][k])
    /\ queue' = [queue EXCEPT ![k] = Aged(@)]
    /\ snap' = [c \in Caller |-> [snap[c] EXCEPT ![k] = Aged(@)]]
    /\ UNCHANGED <<runVars, pc, phase, todo, hand, tries, mine, started, requests, faults,
                   history>>

Reconcile(c) == Prune(c) \/ Inspect(c) \/ Repair(c)

Launch(c) ==
    \/ PatchLaunching(c)
    \/ Spawn(c)
    \/ PatchRunning(c)
    \/ Link(c)
    \/ Degrade(c)

StarterGoesOn(c) ==
    Reconcile(c) \/ AlreadyThere(c) \/ Intent(c) \/ NoSession(c) \/ Requeue(c) \/ Enqueue(c)
        \/ Launch(c)

ServiceStep ==
    \/ Tick
    \/ Reconcile(Service)
    \/ \E k \in Key : Resume(k) \/ PassOver(k) \/ GiveUp(k)
    \/ Launch(Service)
    \/ Judge
    \/ Drained \/ Mark
    \/ Sweep \/ Terminalize
    \/ Recover \/ Rewrite
    \/ Screen
    \/ TickEnds

QueueNext ==
    \/ \E c \in Starter, k \in Key : Ask(c, k)
    \/ \E c \in Starter : StarterGoesOn(c)
    \/ ServiceStep
    \/ \E c \in Caller : LaunchFails(c)
    \/ \E r \in Run : RunEnds(r)
    \/ \E k \in Key : LoseTrack(k) \/ Age(k)

\* The service ticks, what was begun goes on, runs end and time passes.
QueueFairness ==
    /\ WF_queueVars(ServiceStep)
    /\ \A c \in Starter : WF_queueVars(StarterGoesOn(c))
    /\ \A r \in Run : WF_queueVars(RunEnds(r))
    /\ \A k \in Key : WF_queueVars(Age(k))

QueueSpec == QueueInit /\ [][QueueNext]_queueVars /\ QueueFairness

--------------------------------------------------------------------------------

\* Types, and what a caller holds where.
QueueTypeOK ==
    /\ queue \in Queue
    /\ runs \in [Run -> RunState]
    /\ keyOf \in [Run -> Key \cup {None}]
    /\ \A r \in Run : keyOf[r] = None <=> runs[r] = "none"
    /\ link \in [Key -> Run \cup {None}]
    /\ \A k \in Key : link[k] # None => keyOf[link[k]] = k
    /\ pc \in [Caller -> {"idle", "pruning", "inspecting", "repairing", "asking",
                          "requeuing", "enqueuing", "intent", "launching", "spawned", "linking",
                          "degrading", "judging", "choosing", "marking", "sweeping",
                          "terminalizing", "recovering", "rewriting", "screening"}]
    /\ phase \in {"drain", "replay"}
    /\ snap \in [Caller -> Queue]
    /\ todo \in [Caller -> SUBSET Key]
    /\ hand \in [Caller -> Key \cup {None}]
    /\ tries \in [Caller -> 0 .. MaxRepairAttempts]
    /\ mine \in [Caller -> Run \cup {None}]
    /\ started \subseteq Key
    /\ requests \in 0 .. MaxStarts
    /\ faults \in 0 .. MaxFaults
    /\ stray \subseteq {r \in Run : runs[r] # "none"}
    /\ meanwhile \in [Caller -> SUBSET Key]
    /\ erased \subseteq Key
    /\ \A c \in Caller : pc[c] \in {"spawned", "linking"} => mine[c] # None

\* Two runs of one work are at work only when the launch of one of them was
\* overlapped by another operation, or nobody keeps track of one of them.
DuplicatesAreRaced ==
    \A r, q \in Live : r # q /\ keyOf[r] = keyOf[q] => {r, q} \cap stray # {}

\* "Record the intent first, then spawn": when a run starts, its work is in the
\* queue, unless a write of older entries has erased it.
SpawnsOnRecord ==
    [][\A r \in Run : runs[r] = "none" /\ runs'[r] = "live" =>
          queue[keyOf'[r]] # None \/ keyOf'[r] \in erased]_queueVars

GoesOn(c) == <<pc[c], todo[c]>>' # <<pc[c], todo[c]>>

\* A completed entry is opened again by a new request for the work, or by an
\* operation that was under way when it was completed, and by nothing that began
\* after it, except for what becomes of a run that had a race.
DoneStaysDone ==
    [][\A k \in Key : Is(queue[k], {"completed"}) /\ ~Is(queue'[k], {"completed"}) =>
          \/ \E c \in Starter : pc[c] \in {"asking", "enqueuing"} /\ pc'[c] # pc[c]
          \/ \E c \in Caller : GoesOn(c) /\ k \in meanwhile[c]
          \/ link[k] \in stray
      ]_queueVars

\* A work that was requested is given up before a launch of it was tried only by an
\* operation that began before the request, or that had read it as failed, or for what
\* became of another run of the same work.
FreshWorkGetsATry ==
    [][\A k \in Key : Fresh(queue[k]) /\ Is(queue'[k], {"failed"}) =>
          \/ \E c \in Caller :
                GoesOn(c) /\ (k \in meanwhile[c] \/ Is(snap[c][k], {"failed"}))
          \/ link[k] # None
      ]_queueVars

Settled == \A k \in Key : queue[k] = None \/ Is(queue[k], {"completed", "failed"})

\* When requests and faults come to an end, so does all work.
WorkSettles == <>[]Settled

================================================================================
