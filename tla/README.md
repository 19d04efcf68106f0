# Formal models of the ClawAutoResearch workflow control plane

ClawAutoResearch is an OpenClaw plugin in which several agents (researcher, reviewer, coder,
writer, ...) work on one research project. What they share is a directory of JSON files under
`<project>/.openclaw-research/` and the file `PROJECT_MANIFEST.json`. There is no database and no
server that serialises them: every agent's tools, every tick of the auto iterator and every timer
of the plugin's service reads those files, decides, and writes them back, with an `await` between
any two steps. This project models that control plane in TLA+, checks small instances of it with
TLC and proves its core for all instances with TLAPS.

Paths below are relative to `src/tools/` unless they start with `src/`.

## 1. The system

### Components, their state and their operations

| Component | State | Operations | Modelled by |
|---|---|---|---|
| Advisory lock and JSON files (`workflow-guard-core/fs.ts`) | a lock directory with `owner.json`; the JSON file it protects | `withAdvisoryLock`, `maybeRecoverStaleAdvisoryLock`, `writeJsonAtomicEnsured`, `writeJsonEnsured` | `AdvisoryLock`; the plain write in `HandoffActivation` |
| Handoff intent store (`workflow-handoff/handoff-types.ts`, `handoff-store.ts`) | `workflow-handoff-intents.json` | upsert, transition, append attempt, claim, activate | `HandoffStatus`, `HandoffStore`, `HandoffPromise` |
| Delivery and sweep (`handoff-delivery.ts`, `handoff-sweep.ts`) | the call's locals: a copy of the intent, the rung of the ladder | `deliverWorkflowHandoffIntent`, `sweepPendingHandoffIntents` | `HandoffDelivery` |
| Maintenance pass (`workflow-handoff/maintenance.ts`) | a snapshot of store and manifest | `runWorkflowHandoffMaintenancePass` | `HandoffMaintenance` |
| Activation and owner switch (`handoff-activation.ts`, preflight part of `workflow-guard-runtime/stage-preflight.ts`) | `owner_agent`, `pending_handoff_id` and the rest of the manifest | claim, announce, block, switch, activate, clear | `HandoffActivation` |
| Task graph and write scopes (`workflow-team/task-graph.ts`, `task-hooks.ts`, `workflow-handoff/write-scope.ts`) | `workflow-task-graph.json`, `workflow-write-scopes.json` | claim, claim next, renew, release, complete, materialise | `TaskGraph` |
| Handoff request keys (`handoff-router.ts`, `handoff-defaults.ts`, `handoff-events.ts`) | none (builds keys and delivery plans) | prepare a handoff | parameters `Key`, `Ladder`, `ChannelCap`, `MaxTotal` |
| Team round, stage profiles (`workflow-team/`) | `workflow-team-round.json`, a projection | materialise, record | parameters of `TaskGraph` |
| Repair queue and failure router (`workflow-handoff/repair-queue.ts`, `failure-router.ts`) | `workflow-repair-queue.json`: items with a budget | route a failure (find or open, charge, tell), close for a task | `RepairRouting` |
| Background run pool (`workflow-background-pool.ts`) | `workflow-runtime-sessions.json`: an entry per session | list, lease, record, prune, retire | `BackgroundPool` |
| Execution runtime (`workflow-execution-runtime.ts`) | the runs it knows, the session store | run, wait, inspect, delete a session | its starts, ends and deletions in `BackgroundPool`; its answers are chosen there |
| Runtime queue (`workflow-fast-paths.ts`, `workflow-session-orchestrator.ts`) | `workflow-runtime-queue.json`: an entry per work | request, enqueue, launch, drain, reconcile | `RuntimeQueue` |
| Runtime maintenance (`workflow-runtime-maintenance.ts`, `workflow-runtime-recovery.ts`) | the pass's snapshot of the queue | terminalise, recover, screen, replay, give up | `RuntimeQueue` |
| Announce and broadcast outboxes, review rounds, receipts | a store each | append, replay; open, answer | no |
| Auto iterator, stage completion (`workflow-guard-runtime/auto-iterator.ts`) | the manifest | one tick | only its calls into the components above |
| Bindings, capabilities, budgets | small stores under the lock | lookup, spend | nondeterministic gate of a delivery |
| Tools, hooks, service registration; literature, ideas, writing, experiments; dashboard | | | no |

`PROJECT.json` lists each of these with its sources and the reason where it is left out.

### How they interact

1. A *tick* (auto iterator) or a tool decides that a stage is done, prepares a handoff (upsert under
   an idempotency key), announces it in the manifest and calls `deliverWorkflowHandoffIntent`.
2. *Delivery* climbs the channels of the plan (`native_runtime`, `runtime_queue`, `lobster`,
   `human_escalation`), awaits an external dispatch on each, records every attempt in the
   intent and settles its status.
3. The *sweep* and the *maintenance pass* run on a timer and with every tick: the sweep delivers
   again what is retriable, the pass retires duplicates, overdue and exhausted intents.
4. The *target agent* acknowledges, claims and activates: `claimAndActivateWorkflowHandoffForAgent`
   claims the intent, makes the agent the manifest's owner and activates the intent.
5. Within a stage the agents share out the *task graph*, which the tick materialises anew each time.
6. A *failure* (a verification, a `fail_handoff_intent`, an exhausted handoff) is routed: a repair item is
   found or opened, charged, and a handoff requested for the owner of repairs, or for a human.
7. *Background work* is requested under a queue key. It is launched at once if the *pool* has a session
   for it, or left in the *runtime queue*; the service's tick drains the queue and then runs the
   maintenance pass, which repairs what the queue, the sessions and the runtime do not agree about.

Each store operation is atomic by way of the advisory lock. What lies between two operations is
not, and that is where almost every property below lives.

### What is hard here

* **Interleaving**: two deliveries of one intent, a pass deciding from an old snapshot, an owner
  switch made in a copy of the manifest that is three `await`s old, a tick that rewrites the task
  graph without the lock everyone else takes.
* **Unlocked rewrites**: the pool and the queue read a whole file without its lock, ask the runtime about
  each entry, and write the whole file back; launches patch single entries meanwhile.
* **Crashes**: a holder that dies in the lock; a process that dies between the manifest and the store.
* **Retries and budgets**: attempt budgets asked of stale copies; a lock timeout after a dispatch.
* **Long legal sequences** of status moves, over a table with sixteen statuses.
* **Liveness**: retry loops, the ladder, handoffs that wait for somebody who has died.

`PROJECT.json` ("hazards") lists these one by one at their lines, with the property that would
catch each going wrong, or why none does yet.

### What makes each component correct

* Lock: one holder; no lost update; recovery from a dead holder; every attempt ends.
* Store: one open handoff per key; finished means finished; it implements `HandoffPromise`.
* Delivery: the budget, a truthful record of what was sent, escalation as a last resort, termination.
* Maintenance: deduplication leaves a twin, nothing stays under way for ever.
* Activation: write-ahead order of switch and activation; finished handoffs leave the manifest; the
  owner has claimed.
* Repair routing: one open item per failure; no loop of repairs goes on without a human being told.
* Pool: the registry knows the runs at work; the capacity is a bound; only what is idle is reused or deleted.
* Queue: a work runs once; it is on record before it runs; what is done stays done; a request gets its
  try; all work is settled in the end.
* Task graph: what a session was told about its lease is true; overlapping work excludes; verdict
  and status agree.

## 2. The plan

Done, in this order: `AdvisoryLock` (everything rests on it), `HandoffStatus` and `HandoffStore` with
its abstract specification `HandoffPromise`, `HandoffDelivery` (extends the store),
`HandoffMaintenance` (extends delivery), `HandoffActivation` (extends the store), `TaskGraph`,
`RepairRouting` (extends the store), `BackgroundPool`, `RuntimeQueue`.

Next:

1. The outboxes of announcements and broadcasts, with their replay in the maintenance pass, over
   `RuntimeQueue`.
2. `RuntimeQueue` composed with `BackgroundPool`, so that a lost link is a race of the pool and no longer a
   fault; and with `HandoffDelivery`, so that the `runtime_queue` channel stops being an oracle.
3. Provider-capacity cooldowns and the extra attempt after a tracking loss in `RuntimeQueue`.
4. An abstract specification of a task's lease (`free -> leased -> done`) that `TaskGraph` without
   its unlocked tick implements.

Proved: every safety invariant and every action property that a passing run checks, and that the store implements
`HandoffPromise` (section 6). Theorems planned: the lock with any number of contenders and a bound on its updates lost per
crash, and what the abstract lease of point 4 promises.

## 3. The modules

**AdvisoryLock.** A contender is one task in one operating-system process. `pc` follows
`withAdvisoryLock` through each awaited file-system call: `mkdir`, `owner.json`, the task (`TaskRead`,
`TaskWrite`), the `rm` of the finally block; and on EEXIST the read of `owner.json` with the pid probe
(`CheckOwner`), the `stat` (`StatAge`), the `rm` (`RemoveStale`), the sleep or the timeout. `dir` is
what is at the path; `made` in it is a history variable. `StaleEnabled` says whether the caller passes
`staleMs`: the handoff store does, the task graph, write scopes and background pool do not.
`Age` lets only a dead maker's directory grow stale: a task lasts seconds, `staleMs` is minutes.

**HandoffStatus / HandoffStore.** The transition table is `WORKFLOW_HANDOFF_ALLOWED_TRANSITIONS` row by
row. An intent keeps its key, status, attempts (by channel), the session that claimed it, whether
`expiresAt` has passed and whether it was retired as a duplicate. Each operation is one step because it
runs inside the lock; where the lock itself may fail is `AdvisoryLock`'s subject. `failedOnce` is
history. An illegal transition is refused and changes nothing, as in the code.

**HandoffPromise.** What a requester may rely on for one key: none, open, closed, lapsed; a closed key
stays closed, only a lapsed key opens again. `HandoffStore!KeyPhase` is the refinement mapping.

**HandoffDelivery.** One deliverer is one call of `deliverWorkflowHandoffIntent`; `seen` is its copy of
the intent, refreshed exactly where the code takes over the result of a store operation.
`Dispatch` is the awaited external call (it may fail, or have happened although its answer is "no");
a lobster dry run and a dispatch that throws are dispatches that answer "no". `LockTimeout` sends a store
operation inside the try block to the catch block; outside it, it ends the call (`Crash`).
`Agent` stands for the handoff tools of the receiving agents. `sent` is history.

**HandoffMaintenance.** `StartPass` reads store and manifest, `SupersedeDuplicate` and `Judge` are the
two loops, each transition decided from the snapshot and applied to the store as it is now. Deadlines
other than `expiresAt` and the comparison of stages are nondeterministic: an overdue intent *may* be
judged overdue. Several passes may run (`Janitor`).

**HandoffActivation.** `file` is the manifest: owner, pending handoff, and whether the rest is intact.
It is written with `fs.writeFile`, hence two steps (`Open` truncates, `Write` fills), and a reader in
between reads `Torn`, which `readManifest` turns into an empty object. A claiming agent looks, picks,
finds, claims, decides; what is left to do is the sequence `jobs` (announce, block, switch,
activate). The order switch-then-activate is the code's. The switch is made in the copy the call has held
since its start; announcements read the file again. Requesters announce before and after a
delivery, and preflights clear pending handoffs that are over.

**TaskGraph.** Locked operations take two steps: `Enter` (the read under the lock, with the claim of
the write scope, which is a file and a lock of its own) and `Commit` (the write and the answer), because the tick's
`ReadGraph`/`WriteGraph` may fall between. Time is what is left of every lease; `told` keeps what each
session was told, `renewed` and `dropped` mark leases that were renewed, or replaced by a
materialisation. `completeWorkflowTaskAndContinue` is the chain mark, verify, repair or complete, next
(`flow`), with one locked call each. Paths are places: two scopes overlap if they share one. The
optional status is left out because no stage profile asks for it. Expired-lease reconciliation and the
release of a write scope have operations but no caller in the plugin, and are not actions.

**RepairRouting.** A router is one call of `routeWorkflowFailure`. Its three operations (find or open the
item, charge it, request the handoff) are a step each, since each takes a lock of its own; `copy` is the item as
the call holds it, from which the charge's status is worked out (`ChargedAs`), while the budget is taken off
the item as the queue has it by then. The handoffs go through `HandoffStore!Upsert` under the keys the router
builds: one per failure for the owner of repairs, one per failure and lineage for a human. `CloseForTask` is
the verified completion of a task. `charges` and `reopened` are history.

**BackgroundPool.** A caller is one operation of the pool. `ReadRegistry` and `WriteBack` are the two ends of
the pruning every operation begins with; `said` is what pruning concludes of each active run (`Verdicts`):
that it is active, or, *if something says that it is over*, that its session is idle or needs repair. A run that is
over is not alone in that. `SeemsOver` puts a run at work among those (`seeming`) because of a capacity failure in
the session's transcript while it goes on on a fallback model (`workflow-background-pool.ts:566-576`,
`workflow-execution-runtime.ts:747-765`), of what another run of the session left in the session store, which is asked by
session and not by run (`workflow-background-pool.ts:528-565`), of the runtime's answer, or of the project's files
(`workflow-background-pool.ts:665-677`, `697-708`; `workflow-background-run-reconcile.ts:375-466`). `Lease` then chooses a session (an idle one of the kind, or a new one if the capacity allows),
`Spawn` starts the run, perhaps in a rotated session, and two recordings follow. `Retire` prunes, `WriteKept` writes a
second time, and the retired sessions are `left` to be deleted one by one; `DeleteSession` forgets the session, and what runs in it goes on, as in the embedded
runtime (`workflow-execution-runtime.ts:889-941`), or ends, as the gateway's runtime may have it. Maintenance and
recovery write the same file; what they do to a run's link is in `RuntimeQueue`, not here. `missed` (recorded since a
caller read), `untracked` (runs the registry may have lost) and `reused` are history, kept of the runs at work that
nothing calls over. A session whose run has completed is idle and is leased
without a look at the capacity (`workflow-background-pool.ts:1174`); rotation leaves its idle entry
behind, so that it can be leased again: `CapacityOverrunBounded` leaves such runs out.

**RuntimeQueue.** A starter is one call of `startBackgroundRun`, the service is the tick. Both begin with the
reconciliation (`Begin`, `Prune`, `Inspect`, `Repair`): unlocked reads and whole-file writes. A launch
(`PatchLaunching`, `Spawn`, `PatchRunning`, `Link`) patches one entry at a time under the lock. The tick goes
on through the drain's marking, `Sweep`/`Terminalize`, `Recover`/`Rewrite`, `Screen` and the replay loop
with its budget (`GiveUp`, `Judge`). `link` stands for the sessions file. Time is one bit per entry: whether
the grace periods since its last attempt are over; a request for an existing entry keeps its `queuedAt` and
so may be old at once. Two writes that follow each other from one read are one write.
`launched` in an entry, `stray`, `meanwhile` and `erased` are history.

The `MC*` modules only hold values for TLC. Definitions commented "Mutant" are plausible wrong
versions of the definition that follows; substituting one must break the property `PROJECT.json` pairs it with.

## 4. The runs

| Run | Question | Instance | Outcome |
|---|---|---|---|
| `lock_recovery` | does the lock exclude, lose nothing, recover and end? | 2 contenders, 2 tasks each, 1 crash, 2 retries | holds |
| `handoff_store` | uniqueness, finality, refinement of `HandoffPromise` | 2 keys, 2 intents, arbitrary callers | holds |
| `handoff_delivery` | budget, record, escalation | 2 deliverers, 3 rungs (one disabled), 1 fault | holds |
| `handoff_maintenance` | does everything under way move on? | 1 deliverer, 1 pass, 2 rungs, 1 fault, fairness | holds |
| `handoff_passes` | does deduplication leave a twin? | 2 intents of a key, 1 deliverer, 1 pass | holds unless one was revived |
| `handoff_activation` | write-ahead order; is the manifest cleared? | tick, preflight, agent, 1 crash, fairness | holds |
| `owner_before_claim` | has the owner claimed? | tick, agent, a superseding pass | **violated** |
| `repair_routing` | one open item? is every loop heard? | 2 routers, 1 failure of a task, budget 2, 5 routes, 1 crash | holds |
| `background_pool` | are runs at work that nothing calls over known, counted, left alone? | 2 callers, 2 sessions, 2 kinds, 3 runs, capacity 1, 1 fault | holds |
| `runtime_queue` | once, on record, done is done, a try for each request | 1 work, 1 starter, the service, 2 requests, 2 runs, 1 fault | holds |
| `runtime_settles` | does all work come to an end? | the same, 1 request, 2 faults, fairness | holds |
| `task_graph` | leases, scopes and verdicts under the unlocked tick | 2 sessions, 2 dependent tasks, 1 tick at a time | holds |

### What the passing runs say

* `lock_recovery`: with two contenders and one crash at any point, mutual exclusion holds: removing a
  stale lock is only dangerous when two live waiters do it.
* `handoff_store`: whatever its callers ask for. Two intents of a key are active together only after the
  older had failed and was revived.
* `handoff_delivery`: two concurrent calls overrun `maxAttemptsTotal` by at most one per extra call and
  one per lock timeout; each dispatch for an open handoff is recorded, in flight or lost with a fault.
* `handoff_maintenance`, `handoff_passes`: every delivery ends; no handoff stays `dispatching`.
* `handoff_activation`: an `activated` intent always has its owner switch on file.
* `task_graph`: the only way a session loses a live lease it was told about is a materialisation, and even
  then the write scope keeps a second session from overlapping work while neither lease has been renewed.

* `repair_routing`: an item is charged at most its budget, and once more per further route that overlaps, before
  a human is asked; only calls cut short between the charge and the handoff leave an escalation untold, one each.
  Two open items of one failure need a charge that put a closed or escalated one back.
* `background_pool`: as long as nothing says that it is over, a recorded run is lost sight of through the pool only by a
  pruning that read before it was recorded, by a later run in its session, by being retired as active or after an hour;
  the capacity is overrun by such runs by at most one per further concurrent caller; and without being lost sight of
  such a run has its session neither leased as idle nor, once the retiring caller could read its entry, deleted. Of a run
  that something wrongly says is over none of this holds, and the model contains what becomes of it.
* `runtime_queue`: every way a work runs twice, runs without a record, is reopened or is given up
  untried goes through an operation that had read the queue before (or, for the reopening, through
  what becomes of a run that had such a race).
* `runtime_settles`: with finitely many faults everything is completed or failed in the end. The drain
  launches without a look at the repair budget, so without that bound a work may fail for ever.

### Known limits of the code

These the models contain and the properties above are worded around; TLC finds each in a few steps when
the exemption is taken out.

* Two waiters that judge one dead lock holder: the slower removes the faster one's new lock
  (`workflow-guard-core/fs.ts:212-235`). `lock_recovery` therefore has the dead holder and one waiter.
* A revival and two deduplications may supersede every intent of a key
  (`workflow-handoff/maintenance.ts:107`); `TwinLostOnlyByRevival` names the revival.
* `failed -> expired` and `stale_claim -> expired` are not in the table
  (`workflow-handoff/handoff-types.ts:186-187`): the pass's request is refused
  (`workflow-handoff/maintenance.ts:204`) and such an intent stays.
* A reader between the truncation and the write of the manifest takes it for empty and writes that back
  (`workflow-guard-core/fs.ts:108`, `workflow-handoff/handoff-activation.ts:67`).
* An escalated repair item is not open, so the failure's next occurrence opens a fresh item with a full
  budget (`workflow-handoff/repair-queue.ts:247-250`); items without a task are never closed; a failure that
  recurs after its handoff was completed is answered with the finished handoff (`RepairKey`).
* The maintenance pass declares a session whose run has completed for repair and replays its work
  (`workflow-runtime-maintenance.ts:879-893`, `1086-1094`); the drain marks everything it launched as running
  when it is through (`workflow-fast-paths.ts:2682`), over a completion in between.
* The pool's pruning takes a run at work for over on the strength of its session's transcript or store entry, or of the
  project's files (`workflow-background-pool.ts:566-576`, `665-677`, `697-708`): the run loses its active entry and its share
  of the capacity, its session is leased to another run or deleted. Deleting the session does not stop the run
  (`workflow-execution-runtime.ts:889-941`). The properties of `background_pool` exempt these runs by name (`seeming`).
* A call that is on the ladder does not look at the intent's status again and dispatches an intent that was closed in between
  (`workflow-handoff/handoff-delivery.ts:298`); `DispatchesOnRecord` is stated for open ones.
* A lock timeout while a started run is being recorded declares it failed to spawn, and it is started again
  (`workflow-session-orchestrator.ts:349-358`).

### What the violation run says

It checks one statement of the repository against the code, and TLC's trace is the scenario;
`PROJECT.json` ("findings") quotes the statement.

* `owner_before_claim`: the result of the claim is not looked at before the owner is switched.

### Bounds, and why they are enough

* Every hazard above needs at most two concurrent calls of one kind (two deliverers, two sessions,
  two routers, two users of the pool, a starter and the service). The runs have that many.
* `MaxIntents = 2` is a handoff and its replacement, the least for which uniqueness, revival and
  deduplication mean anything. The proofs lift it.
* Two or three rungs and `MaxTotal` of 1 to 3 reach every way off the ladder: skipped, failed,
  delivered, exhausted by rungs, exhausted by budget, stopped by a human escalation.
* `MaxFaults`/`MaxCrashes = 1`: the properties either count the faults or need just one. In `background_pool` a failed launch, an
  entry that grows old and a run that something wrongly calls over count as one each; the theorems lift the bound.
* Sessions claim one task after another; `LeaseTtl = 1` with time passing twice covers lapse,
  re-claim, renewal after the lapse and a second lapse. `ScopeTtl = LeaseTtl` is the tightest case (the code
  has 5 minutes for both, or 30 for owned directories). `Most` bounds how often a tick starts (the first creates
  the graph, the second races), time passes and a process dies; task operations are not bounded.
* `CHECK_DEADLOCK FALSE` appears where a run may stop: the contenders have run their tasks, or the bounds
  are spent. Everywhere else TLC also checks that the system never gets stuck.
* `background_pool`: capacity 1 with two callers is the least that can be overrun, three runs let two overrun
  and a third displace one of them; two sessions and two kinds make a session reusable for one and not for the other.
* `runtime_queue`: the writers treat each key by itself; other work only takes up sessions, and the drain may
  pass an entry over for lack of one at any time, so one key has every behaviour of a key. Two requests race with the service and with each
  other's leftovers. `runtime_settles` has two faults, as many as the budget allows launches, so that it runs out.
* Symmetry is used only over sessions, callers, kinds and runs, and only where no liveness is checked.

With a single intent the manifest's pending handoff is always the picked one, so the ineligible branch of an
activation (another handoff is pending) is not reached by `handoff_activation`; the theorem
`ActivatedOnlyAfterSwitchHolds` covers it for safety, and `FinishedIsCleared` is checked without it.

## 5. Fairness

* `AdvisoryLock!FairSpec`: weak fairness of each contender's next step, since a live process keeps running
  its event loop, and of ageing. Entering and crashing are never obliged.
* `FairMaintenanceSpec`: weak fairness of each pass and of each call that has begun (every awaited dispatch
  is answered or times out), and strong fairness of the sweep per intent: the sweep runs on a timer
  over all retriable intents, so an intent that is retriable again and again is met by one in the
  end. Agents and requesters owe nothing.
* `QueueFairness`: weak fairness of the service, whose tick is a timer, of a request that has begun, of the
  runs, which end or time out, and of the grace periods, which pass. Requests and faults are never obliged,
  and bounded.
* `FairActivationSpec`: weak fairness of calls that have begun and of preflights, of which every tick
  runs one. Requesting and claiming are never obliged.

## 6. The proofs

All theorems hold for every value of the constants that satisfies the named ASSUMEs of the modules.

**`AdvisoryLock_proofs`** (assumptions: `LockAssumption`; for all but the types `LoneRecovery`, that nobody dies in the
lock or that at most two contend: three with one crash break the protocol, section 4). Mutual exclusion alone is
not inductive. `LockInv` adds: the directory is its maker's from `mkdir` to the finally block; only a dead
maker's directory is stale; who is about to remove it has outlived everybody else, so that nobody can take the lock
between the judgement and the `rm`; what a contender read is still what the file holds while it may write.
Proved: `AdvisoryLockTypes` unconditionally, and `LockExcludes`, `NoUpdateLost` and `MetadataTrue`, crashes and recoveries
included, for any tasks, retries and crashes.

**`HandoffStore_proofs`**. Every operation has one of two shapes: it edits intents of one key along the
table (`Edited`) or appends one (`Grown`); lemma `StoreShapes` shows this for each disjunct of the
next-state relation. The invariant `StoreInv` is the type invariant plus `RevivalInv`: what is failed now is in `failedOnce`, and an intent with
a younger one of its key has failed or expired. That is what `UniqueUnlessRevived` needs and does not say.
Proved: `StoreTypeCorrect`, `UniqueUnlessRevivedHolds`, `TerminalIsFinalHolds` and `KeepsPromiseHolds`
(the store implements `HandoffPromise`: initial states map to initial states, an edit moves only its key's phase and
only out of open, a new intent opens a key that is none, open or lapsed).

**`HandoffMaintenance_proofs`** (assumptions: those of the store and `DeliveryAssumption`, of which the counting needs that
the calls are finitely many and that the budget is at least one). It holds the theorems of the delivery, of which the
passes are an extension, and those of the passes. A step leaves the store in one of two
shapes, as in `HandoffStore_proofs`, with what it may do to attempts, duplicates and escalations added (`Kept`); then
each action is shown to have its shape and to move one call.

* `BudgetInv`: the attempts on an intent *and the calls committed to one* (`Committed`: they await a dispatch, or
  stand on the ladder with a copy that has budget left) stay within
  `MaxTotal + Cardinality(Deliverer) - 1 + faults`. A copy has at most as many attempts as its intent, so nobody commits
  once the budget is spent; a recording trades a commitment for an attempt; only a lock timeout adds.
* `RecordInv` and `GoodCall`: what is settled has been recorded, unless the intent was closed by then. This is what
  makes the dispatches add up, and an escalation by the human rung justified.
* `GoodPass`: what a pass will supersede as a duplicate has a twin in the store, since intents neither vanish nor
  change their keys; that the older of two has failed or expired is the store's `RevivalInv`.

Proved: `DeliveryTypeCorrect`, `BudgetOverrunBoundedHolds`, `DispatchesOnRecordHolds` and `EscalationJustifiedHolds` for the
delivery, `MaintenanceTypeCorrect` and `TwinLostOnlyByRevivalHolds` for any number of passes beside it, and
`PassesBreakNothing`: the four facts about calls and store hold under the passes as well.

**`HandoffActivation_proofs`**. `ActivationInv` follows every call from the intent it picked to the jobs
it has left: its agenda is one of eight (`Agenda`), the intent it works on is in the store, and it
activates, or asks to keep as activated, only an intent whose switch has been written (`CallInv`). The
property alone does not say the last part and is not inductive without it. What the store does meanwhile
is summed up by `Moved(S)`: ids and keys stay, and only intents in `S` may have become activated. One lemma
for each action; `OneCallMoves` disposes of the calls an action does not touch. Proved:
`ActivationTypeCorrect` and `ActivatedOnlyAfterSwitchHolds`, crashes included, from `StoreAssumption`
and `ActivationAssumption`; the latter's clause that the components outside this module never ask for
`claimed` or `activated` is what the theorem needs of them.

**`RepairRouting_proofs`** (assumptions: `RoutingAssumption`, and `KeyAssumption`, that the keys routes build are
keys of the store). `RepairInv` is `Base` (types; what a route holds is an item of its failure, and a copy that was
open until it is charged; an item's budget is what its charges left) with three facts the properties do
not say and without which they are not inductive:

* `ElderInv`: an item that has a younger one of its failure is open only if a charge put it back. The
  property speaks of two open items; what is stable is a fact about the elder alone.
* `LoopInv`: until a human knows, the charges on an item and the routes in `Late`, those that hold a copy with
  two or more left and so will charge it without escalating, are together at most
  `Budget + Cardinality(Router) - 2`. A lookup adds a late route only while the item has two left; a charge
  trades a late route for a charge.
* told stays told (`KnowsKept`): the key a human is told under depends on the item's place and failure
  only, and the store drops no intent (`IntentsKept`, from the lemmas of `HandoffStore_proofs`); so the untold
  escalations grow by one with a call cut short and with nothing else.

One lemma per action. Proved: `RoutingTypeCorrect`, `TwinsOnlyByReopeningHolds`, `LoopIsHeardHolds` and
`EscalationIsToldHolds`, for every budget and every finite set of routers.

**`TaskGraph_proofs`** (assumption: `TaskGraphAssumption`). Between `Enter` and `Commit` an operation holds a graph that a
tick may make obsolete, so `TaskGraphInv` speaks of three graphs: the file's, the one an operation is about to write,
and those the ticks have merged. Each is good (a lease exactly on what is held, verdicts that match the status). The file
shows what sessions were told; the graph in an operation's hands differs from it in the operation's own answers
alone. `ScopesExclude` speaks of leases alone; what is stable is that the scopes on record
exclude one another (`LiveScopesExclude`) and that no unrenewed lease outlives its scope (`LeasesAreScoped`).
Proved: `TaskGraphTypeCorrect`, `ToldIsOnRecordHolds`, `ScopesExcludeHolds` and `VerdictMatchesStatusHolds`, for every plan,
set of sessions and lifetime.

**`BackgroundPool_proofs`** (assumption: `PoolAssumption`: finitely many sessions, runs and callers, and a placeholder that is
none of the values it stands in for). The registry is known only through copies that are written back late. `CopyTracks`
therefore says of every caller between its two accesses what `LiveRunsTracked` says of the registry, but for the runs recorded
since it read, and of a caller that deletes that no such run lives in the sessions it has left; without it a write-back
could forget anything. All of it is about the runs in
`Known`: at work, recorded, not lost sight of, and with nothing that says they are over, so that pruning's word for them is
"active" (`WriteBackTracks`). Which runs are `seeming` is left free: the theorems hold for whatever signs appear. `CapacityKept` counts the runs together with the leases granted
and not yet used. Proved: `PoolTypeCorrect`, `LiveRunsTrackedHolds`,
`CapacityOverrunBoundedHolds`, and the action properties `ReusesIdleHolds` and `DeletesOnlyRetiredHolds`.

**`RuntimeQueue_proofs`** (assumptions: `QueueAssumption` and `NoneAssumption`, that the placeholder is no queue entry). Five
properties, each with what it needs of the earlier ones; one lemma per action and invariant.

* `SpawnsOnRecord`, by `RecordInv`: a work that a caller
  is about to launch (`intent`, `launching`) is in the queue or among the erased. It is carried by `NothingLost`,
  which every step keeps: no write removes an entry without the history naming it, so it holds of the
  whole-file writes of stale entries too. No step but `Spawn` starts a run.
* `QueueTypeOK`, by `TypeInv`, which adds that a link points to a run of its work and what each caller has in hand where.
* `DuplicatesAreRaced`, by `RaceInv` about the runs that are *kept*: started, and not in `stray`. A kept run is linked or in its
  starter's hands (`KeptIsHeld`), and its starter was alone (`Overlapped`). The entry of a linked kept run
  says that it runs, in the file (`KeptIsCalm`) and in every copy that will be written (`CopyCalm`), so no
  one takes its work up (`HandFree`, `ToDoFree`). Two kept runs of one work contradict this; the property
  alone says nothing of entries, copies or links.
* `DoneStaysDone`, by `DoneInv`: of a completed work that the history has not noted for a caller, the caller's copy says
  completed as well, and the caller neither launches it nor has it on its list (`DoneKnown`); whoever
  completes a work is noted by all others (`DoneHeard`).
* `FreshWorkGetsATry`, by `FreshInv`, the same for the service and fresh works: it has launched none of them, does not miss
  a run of theirs and has not read their attempts as used up.

Proved: `SpawnsOnRecordHolds`, `QueueTypeCorrect`, `DuplicatesAreRacedHolds`, `DoneStaysDoneHolds` and
`FreshWorkGetsATryHolds`, for any number of works, requests, runs, budgets and faults. The runs have one work; the theorems
show that nothing hangs on that.

## 7. Only model-checked, and not modelled

* Liveness (`AbandonedLockRecovered`, `EveryAttemptEnds`, `DeliveryEnds`, `DispatchingMovesOn`,
  `FinishedIsCleared`, `WorkSettles`) stays with TLC: the prover does no reasoning about fairness or ENABLED.
* Every other property of the passing runs is stated by a theorem of section 6. What the theorems leave out
  is a lock with a crash and three or more contenders: there the properties are false (section 4).
* `owner_before_claim` checks a statement that the code does not keep; there is nothing to prove.
* A directory left between `mkdir` and `owner.json` by a crash is never recovered for callers without
  `staleMs`; `AbandonedLockRecovered` is stated for directories that name an owner.
* Abstracted everywhere: texts, payloads, timestamps other than expiry, event logs, the normalisation of
  malformed files, the reuse of pids by the operating system.
* Left out of `RuntimeQueue`: `dispatch_task` entries, provider-capacity cooldowns, the extra attempt after a
  tracking loss, gates on bindings, the 24-hour drop, the retirement of terminal papers, the legacy fallback,
  the touch after a thrown error; each start is taken as a new run, whatever the runtime makes of idempotency keys.
* The outboxes: an announcement that is replayed reconciles its queue entry once more
  (`workflow-announce-runtime.ts:66-180`) and may overwrite an entry that has been launched again.
* Not modelled at all: the content rules of the auto iterator and of stage completion (large decision
  tables over research artefacts), the domain services (literature, ideas, writing, experiments), the
  registration glue, and the dashboard, which only reads.

## 8. Running it

In this directory: `tlc -config <run>.cfg <MC module>` with the pairs in `PROJECT.json` ("runs"); `tlapm <module>_proofs.tla`.
