-------------------------------- MODULE TaskGraph --------------------------------
(***************************************************************************)
(* The task graph of a workflow stage (tools/workflow-team/task-graph.ts),  *)
(* the write scopes claimed with its tasks (workflow-handoff/write-scope.ts)*)
(* and the completion of tasks (workflow-team/task-hooks.ts).               *)
(*                                                                          *)
(* Sessions claim tasks, renew and release their leases and complete them;  *)
(* the service releases the tasks of sessions that have gone. Every one of  *)
(* these reads the graph and writes it back inside the graph's advisory     *)
(* lock. The auto iterator materialises the graph of the current stage on   *)
(* every tick: it reads, merges and writes without the lock, so a locked    *)
(* operation is two steps here, its read (with the claim of a write scope)  *)
(* and its write.                                                           *)
(*                                                                          *)
(* Time is what is left of each lease. Titles, reasons and events are left  *)
(* out, and so is the status optional, which no stage profile asks for.     *)
(***************************************************************************)
EXTENDS Naturals, Sequences, FiniteSets

CONSTANTS Task,       \* task ids
          Session,    \* session keys of the agents
          NoSession,  \* no lease
          Iterator,   \* running ticks of the auto iterator
          Role,       \* workflow roles
          Stage,      \* stages
          NoStage,    \* the graph has not been written yet
          Plan,       \* the tasks of each stage, in order
          OwnerOf,    \* owner of each task
          RoleOf,     \* the role each session acts in
          DependsOn,  \* dependsOn of each task
          PathsOf,    \* the paths of each task's write scope
          Ruled,      \* tasks with a verification rule
          Tracked,    \* tasks whose preview follows the evidence
          LeaseTtl,   \* lifetime of a task's lease
          ScopeTtl,   \* lifetime of a write scope's lease, by task
          Most        \* bounds: how often a tick starts, time passes, a process dies

ASSUME TaskGraphAssumption ==
    /\ NoSession \notin Session
    /\ NoStage \notin Stage
    /\ Plan \in [Stage -> Seq(Task)]
    /\ OwnerOf \in [Task -> Role]
    /\ RoleOf \in [Session -> Role]
    /\ DependsOn \in [Task -> SUBSET Task]
    /\ Ruled \subseteq Task
    /\ Tracked \subseteq Task
    /\ LeaseTtl \in Nat \ {0}
    /\ ScopeTtl \in [Task -> Nat]
    /\ Most \in [{"ticks", "time", "deaths"} -> Nat]
    /\ \A t \in Task : PathsOf[t] # {} /\ ScopeTtl[t] >= LeaseTtl

VARIABLES
    graph,    \* workflow-task-graph.json
    scopes,   \* workflow-write-scopes.json: what is left of each session's claims
    inside,   \* the operation that holds the graph's lock
    merged,   \* the graph each tick is about to write
    flow,     \* how far each session is with completing a task, and which
    told,     \* history: what is left of the leases each session was told it has
    left,     \* bounds: how often each of these may still happen
    renewed,  \* history: those of them that have been renewed
    dropped   \* history: those of them that a materialisation has replaced

taskGraphVars == <<graph, scopes, inside, merged, flow, told, left, renewed, dropped>>

Held == {"claimed", "verifying", "needs_repair"}

Verdict == {"not_required", "pending", "passed", "failed"}

Entry == [status: Held \cup {"claimable", "satisfied"},
          lease: Session \cup {NoSession},
          left: 0 .. LeaseTtl,
          check: Verdict]

TasksOf(st) == {Plan[st][n] : n \in DOMAIN Plan[st]}

NoGraph == [stage |-> NoStage, tasks |-> <<>>]

Graph == {NoGraph} \cup UNION {[stage: {st}, tasks: [TasksOf(st) -> Entry]] : st \in Stage}

Free == [by |-> NoSession]

Phase == {"idle", "mark", "verify", "repair", "complete", "next"}

-----------------------------------------------------------------------------
\* Entries.

Unchecked(t) == IF t \in Ruled THEN "pending" ELSE "not_required"

Claimable(t) == [status |-> "claimable", lease |-> NoSession, left |-> 0,
                 check |-> Unchecked(t)]

Expired(e) == e.lease # NoSession /\ e.left = 0

\* Mutant: the status is reset and the lease is left behind.
ReleaseStatusOnly(t, e) ==
    IF ~Expired(e) THEN e ELSE [e EXCEPT !.status = "claimable"]

\* A lapsed lease sends the task back to the queue.
ReleaseExpired(t, e) ==
    IF ~Expired(e) THEN e
    ELSE IF t \in Ruled /\ e.status = "needs_repair"
         THEN [Claimable(t) EXCEPT !.check = "failed"]
         ELSE Claimable(t)

ReleasedAll(g) == [g EXCEPT !.tasks = [t \in DOMAIN @ |-> ReleaseExpired(t, @[t])]]

DependenciesSatisfied(g, t) ==
    \A d \in DependsOn[t] : d \in DOMAIN g.tasks /\ g.tasks[d].status = "satisfied"

\* Session s holds task t: a lapsed lease that nobody has released yet counts.
Owns(g, s, t) ==
    /\ t \in DOMAIN g.tasks
    /\ g.tasks[t].status \in Held
    /\ g.tasks[t].lease = s

ClaimedBy(t, s) == [Claimable(t) EXCEPT !.status = "claimed", !.lease = s, !.left = LeaseTtl]

\* The live write scopes of other sessions that overlap with task t's.
Conflicts(s, t) ==
    {c \in (Session \ {s}) \X Task :
        scopes[c[1]][c[2]] > 0 /\ PathsOf[c[2]] \cap PathsOf[t] # {}}

-----------------------------------------------------------------------------
Init ==
    /\ graph = NoGraph
    /\ scopes = [s \in Session |-> [t \in Task |-> 0]]
    /\ inside = Free
    /\ merged = [m \in Iterator |-> NoGraph]
    /\ flow = [s \in Session |-> <<"idle", NoSession>>]
    /\ left = Most
    /\ told = [s \in Session |-> [t \in Task |-> 0]]
    /\ renewed = {}
    /\ dropped = {}

Spend(what) == left[what] > 0 /\ left' = [left EXCEPT ![what] = @ - 1]

\* Session s takes the lock and works out the graph it will write: gives and
\* takes are the tasks it will be told it has, or has no longer.
Enter(s, g, gives, takes, renewal) ==
    /\ inside = Free
    /\ inside' = [by |-> s, graph |-> g, gives |-> gives, takes |-> takes,
                  renewal |-> renewal]
    /\ UNCHANGED <<graph, merged, left, told, renewed, dropped>>

\* The write, the unlocking and the answer.
Commit ==
    /\ inside # Free
    /\ graph' = inside.graph
    /\ inside' = Free
    /\ LET s == inside.by
           answered == {s} \X (inside.gives \cup inside.takes) IN
         /\ told' = [told EXCEPT ![s] = [t \in Task |->
                        IF t \in inside.gives THEN inside.graph.tasks[t].left
                        ELSE IF t \in inside.takes THEN 0
                        ELSE @[t]]]
         /\ renewed' = (renewed \ answered)
                          \cup {x \in answered : inside.renewal /\ told'[s][x[2]] > 0}
         /\ dropped' = dropped \ answered
    /\ UNCHANGED <<scopes, merged, flow, left>>

Idle(s) == flow[s][1] = "idle"

Proceed(s, phase) == flow' = [flow EXCEPT ![s] = <<phase, @[2]>>]

Rest(s) == flow' = [flow EXCEPT ![s] = <<"idle", NoSession>>]

\* Mutant: somebody else's live lease is no obstacle.
MayTakeAny(g, s, t) ==
    g.tasks[t].status # "satisfied" /\ DependenciesSatisfied(g, t)

\* claimWorkflowTask's conditions, lapsed leases being released already.
MayTake(g, s, t) ==
    /\ g.tasks[t].status # "satisfied"
    /\ DependenciesSatisfied(g, t)
    /\ g.tasks[t].lease \in {NoSession, s}

\* Mutant: write scopes are recorded, but not compared.
ScopeFreeAlways(s, t) == TRUE

ScopeFree(s, t) == Conflicts(s, t) = {}

\* A claim that is granted: the write scope is claimed first, in a file and
\* under a lock of its own, then the graph is written. Of a session's claims on
\* one task's scope the latest lasts longest.
Take(s, g, t) ==
    /\ ScopeFree(s, t)
    /\ scopes' = [scopes EXCEPT ![s][t] = ScopeTtl[t]]
    /\ Enter(s, [g EXCEPT !.tasks[t] = ClaimedBy(t, s)], {t}, {}, FALSE)

\* claimWorkflowTask. Whatever lease the session already has is refreshed.
Claim(s, t) ==
    /\ Idle(s)
    /\ LET g == ReleasedAll(graph) IN
         /\ t \in DOMAIN g.tasks
         /\ MayTake(g, s, t)
         /\ Take(s, g, t)
    /\ UNCHANGED flow

\* The tasks claimNextWorkflowTaskForOwner may pick for session s.
Candidates(g, s) ==
    {t \in DOMAIN g.tasks : /\ g.tasks[t].status = "claimable"
                            /\ OwnerOf[t] = RoleOf[s]
                            /\ DependenciesSatisfied(g, t)}

\* t is the first of them in the graph's order.
First(g, s, t) ==
    \E n \in DOMAIN Plan[g.stage] :
        /\ Plan[g.stage][n] = t
        /\ \A m \in 1 .. n - 1 : Plan[g.stage][m] \notin Candidates(g, s)

\* claimNextWorkflowTaskForOwner, unless the session owns a task already or
\* nothing fits.
ClaimNext(s) ==
    /\ flow[s][1] \in {"idle", "next"}
    /\ LET g == ReleasedAll(graph) IN
         /\ \A t \in DOMAIN g.tasks : ~Owns(g, s, t)
         /\ \E t \in Candidates(g, s) : First(g, s, t) /\ Take(s, g, t)
    /\ Rest(s)

\* After a completion there may be nothing to claim.
NoNext(s) ==
    /\ flow[s][1] = "next"
    /\ inside = Free
    /\ LET g == ReleasedAll(graph) IN
         \/ \E t \in DOMAIN g.tasks : Owns(g, s, t)
         \/ Candidates(g, s) = {}
         \/ \E t \in Candidates(g, s) : First(g, s, t) /\ ~ScopeFree(s, t)
    /\ Rest(s)
    /\ UNCHANGED <<graph, scopes, inside, merged, left, told, renewed, dropped>>

\* renewWorkflowTaskLease: the lease may have lapsed, the write scope's own
\* lease is left as it is.
Renew(s, t) ==
    /\ Idle(s)
    /\ Owns(graph, s, t)
    /\ Enter(s, [graph EXCEPT !.tasks[t].left = LeaseTtl], {t}, {}, TRUE)
    /\ UNCHANGED <<scopes, flow>>

\* releaseWorkflowTaskClaim. The write scope is not released.
Release(s, t) ==
    /\ Idle(s)
    /\ Owns(graph, s, t)
    /\ Enter(s, [graph EXCEPT !.tasks[t] = Claimable(t)], {}, {t}, FALSE)
    /\ UNCHANGED <<scopes, flow>>

\* releaseWorkflowTasksForSession: the service has found session s gone.
ReleaseSession(s) ==
    /\ \E t \in DOMAIN graph.tasks : Owns(graph, s, t)
    /\ Enter(s, [graph EXCEPT !.tasks =
                   [t \in DOMAIN @ |-> IF Owns(graph, s, t) THEN Claimable(t) ELSE @[t]]],
             {}, Task, FALSE)
    /\ UNCHANGED <<scopes, flow>>

-----------------------------------------------------------------------------
\* completeWorkflowTaskAndContinue: mark, verify, then repair or complete and
\* claim the next. Each is a call of its own, refused or not.

StartCompletion(s, t) ==
    /\ Idle(s)
    /\ inside.by # s
    /\ t \in DOMAIN graph.tasks
    /\ flow' = [flow EXCEPT ![s] = <<"mark", t>>]
    /\ UNCHANGED <<graph, scopes, inside, merged, left, told, renewed, dropped>>

\* A call on the task that session s is completing: a locked write of entry e,
\* or a refusal.
Edit(s, allowed, e, gives, takes) ==
    LET t == flow[s][2] IN
      /\ inside = Free
      /\ IF Owns(graph, s, t) /\ graph.tasks[t].status \in allowed
         THEN Enter(s, [graph EXCEPT !.tasks[t] = e], gives, takes, FALSE)
         ELSE UNCHANGED <<graph, inside, merged, left, told, renewed, dropped>>
      /\ UNCHANGED scopes

\* The entry of the task that session s is completing, with another status.
Marked(s, status, check) ==
    LET t == flow[s][2] IN
      [graph.tasks[t] EXCEPT !.status = status,
                             !.check = IF t \in Ruled THEN check ELSE "not_required"]

\* markWorkflowTaskVerifying; the caller does not ask whether it was refused.
MarkVerifying(s) ==
    /\ flow[s][1] = "mark"
    /\ Edit(s, {"claimed", "needs_repair"}, Marked(s, "verifying", "pending"), {}, {})
    /\ Proceed(s, "verify")

\* The manifest's evidence and the completion hooks are awaited.
Verify(s) ==
    /\ flow[s][1] = "verify"
    /\ inside.by # s
    /\ Proceed(s, "repair") \/ Proceed(s, "complete")
    /\ UNCHANGED <<graph, scopes, inside, merged, left, told, renewed, dropped>>

\* markWorkflowTaskNeedsRepair.
MarkNeedsRepair(s) ==
    /\ flow[s][1] = "repair"
    /\ Edit(s, Held, Marked(s, "needs_repair", "failed"), {}, {})
    /\ Rest(s)

\* Mutant: the task is completed whoever holds its lease now.
MayCompleteAny(s, t) == t \in DOMAIN graph.tasks /\ graph.tasks[t].status \in Held

\* completeWorkflowTask's condition.
MayComplete(s, t) == Owns(graph, s, t) /\ graph.tasks[t].status # "needs_repair"

\* completeWorkflowTask; if it is not refused the session looks for more.
Complete(s) ==
    /\ flow[s][1] = "complete"
    /\ inside = Free
    /\ LET t == flow[s][2] IN
         IF MayComplete(s, t)
         THEN /\ Enter(s, [graph EXCEPT !.tasks[t] = [Marked(s, "satisfied", "passed")
                                 EXCEPT !.lease = NoSession, !.left = 0]],
                       {}, {t}, FALSE)
              /\ Proceed(s, "next")
         ELSE /\ Rest(s)
              /\ UNCHANGED <<graph, inside, merged, left, told, renewed, dropped>>
    /\ UNCHANGED scopes

-----------------------------------------------------------------------------
\* The auto iterator: materializeWorkflowTaskGraph.

\* What the preview says of task t when the evidence is ready or not.
Ready(t, ready) == ready /\ t \in Tracked

\* Mutant: the verdict of the preview alone.
PreviewVerdict(t, old, ready) == IF Ready(t, ready) /\ t \in Ruled THEN "passed" ELSE Unchecked(t)

MergedVerdict(t, old, ready) ==
    CASE old.status = "satisfied" -> "passed"
      [] old.status = "needs_repair" -> "failed"
      [] OTHER -> IF t \in Ruled /\ Ready(t, ready) THEN "passed" ELSE Unchecked(t)

\* A leased task keeps its status; every other one has the preview's, even if
\* it was completed.
Merged(g, st, ready) ==
    [stage |-> st,
     tasks |-> [t \in TasksOf(st) |->
        LET old == IF g.stage = st THEN g.tasks[t] ELSE Claimable(t)
            kept == old.status \in Held /\ old.lease # NoSession
        IN [status |-> IF kept THEN old.status
                       ELSE IF Ready(t, ready) THEN "satisfied" ELSE "claimable",
            lease |-> IF kept THEN old.lease ELSE NoSession,
            left |-> IF kept THEN old.left ELSE 0,
            check |-> MergedVerdict(t, old, ready)]]]

\* The tick reads the graph and merges it with the stage's preview ...
ReadGraph(m) ==
    /\ merged[m] = NoGraph
    /\ Spend("ticks")
    /\ \E st \in Stage, ready \in BOOLEAN :
         merged' = [merged EXCEPT ![m] = Merged(graph, st, ready)]
    /\ UNCHANGED <<graph, scopes, inside, flow, told, renewed, dropped>>

\* The lease that graph g knows for task t.
LeaseIn(g, t) ==
    IF t \in DOMAIN g.tasks THEN <<g.tasks[t].lease, g.tasks[t].left>>
    ELSE <<NoSession, 0>>

\* ... and writes it, whatever has happened to the graph since.
WriteGraph(m) ==
    /\ merged[m] # NoGraph
    /\ graph' = merged[m]
    /\ merged' = [merged EXCEPT ![m] = NoGraph]
    /\ dropped' = dropped \cup
           {x \in Session \X Task : /\ told[x[1]][x[2]] > 0
                                    /\ LeaseIn(graph, x[2]) # LeaseIn(merged[m], x[2])}
    /\ UNCHANGED <<scopes, inside, flow, left, told, renewed>>

-----------------------------------------------------------------------------
\* Time and death.

Less(n) == IF n = 0 THEN 0 ELSE n - 1

Older(e) == [e EXCEPT !.left = Less(@)]

Aged(g) == [g EXCEPT !.tasks = [t \in DOMAIN @ |-> Older(@[t])]]

AllLess(lefts) == [s \in Session |-> [t \in Task |-> Less(lefts[s][t])]]

\* One unit of time passes for every lease, read, written or about to be.
PassTime ==
    /\ Spend("time")
    /\ graph' = Aged(graph)
    /\ scopes' = AllLess(scopes)
    /\ inside' = IF inside = Free THEN Free ELSE [inside EXCEPT !.graph = Aged(@)]
    /\ merged' = [m \in Iterator |-> Aged(merged[m])]
    /\ told' = AllLess(told)
    /\ renewed' = {x \in renewed : told'[x[1]][x[2]] > 0}
    /\ dropped' = {x \in dropped : told'[x[1]][x[2]] > 0}
    /\ UNCHANGED flow

\* The process dies with the lock, which the next caller recovers; its write
\* scope stays claimed.
Die ==
    /\ inside # Free
    /\ Spend("deaths")
    /\ inside' = Free
    /\ flow' = [flow EXCEPT ![inside.by] = <<"idle", NoSession>>]
    /\ UNCHANGED <<graph, scopes, merged, told, renewed, dropped>>

Next ==
    \/ \E s \in Session :
         \/ \E t \in Task : Claim(s, t) \/ Renew(s, t) \/ Release(s, t) \/ StartCompletion(s, t)
         \/ ClaimNext(s) \/ NoNext(s) \/ ReleaseSession(s)
         \/ MarkVerifying(s) \/ Verify(s) \/ MarkNeedsRepair(s) \/ Complete(s)
    \/ Commit
    \/ \E m \in Iterator : ReadGraph(m) \/ WriteGraph(m)
    \/ PassTime
    \/ Die

Spec == Init /\ [][Next]_taskGraphVars

-----------------------------------------------------------------------------
\* The type invariant of the task graph, with the one structural rule every
\* operation leans on: a task has a lease exactly as long as it is held.
TaskGraphTypeOK ==
    /\ graph \in Graph
    /\ scopes \in [Session -> [Task -> Nat]]
    /\ inside # Free => inside.by \in Session /\ inside.graph \in Graph
    /\ merged \in [Iterator -> Graph]
    /\ flow \in [Session -> Phase \X (Task \cup {NoSession})]
    /\ told \in [Session -> [Task -> 0 .. LeaseTtl]]
    /\ renewed \subseteq Session \X Task
    /\ dropped \subseteq Session \X Task
    /\ \A t \in DOMAIN graph.tasks :
         graph.tasks[t].lease # NoSession <=> graph.tasks[t].status \in Held

\* What a session was told stays true: while a lease it was granted or renewed
\* has not run out, the graph shows the task as its own, with that lease, unless
\* a materialisation has replaced the lease (claim, renew, complete and the
\* service's releases, against each other and against lapsing leases).
ToldIsOnRecord ==
    \A s \in Session, t \in Task :
        told[s][t] > 0 /\ <<s, t>> \notin dropped
            => /\ t \in DOMAIN graph.tasks
               /\ graph.tasks[t].lease = s
               /\ graph.tasks[t].left = told[s][t]

\* Two sessions never hold leases on tasks with overlapping write scopes, even
\* where a materialisation has handed the task out twice, unless one of the
\* leases was renewed (a renewal does not extend the write scope).
ScopesExclude ==
    \A s, r \in Session, t, u \in Task :
        s # r /\ told[s][t] > 0 /\ told[r][u] > 0 /\ PathsOf[t] \cap PathsOf[u] # {}
            => renewed \cap {<<s, t>>, <<r, u>>} # {}

\* A task with a verification rule is shown satisfied only with a passed
\* verification, and in repair only with a failed one, through every
\* materialisation, lapse and re-claim (the dashboard reads both).
VerdictMatchesStatus ==
    \A t \in DOMAIN graph.tasks \cap Ruled :
        /\ graph.tasks[t].status = "satisfied" => graph.tasks[t].check = "passed"
        /\ graph.tasks[t].status = "needs_repair" => graph.tasks[t].check = "failed"
=============================================================================
