---------------------------- MODULE TaskGraph_proofs ----------------------------
(***************************************************************************)
(* What the task graph, its leases and the write scopes guarantee for every *)
(* set of tasks, sessions, ticks and stages, every plan and every lifetime. *)
(* Every locked operation works out a graph (Enter) and writes it later     *)
(* (Commit), and a tick may replace the file in between: the invariant      *)
(* speaks of the file, of the graph an operation is about to write and of   *)
(* the graphs the ticks are about to write alike.                           *)
(***************************************************************************)
EXTENDS TaskGraph, TLAPS

\* An entry has a lease exactly while the task is held, and a task with a
\* verification rule is satisfied or in repair with the verdict to match.
GoodEntry(t, e) ==
    /\ e \in Entry
    /\ e.lease # NoSession <=> e.status \in Held
    /\ t \in Ruled => /\ e.status = "satisfied" => e.check = "passed"
                      /\ e.status = "needs_repair" => e.check = "failed"

GoodGraph(g) ==
    /\ g \in Graph
    /\ \A t \in DOMAIN g.tasks : GoodEntry(t, g.tasks[t])

\* Graph g shows the leases that sessions were told they have, the pairs in but
\* and the leases that a materialisation has replaced left aside.
ShowsTold(g, but) ==
    \A s \in Session, t \in Task :
        told[s][t] > 0 /\ <<s, t>> \notin dropped /\ <<s, t>> \notin but
            => /\ t \in DOMAIN g.tasks
               /\ g.tasks[t].lease = s
               /\ g.tasks[t].left = told[s][t]

\* The leases that operation op will tell its session about.
Answers(op) == {op.by} \X (op.gives \cup op.takes)

Operation == [by: Session, graph: Graph, gives: SUBSET Task, takes: SUBSET Task,
              renewal: BOOLEAN]

\* The graph that operation op is about to write is good, differs from what
\* sessions were told only in what it answers, and gives op's session leases
\* that are no longer than its write scopes, a renewal excepted.
GoodOperation(op) ==
    /\ op \in Operation
    /\ GoodGraph(op.graph)
    /\ ShowsTold(op.graph, Answers(op))
    /\ \A t \in op.gives :
         /\ t \in DOMAIN op.graph.tasks
         /\ op.graph.tasks[t].lease = op.by
         /\ op.renewal \/ scopes[op.by][t] >= op.graph.tasks[t].left

\* No two sessions have live claims on overlapping write scopes.
LiveScopesExclude ==
    \A s, r \in Session, t, u \in Task :
        s # r /\ PathsOf[t] \cap PathsOf[u] # {}
            => ~(scopes[s][t] > 0 /\ scopes[r][u] > 0)

\* A lease that was never renewed has not outlived its write scope.
LeasesAreScoped ==
    \A s \in Session, t \in Task :
        told[s][t] > 0 /\ <<s, t>> \notin renewed => scopes[s][t] >= told[s][t]

VariablesTyped ==
    /\ scopes \in [Session -> [Task -> Nat]]
    /\ merged \in [Iterator -> Graph]
    /\ flow \in [Session -> Phase \X (Task \cup {NoSession})]
    /\ told \in [Session -> [Task -> 0 .. LeaseTtl]]
    /\ renewed \subseteq Session \X Task
    /\ dropped \subseteq Session \X Task

GraphsGood ==
    /\ GoodGraph(graph)
    /\ \A m \in Iterator : GoodGraph(merged[m])

TaskGraphInv ==
    /\ VariablesTyped
    /\ GraphsGood
    /\ inside = Free \/ GoodOperation(inside)
    /\ ShowsTold(graph, {})
    /\ LiveScopesExclude
    /\ LeasesAreScoped

-----------------------------------------------------------------------------
\* What a graph is made of.
LEMMA GraphParts ==
    ASSUME NEW g \in Graph
    PROVE  /\ g = [stage |-> g.stage, tasks |-> g.tasks]
           /\ g.tasks \in [DOMAIN g.tasks -> Entry]
           /\ DOMAIN g.tasks \subseteq Task
           /\ g.stage \in Stage => DOMAIN g.tasks = TasksOf(g.stage)
           /\ g.stage \notin Stage => g = NoGraph
<1>1. CASE g = NoGraph
  <2>1. g.stage = NoStage /\ g.tasks = <<>>
    BY <1>1 DEF NoGraph
  <2>2. <<>> \in [{} -> Entry] /\ DOMAIN <<>> = {}
    OBVIOUS
  <2>3. g.stage \notin Stage
    BY <2>1, TaskGraphAssumption
  <2> QED BY <1>1, <2>1, <2>2, <2>3 DEF NoGraph
<1>2. ASSUME NEW st \in Stage, g \in [stage: {st}, tasks: [TasksOf(st) -> Entry]]
      PROVE  /\ g = [stage |-> g.stage, tasks |-> g.tasks]
             /\ g.tasks \in [DOMAIN g.tasks -> Entry]
             /\ DOMAIN g.tasks \subseteq Task
             /\ g.stage \in Stage /\ DOMAIN g.tasks = TasksOf(g.stage)
  <2>1. \A n \in DOMAIN Plan[st] : Plan[st][n] \in Task
    BY TaskGraphAssumption
  <2>2. TasksOf(st) \subseteq Task
    BY <2>1 DEF TasksOf
  <2> QED BY <1>2, <2>2
<1> QED BY <1>1, <1>2 DEF Graph

\* Replacing the entries of a graph makes a graph.
LEMMA Rewritten ==
    ASSUME NEW g \in Graph, NEW f \in [DOMAIN g.tasks -> Entry],
           \A t \in DOMAIN g.tasks : GoodEntry(t, f[t])
    PROVE  /\ GoodGraph([g EXCEPT !.tasks = f])
           /\ [g EXCEPT !.tasks = f].tasks = f
           /\ [g EXCEPT !.tasks = f].stage = g.stage
<1> DEFINE h == [g EXCEPT !.tasks = f]
<1>1. h = [stage |-> g.stage, tasks |-> f]
  BY GraphParts
<1>2. CASE g.stage \in Stage
  BY <1>1, <1>2, GraphParts DEF Graph, GoodGraph
<1>3. CASE g.stage \notin Stage
  <2>1. g = NoGraph /\ DOMAIN g.tasks = {}
    BY <1>3, GraphParts DEF NoGraph
  <2>2. f = <<>>
    BY <2>1
  <2> QED BY <1>1, <2>1, <2>2 DEF Graph, GoodGraph, NoGraph
<1> QED BY <1>2, <1>3

\* Replacing one entry.
LEMMA Replaced ==
    ASSUME NEW g, GoodGraph(g), NEW t \in DOMAIN g.tasks, NEW e, GoodEntry(t, e)
    PROVE  /\ GoodGraph([g EXCEPT !.tasks[t] = e])
           /\ DOMAIN [g EXCEPT !.tasks[t] = e].tasks = DOMAIN g.tasks
           /\ \A u \in DOMAIN g.tasks :
                [g EXCEPT !.tasks[t] = e].tasks[u] = IF u = t THEN e ELSE g.tasks[u]
<1> DEFINE f == [g.tasks EXCEPT ![t] = e]
<1>1. g \in Graph /\ g.tasks \in [DOMAIN g.tasks -> Entry]
  BY GraphParts DEF GoodGraph
<1>2. f \in [DOMAIN g.tasks -> Entry] /\ \A u \in DOMAIN g.tasks : GoodEntry(u, f[u])
  BY <1>1 DEF GoodGraph, GoodEntry
<1>3. [g EXCEPT !.tasks[t] = e] = [g EXCEPT !.tasks = f]
  BY <1>1, GraphParts
<1>4. GoodGraph([g EXCEPT !.tasks = f]) /\ [g EXCEPT !.tasks = f].tasks = f
  <2> HIDE DEF f
  <2> QED BY <1>1, <1>2, Rewritten
<1>5. GoodGraph([g EXCEPT !.tasks[t] = e]) /\ [g EXCEPT !.tasks[t] = e].tasks = f
  <2> HIDE DEF f
  <2> QED BY <1>3, <1>4
<1> QED BY <1>1, <1>5

\* A released task's entry is good.
LEMMA ClaimableGood == ASSUME NEW t PROVE GoodEntry(t, Claimable(t))
BY TaskGraphAssumption DEF GoodEntry, Claimable, Unchecked, Entry, Verdict, Held

\* So is that of a task just claimed.
LEMMA ClaimedGood ==
    ASSUME NEW t, NEW s \in Session
    PROVE  /\ GoodEntry(t, ClaimedBy(t, s))
           /\ ClaimedBy(t, s).lease = s
           /\ ClaimedBy(t, s).left = LeaseTtl
<1>1. ClaimedBy(t, s) = [status |-> "claimed", lease |-> s, left |-> LeaseTtl,
                         check |-> Unchecked(t)]
  <2>1. PICK c : c = Claimable(t)
    OBVIOUS
  <2>2. c = [status |-> "claimable", lease |-> NoSession, left |-> 0, check |-> Unchecked(t)]
    BY <2>1 DEF Claimable
  <2>3. ClaimedBy(t, s) = [c EXCEPT !.status = "claimed", !.lease = s, !.left = LeaseTtl]
    BY <2>1 DEF ClaimedBy
  <2> QED BY <2>2, <2>3
<1>2. Unchecked(t) \in Verdict
  BY DEF Unchecked, Verdict
<1> QED BY <1>1, <1>2, TaskGraphAssumption DEF GoodEntry, Entry, Held

\* The release of lapsed leases touches nothing that is still leased.
LEMMA ReleasedGood ==
    ASSUME NEW g, GoodGraph(g)
    PROVE  /\ GoodGraph(ReleasedAll(g))
           /\ DOMAIN ReleasedAll(g).tasks = DOMAIN g.tasks
           /\ \A t \in DOMAIN g.tasks :
                /\ ReleasedAll(g).tasks[t] = ReleaseExpired(t, g.tasks[t])
                /\ g.tasks[t].left > 0 /\ g.tasks[t].lease # NoSession
                      => ReleasedAll(g).tasks[t] = g.tasks[t]
<1> DEFINE f == [t \in DOMAIN g.tasks |-> ReleaseExpired(t, g.tasks[t])]
<1>1. \A t \in DOMAIN g.tasks : GoodEntry(t, ReleaseExpired(t, g.tasks[t]))
  <2> TAKE t \in DOMAIN g.tasks
  <2>1. GoodEntry(t, g.tasks[t])
    BY DEF GoodGraph
  <2>2. GoodEntry(t, [Claimable(t) EXCEPT !.check = "failed"])
    <3>1. [Claimable(t) EXCEPT !.check = "failed"] =
            [status |-> "claimable", lease |-> NoSession, left |-> 0, check |-> "failed"]
      BY DEF Claimable
    <3>2. GoodEntry(t, [status |-> "claimable", lease |-> NoSession, left |-> 0,
                        check |-> "failed"])
      BY TaskGraphAssumption DEF GoodEntry, Entry, Verdict, Held
    <3> QED BY <3>1, <3>2
  <2> QED BY <2>1, <2>2, ClaimableGood DEF ReleaseExpired
<1>2. f \in [DOMAIN g.tasks -> Entry] /\ \A t \in DOMAIN g.tasks : GoodEntry(t, f[t])
  BY <1>1 DEF GoodEntry
<1>3. GoodGraph([g EXCEPT !.tasks = f]) /\ [g EXCEPT !.tasks = f].tasks = f
  <2> HIDE DEF f
  <2> QED BY <1>2, Rewritten DEF GoodGraph
<1>4. ReleasedAll(g) = [g EXCEPT !.tasks = f]
  BY DEF ReleasedAll
<1>5. GoodGraph(ReleasedAll(g)) /\ ReleasedAll(g).tasks = f
  <2> HIDE DEF f
  <2> QED BY <1>3, <1>4
<1>6. \A t \in DOMAIN g.tasks : g.tasks[t].left > 0 => ReleaseExpired(t, g.tasks[t]) = g.tasks[t]
  BY DEF ReleaseExpired, Expired
<1> HIDE DEF f
<1> QED BY <1>5, <1>6 DEF f

\* The service's release of all tasks of a session.
LEMMA SessionReleasedGood ==
    ASSUME NEW g, GoodGraph(g), NEW s \in Session
    PROVE  LET h == [g EXCEPT !.tasks =
                       [t \in DOMAIN @ |-> IF Owns(g, s, t) THEN Claimable(t) ELSE @[t]]]
           IN  /\ GoodGraph(h)
               /\ DOMAIN h.tasks = DOMAIN g.tasks
               /\ \A t \in DOMAIN g.tasks : g.tasks[t].lease # s => h.tasks[t] = g.tasks[t]
<1> DEFINE f == [t \in DOMAIN g.tasks |-> IF Owns(g, s, t) THEN Claimable(t) ELSE g.tasks[t]]
           h == [g EXCEPT !.tasks =
                   [t \in DOMAIN @ |-> IF Owns(g, s, t) THEN Claimable(t) ELSE @[t]]]
<1>1. f \in [DOMAIN g.tasks -> Entry] /\ \A t \in DOMAIN g.tasks : GoodEntry(t, f[t])
  BY ClaimableGood DEF GoodGraph, GoodEntry
<1>2. GoodGraph([g EXCEPT !.tasks = f]) /\ [g EXCEPT !.tasks = f].tasks = f
  <2> HIDE DEF f
  <2> QED BY <1>1, Rewritten DEF GoodGraph
<1>3. h = [g EXCEPT !.tasks = f]
  OBVIOUS
<1>4. GoodGraph(h) /\ h.tasks = f
  <2> HIDE DEF f, h
  <2> QED BY <1>2, <1>3
<1>5. \A t \in DOMAIN g.tasks : g.tasks[t].lease # s => f[t] = g.tasks[t]
  BY DEF Owns
<1>6. DOMAIN f = DOMAIN g.tasks
  OBVIOUS
<1> HIDE DEF f, h
<1>7. /\ GoodGraph(h)
      /\ DOMAIN h.tasks = DOMAIN g.tasks
      /\ \A t \in DOMAIN g.tasks : g.tasks[t].lease # s => h.tasks[t] = g.tasks[t]
  BY <1>4, <1>5, <1>6
<1> QED BY <1>7 DEF h

\* Time shortens the leases of a graph and changes nothing else of it.
LEMMA AgedGood ==
    ASSUME NEW g, GoodGraph(g)
    PROVE  /\ GoodGraph(Aged(g))
           /\ DOMAIN Aged(g).tasks = DOMAIN g.tasks
           /\ \A t \in DOMAIN g.tasks :
                Aged(g).tasks[t] = Older(g.tasks[t])
<1> DEFINE f == [t \in DOMAIN g.tasks |-> Older(g.tasks[t])]
<1>1. \A t \in DOMAIN g.tasks : GoodEntry(t, Older(g.tasks[t]))
  <2> TAKE t \in DOMAIN g.tasks
  <2>1. GoodEntry(t, g.tasks[t])
    BY DEF GoodGraph
  <2>2. \A n \in 0 .. LeaseTtl : Less(n) \in 0 .. LeaseTtl
    BY TaskGraphAssumption DEF Less
  <2> QED BY <2>1, <2>2 DEF GoodEntry, Entry, Older
<1>2. f \in [DOMAIN g.tasks -> Entry] /\ \A t \in DOMAIN g.tasks : GoodEntry(t, f[t])
  BY <1>1 DEF GoodEntry
<1>3. GoodGraph([g EXCEPT !.tasks = f]) /\ [g EXCEPT !.tasks = f].tasks = f
  <2> HIDE DEF f
  <2> QED BY <1>2, Rewritten DEF GoodGraph
<1>4. Aged(g) = [g EXCEPT !.tasks = f]
  BY DEF Aged
<1>5. GoodGraph(Aged(g)) /\ Aged(g).tasks = f
  <2> HIDE DEF f
  <2> QED BY <1>3, <1>4
<1> HIDE DEF f
<1> QED BY <1>5 DEF f

\* A materialisation merges a good graph into a good one.
LEMMA MergedGood ==
    ASSUME NEW g, GoodGraph(g), NEW st \in Stage, NEW ready \in BOOLEAN
    PROVE  GoodGraph(Merged(g, st, ready))
<1> DEFINE h == Merged(g, st, ready)
           old(t) == IF g.stage = st THEN g.tasks[t] ELSE Claimable(t)
           kept(t) == old(t).status \in Held /\ old(t).lease # NoSession
           e(t) == [status |-> IF kept(t) THEN old(t).status
                               ELSE IF Ready(t, ready) THEN "satisfied" ELSE "claimable",
                    lease |-> IF kept(t) THEN old(t).lease ELSE NoSession,
                    left |-> IF kept(t) THEN old(t).left ELSE 0,
                    check |-> MergedVerdict(t, old(t), ready)]
<1>1. h = [stage |-> st, tasks |-> [t \in TasksOf(st) |-> e(t)]]
  BY DEF Merged
<1>2. \A t \in TasksOf(st) : GoodEntry(t, old(t))
  BY GraphParts, ClaimableGood DEF GoodGraph
<1>3. \A t \in TasksOf(st) : GoodEntry(t, e(t))
  <2> SUFFICES ASSUME NEW t \in TasksOf(st) PROVE GoodEntry(t, e(t))
    OBVIOUS
  <2>1. PICK o : o = old(t)
    OBVIOUS
  <2>2. GoodEntry(t, o)
    BY <1>2, <2>1
  <2>3. MergedVerdict(t, o, ready) \in Verdict
    BY <2>2 DEF MergedVerdict, Unchecked, Verdict
  <2>4. e(t) = [status |-> IF o.status \in Held /\ o.lease # NoSession THEN o.status
                           ELSE IF Ready(t, ready) THEN "satisfied" ELSE "claimable",
                lease |-> IF o.status \in Held /\ o.lease # NoSession THEN o.lease ELSE NoSession,
                left |-> IF o.status \in Held /\ o.lease # NoSession THEN o.left ELSE 0,
                check |-> MergedVerdict(t, o, ready)]
    BY <2>1
  <2> HIDE DEF e
  <2>5. e(t) \in Entry
    BY <2>2, <2>3, <2>4, TaskGraphAssumption DEF GoodEntry, Entry, Held
  <2>6. e(t).lease # NoSession <=> e(t).status \in Held
    BY <2>2, <2>4 DEF GoodEntry, Held
  <2>7. t \in Ruled => /\ e(t).status = "satisfied" => e(t).check = "passed"
                       /\ e(t).status = "needs_repair" => e(t).check = "failed"
    BY <2>2, <2>4 DEF GoodEntry, Held, MergedVerdict, Ready
  <2> QED BY <2>5, <2>6, <2>7 DEF GoodEntry
<1> HIDE DEF e
<1>4. [t \in TasksOf(st) |-> e(t)] \in [TasksOf(st) -> Entry]
  BY <1>3 DEF GoodEntry
<1>5. h \in Graph
  BY <1>1, <1>4 DEF Graph
<1> QED BY <1>1, <1>3, <1>5 DEF GoodGraph

-----------------------------------------------------------------------------
\* Moving on in a completion, or resting, keeps the type of flow.
LEMMA FlowTyped ==
    ASSUME VariablesTyped, NEW s \in Session,
           Rest(s) \/ (\E phase \in Phase : Proceed(s, phase)) \/ UNCHANGED flow
           \/ (\E t \in Task : flow' = [flow EXCEPT ![s] = <<"mark", t>>])
    PROVE  flow' \in [Session -> Phase \X (Task \cup {NoSession})]
BY DEF VariablesTyped, Rest, Proceed, Phase

\* A step that changes no more than flow keeps the invariant.
LEMMA FlowStep ==
    ASSUME TaskGraphInv, UNCHANGED <<graph, scopes, inside, merged, told, renewed, dropped>>,
           flow' \in [Session -> Phase \X (Task \cup {NoSession})]
    PROVE  TaskGraphInv'
BY DEF TaskGraphInv, VariablesTyped, GraphsGood, GoodOperation, ShowsTold, LiveScopesExclude,
       LeasesAreScoped

\* Graph g has the leases that an operation of session s gives, no longer than the
\* scopes it has claimed, a renewal excepted.
GivesLeases(s, g, gives, renewal) ==
    \A t \in gives : /\ t \in DOMAIN g.tasks
                     /\ g.tasks[t].lease = s
                     /\ renewal \/ scopes'[s][t] >= g.tasks[t].left

\* Write scopes are claimed, anew or again, and none is cut short.
ScopesGrow ==
    /\ scopes' \in [Session -> [Task -> Nat]]
    /\ \A r \in Session, t \in Task :
         scopes'[r][t] >= scopes[r][t] \/ scopes'[r][t] >= LeaseTtl
    /\ LiveScopesExclude'

\* An operation that enters with a good graph, having claimed the scopes of the
\* leases it gives.
LEMMA EnterStep ==
    ASSUME TaskGraphInv, NEW s \in Session, NEW g, NEW gives \in SUBSET Task,
           NEW takes \in SUBSET Task, NEW renewal \in BOOLEAN,
           Enter(s, g, gives, takes, renewal),
           GoodGraph(g), ShowsTold(g, {s} \X (gives \cup takes)),
           GivesLeases(s, g, gives, renewal), ScopesGrow,
           flow' \in [Session -> Phase \X (Task \cup {NoSession})]
    PROVE  TaskGraphInv'
<1>1. UNCHANGED <<graph, merged, told, renewed, dropped>>
  BY DEF Enter
<1>2. PICK op : op = [by |-> s, graph |-> g, gives |-> gives, takes |-> takes,
                      renewal |-> renewal]
  OBVIOUS
<1>3. inside' = op
  BY <1>2 DEF Enter
<1>4. GoodOperation(op)'
  <2>1. op \in Operation
    BY <1>2 DEF Operation, GoodGraph
  <2>2. ShowsTold(op.graph, Answers(op))'
    <3>1. Answers(op) = {s} \X (gives \cup takes) /\ op.graph = g
      BY <1>2 DEF Answers
    <3>2. ShowsTold(g, {s} \X (gives \cup takes))'
      BY <1>1 DEF ShowsTold
    <3> QED BY <3>1, <3>2
  <2>3. /\ op.by = s /\ op.graph = g /\ op.gives = gives /\ op.renewal = renewal
    BY <1>2
  <2> QED BY <2>1, <2>2, <2>3 DEF GoodOperation, GivesLeases
<1>5. GoodOperation(inside)'
  BY <1>3, <1>4 DEF GoodOperation, ShowsTold
<1>6. VariablesTyped' /\ GraphsGood' /\ ShowsTold(graph, {})'
  BY <1>1 DEF TaskGraphInv, VariablesTyped, GraphsGood, ShowsTold, ScopesGrow
<1>7. LeasesAreScoped'
  <2> SUFFICES ASSUME NEW r \in Session, NEW t \in Task, told[r][t] > 0,
                      <<r, t>> \notin renewed
               PROVE  scopes'[r][t] >= told[r][t]
    BY <1>1 DEF LeasesAreScoped
  <2>1. scopes[r][t] >= told[r][t]
    BY DEF TaskGraphInv, LeasesAreScoped
  <2>2. scopes[r][t] \in Nat /\ scopes'[r][t] \in Nat /\ told[r][t] \in Nat
    BY TaskGraphAssumption DEF TaskGraphInv, VariablesTyped, ScopesGrow
  <2>3. scopes'[r][t] >= scopes[r][t] \/ scopes'[r][t] >= LeaseTtl
    BY DEF ScopesGrow
  <2>4. told[r][t] <= LeaseTtl
    BY TaskGraphAssumption DEF TaskGraphInv, VariablesTyped
  <2> QED BY <2>1, <2>2, <2>3, <2>4, TaskGraphAssumption
<1>8. LiveScopesExclude'
  BY DEF ScopesGrow
<1> QED BY <1>5, <1>6, <1>7, <1>8 DEF TaskGraphInv

\* A claim that is granted: nobody else has the task by the graph it works on.
LEMMA TakeStep ==
    ASSUME TaskGraphInv, NEW s \in Session, NEW g, NEW t \in DOMAIN g.tasks,
           GoodGraph(g), ShowsTold(g, {}), g.tasks[t].lease \in {NoSession, s},
           Take(s, g, t),
           flow' \in [Session -> Phase \X (Task \cup {NoSession})]
    PROVE  TaskGraphInv'
<1>0. t \in Task
  BY GraphParts DEF GoodGraph
<1>1. scopes \in [Session -> [Task -> Nat]] /\ ScopeTtl[t] \in Nat
  BY <1>0, TaskGraphAssumption DEF TaskGraphInv, VariablesTyped
<1>2. scopes' = [scopes EXCEPT ![s][t] = ScopeTtl[t]]
  BY DEF Take
<1>3. /\ scopes' \in [Session -> [Task -> Nat]]
      /\ scopes'[s][t] = ScopeTtl[t]
      /\ \A r \in Session, u \in Task : r # s \/ u # t => scopes'[r][u] = scopes[r][u]
  BY <1>0, <1>1, <1>2
<1> DEFINE h == [g EXCEPT !.tasks[t] = ClaimedBy(t, s)]
<1>4. /\ GoodGraph(h)
      /\ DOMAIN h.tasks = DOMAIN g.tasks
      /\ \A u \in DOMAIN g.tasks : h.tasks[u] = IF u = t THEN ClaimedBy(t, s) ELSE g.tasks[u]
  BY ClaimedGood, Replaced
<1>5. Enter(s, h, {t}, {}, FALSE)
  BY DEF Take
<1> HIDE DEF h
<1>6. h.tasks[t].lease = s /\ h.tasks[t].left = LeaseTtl
  BY <1>4, ClaimedGood
<1>7. scopes'[s][t] >= h.tasks[t].left
  BY <1>0, <1>3, <1>6, TaskGraphAssumption
<1>8. ShowsTold(h, {s} \X ({t} \cup {}))
  <2> SUFFICES ASSUME NEW r \in Session, NEW u \in Task,
                      told[r][u] > 0, <<r, u>> \notin dropped, r # s \/ u # t
               PROVE  u \in DOMAIN h.tasks /\ h.tasks[u].lease = r /\ h.tasks[u].left = told[r][u]
    BY DEF ShowsTold
  <2>1. u \in DOMAIN g.tasks /\ g.tasks[u].lease = r /\ g.tasks[u].left = told[r][u]
    BY DEF ShowsTold
  <2>2. u # t
    BY <2>1, TaskGraphAssumption
  <2> QED BY <1>4, <2>1, <2>2
<1>9. \A r \in Session, u \in Task : scopes'[r][u] >= scopes[r][u] \/ scopes'[r][u] >= LeaseTtl
  <2> SUFFICES ASSUME NEW r \in Session, NEW u \in Task
               PROVE  scopes'[r][u] >= scopes[r][u] \/ scopes'[r][u] >= LeaseTtl
    OBVIOUS
  <2>1. CASE r # s \/ u # t
    <3>1. scopes'[r][u] = scopes[r][u] /\ scopes[r][u] \in Nat
      BY <1>1, <1>3, <2>1
    <3> QED BY <3>1
  <2>2. CASE r = s /\ u = t
    BY <1>0, <1>3, <2>2, TaskGraphAssumption
  <2> QED BY <2>1, <2>2
<1>10. LiveScopesExclude'
  <2>1. ASSUME NEW r \in Session, r # s, NEW u \in Task, PathsOf[u] \cap PathsOf[t] # {}
        PROVE  ~(scopes[r][u] > 0)
    <3>1. <<r, u>> \notin Conflicts(s, t)
      BY DEF Take, ScopeFree
    <3>2. <<r, u>> \in (Session \ {s}) \X Task /\ <<r, u>>[1] = r /\ <<r, u>>[2] = u
      BY <2>1
    <3> QED BY <2>1, <3>1, <3>2 DEF Conflicts
  <2> SUFFICES ASSUME NEW q \in Session, NEW r \in Session, NEW u \in Task, NEW v \in Task,
                      q # r, PathsOf[u] \cap PathsOf[v] # {}
               PROVE  ~(scopes'[q][u] > 0 /\ scopes'[r][v] > 0)
    BY DEF LiveScopesExclude
  <2>2. ~(scopes[q][u] > 0 /\ scopes[r][v] > 0)
    BY DEF TaskGraphInv, LiveScopesExclude
  <2>3. CASE q = s /\ u = t
    <3>1. PathsOf[v] \cap PathsOf[t] # {} /\ r # s
      BY <2>3
    <3> QED BY <1>3, <2>1, <3>1
  <2>4. CASE r = s /\ v = t
    <3>1. PathsOf[u] \cap PathsOf[t] # {} /\ q # s
      BY <2>4
    <3> QED BY <1>3, <2>1, <3>1
  <2>5. CASE ~(q = s /\ u = t) /\ ~(r = s /\ v = t)
    BY <1>3, <2>2, <2>5
  <2> QED BY <2>3, <2>4, <2>5
<1>11. {t} \in SUBSET Task /\ {} \in SUBSET Task /\ FALSE \in BOOLEAN
  BY <1>0
<1>12. \A u \in {t} : /\ u \in DOMAIN h.tasks
                      /\ h.tasks[u].lease = s
                      /\ FALSE \/ scopes'[s][u] >= h.tasks[u].left
  BY <1>4, <1>6, <1>7
<1>13. PICK H : H = h
  OBVIOUS
<1>14. PICK gives \in SUBSET Task, takes \in SUBSET Task, renewal \in BOOLEAN :
              gives = {t} /\ takes = {} /\ renewal = FALSE
  BY <1>11
<1>15. Enter(s, H, gives, takes, renewal) /\ GoodGraph(H)
       /\ ShowsTold(H, {s} \X (gives \cup takes))
  BY <1>4, <1>5, <1>8, <1>13, <1>14
<1>16. GivesLeases(s, H, gives, renewal)
  BY <1>12, <1>13, <1>14 DEF GivesLeases
<1>17. ScopesGrow
  BY <1>3, <1>9, <1>10 DEF ScopesGrow
<1> QED BY <1>15, <1>16, <1>17, EnterStep

\* A locked operation that edits the entry of a task which its session holds: it
\* answers for the task or leaves the lease as it is.
LEMMA EditStep ==
    ASSUME TaskGraphInv, NEW s \in Session, NEW t \in DOMAIN graph.tasks,
           graph.tasks[t].lease = s, NEW e, GoodEntry(t, e),
           NEW gives, NEW takes, NEW renewal,
           \/ gives = {} /\ takes = {t} /\ renewal = FALSE
           \/ gives = {t} /\ takes = {} /\ renewal = TRUE /\ e.lease = s
           \/ /\ gives = {} /\ takes = {} /\ renewal = FALSE
              /\ e.lease = s /\ e.left = graph.tasks[t].left,
           Enter(s, [graph EXCEPT !.tasks[t] = e], gives, takes, renewal),
           UNCHANGED scopes,
           flow' \in [Session -> Phase \X (Task \cup {NoSession})]
    PROVE  TaskGraphInv'
<1>0. GoodGraph(graph) /\ t \in Task
  BY GraphParts DEF TaskGraphInv, GraphsGood, GoodGraph
<1>1. PICK h : h = [graph EXCEPT !.tasks[t] = e]
  OBVIOUS
<1>2. /\ GoodGraph(h)
      /\ DOMAIN h.tasks = DOMAIN graph.tasks
      /\ \A u \in DOMAIN graph.tasks : h.tasks[u] = IF u = t THEN e ELSE graph.tasks[u]
  BY <1>0, <1>1, Replaced
<1>3. Enter(s, h, gives, takes, renewal)
  BY <1>1
<1>4. ShowsTold(h, {s} \X (gives \cup takes))
  <2> SUFFICES ASSUME NEW r \in Session, NEW u \in Task,
                      told[r][u] > 0, <<r, u>> \notin dropped,
                      <<r, u>> \notin {s} \X (gives \cup takes)
               PROVE  u \in DOMAIN h.tasks /\ h.tasks[u].lease = r /\ h.tasks[u].left = told[r][u]
    BY DEF ShowsTold
  <2>1. u \in DOMAIN graph.tasks /\ graph.tasks[u].lease = r /\ graph.tasks[u].left = told[r][u]
    BY DEF TaskGraphInv, ShowsTold
  <2>2. CASE u = t
    <3>1. r = s /\ t \notin gives /\ t \notin takes
      BY <2>1, <2>2
    <3>2. e.lease = s /\ e.left = graph.tasks[t].left
      BY <3>1
    <3> QED BY <1>2, <2>1, <2>2, <3>1, <3>2
  <2>3. CASE u # t
    BY <1>2, <2>1, <2>3
  <2> QED BY <2>2, <2>3
<1>5. gives \in SUBSET Task /\ takes \in SUBSET Task /\ renewal \in BOOLEAN
  BY <1>0
<1>6. GivesLeases(s, h, gives, renewal)
  BY <1>2 DEF GivesLeases
<1>7. ScopesGrow
  <2>1. scopes \in [Session -> [Task -> Nat]]
    BY DEF TaskGraphInv, VariablesTyped
  <2>2. \A r \in Session, u \in Task : scopes[r][u] \in Nat
    BY <2>1
  <2>3. scopes' \in [Session -> [Task -> Nat]]
    BY <2>1
  <2>4. ASSUME NEW r \in Session, NEW u \in Task PROVE scopes'[r][u] >= scopes[r][u]
    BY <2>2
  <2>5. LiveScopesExclude'
    <3>1. LiveScopesExclude
      BY DEF TaskGraphInv
    <3> QED BY <3>1 DEF LiveScopesExclude
  <2> QED BY <2>3, <2>4, <2>5 DEF ScopesGrow
<1> QED BY <1>2, <1>3, <1>4, <1>5, <1>6, <1>7, EnterStep

\* After the release of what has lapsed the graph still shows what was told.
LEMMA ReleasedShows ==
    ASSUME TaskGraphInv
    PROVE  GoodGraph(ReleasedAll(graph)) /\ ShowsTold(ReleasedAll(graph), {})
<1>0. GoodGraph(graph)
  BY DEF TaskGraphInv, GraphsGood
<1>1. GoodGraph(ReleasedAll(graph))
  BY <1>0, ReleasedGood
<1>2. ASSUME NEW s \in Session, NEW t \in Task, told[s][t] > 0, <<s, t>> \notin dropped
      PROVE  /\ t \in DOMAIN ReleasedAll(graph).tasks
             /\ ReleasedAll(graph).tasks[t].lease = s
             /\ ReleasedAll(graph).tasks[t].left = told[s][t]
  <2>1. t \in DOMAIN graph.tasks /\ graph.tasks[t].lease = s /\ graph.tasks[t].left = told[s][t]
    BY <1>2 DEF TaskGraphInv, ShowsTold
  <2>2. s # NoSession
    BY TaskGraphAssumption
  <2> QED BY <1>0, <1>2, <2>1, <2>2, ReleasedGood
<1> QED BY <1>1, <1>2 DEF ShowsTold

\* claimWorkflowTask keeps the invariant.
LEMMA ClaimStep ==
    ASSUME TaskGraphInv, NEW s \in Session, NEW t \in Task, Claim(s, t)
    PROVE  TaskGraphInv'
<1>1. PICK g : g = ReleasedAll(graph)
  OBVIOUS
<1>2. GoodGraph(g) /\ ShowsTold(g, {})
  BY <1>1, ReleasedShows
<1>3. /\ t \in DOMAIN g.tasks /\ MayTake(g, s, t) /\ Take(s, g, t)
      /\ UNCHANGED flow
  BY <1>1 DEF Claim
<1>4. g.tasks[t].lease \in {NoSession, s}
  BY <1>3 DEF MayTake
<1>5. flow' \in [Session -> Phase \X (Task \cup {NoSession})]
  BY <1>3 DEF TaskGraphInv, VariablesTyped
<1> QED BY <1>2, <1>3, <1>4, <1>5, TakeStep

\* claimNextWorkflowTaskForOwner keeps it: what may be claimed is leased to nobody.
LEMMA ClaimNextStep ==
    ASSUME TaskGraphInv, NEW s \in Session, ClaimNext(s)
    PROVE  TaskGraphInv'
<1>1. PICK g : g = ReleasedAll(graph)
  OBVIOUS
<1>2. GoodGraph(g) /\ ShowsTold(g, {})
  BY <1>1, ReleasedShows
<1>3. PICK t \in Candidates(g, s) : Take(s, g, t)
  BY <1>1 DEF ClaimNext
<1>4. t \in DOMAIN g.tasks /\ g.tasks[t].status = "claimable"
  BY DEF Candidates
<1>5. g.tasks[t].lease \in {NoSession, s}
  BY <1>2, <1>4 DEF GoodGraph, GoodEntry, Held
<1>6. flow' \in [Session -> Phase \X (Task \cup {NoSession})]
  BY FlowTyped DEF ClaimNext, TaskGraphInv
<1> QED BY <1>2, <1>3, <1>4, <1>5, <1>6, TakeStep

\* renewWorkflowTaskLease keeps it.
LEMMA RenewStep ==
    ASSUME TaskGraphInv, NEW s \in Session, NEW t \in Task, Renew(s, t)
    PROVE  TaskGraphInv'
<1>1. t \in DOMAIN graph.tasks /\ graph.tasks[t].lease = s
  BY DEF Renew, Owns
<1>2. PICK old : old = graph.tasks[t]
  OBVIOUS
<1>3. PICK e : e = [old EXCEPT !.left = LeaseTtl]
  OBVIOUS
<1>4. GoodEntry(t, old)
  BY <1>1, <1>2 DEF TaskGraphInv, GraphsGood, GoodGraph
<1>5. GoodEntry(t, e) /\ e.lease = s
  <2>1. old \in Entry /\ LeaseTtl \in 0 .. LeaseTtl
    BY <1>4, TaskGraphAssumption DEF GoodEntry
  <2>2. /\ e \in Entry
        /\ e.status = old.status /\ e.lease = old.lease /\ e.check = old.check
    BY <1>3, <2>1 DEF Entry
  <2> QED BY <1>1, <1>2, <1>4, <2>2 DEF GoodEntry
<1>6. [graph EXCEPT !.tasks[t].left = LeaseTtl] = [graph EXCEPT !.tasks[t] = e]
  BY <1>2, <1>3
<1>7. Enter(s, [graph EXCEPT !.tasks[t] = e], {t}, {}, TRUE) /\ UNCHANGED <<scopes, flow>>
  BY <1>6 DEF Renew
<1>8. flow' \in [Session -> Phase \X (Task \cup {NoSession})]
  BY <1>7 DEF TaskGraphInv, VariablesTyped
<1> QED BY <1>1, <1>5, <1>7, <1>8, EditStep

\* releaseWorkflowTaskClaim keeps it.
LEMMA ReleaseStep ==
    ASSUME TaskGraphInv, NEW s \in Session, NEW t \in Task, Release(s, t)
    PROVE  TaskGraphInv'
<1>1. t \in DOMAIN graph.tasks /\ graph.tasks[t].lease = s
  BY DEF Release, Owns
<1>2. /\ Enter(s, [graph EXCEPT !.tasks[t] = Claimable(t)], {}, {t}, FALSE)
      /\ UNCHANGED <<scopes, flow>>
  BY DEF Release
<1>3. flow' \in [Session -> Phase \X (Task \cup {NoSession})]
  BY <1>2 DEF TaskGraphInv, VariablesTyped
<1>4. PICK e : e = Claimable(t)
  OBVIOUS
<1>5. GoodEntry(t, e) /\ Enter(s, [graph EXCEPT !.tasks[t] = e], {}, {t}, FALSE)
  BY <1>2, <1>4, ClaimableGood
<1> QED BY <1>1, <1>2, <1>3, <1>5, EditStep

\* releaseWorkflowTasksForSession keeps it.
LEMMA ReleaseSessionStep ==
    ASSUME TaskGraphInv, NEW s \in Session, ReleaseSession(s)
    PROVE  TaskGraphInv'
<1>0. GoodGraph(graph)
  BY DEF TaskGraphInv, GraphsGood
<1>1. PICK h : h = [graph EXCEPT !.tasks =
                      [t \in DOMAIN @ |-> IF Owns(graph, s, t) THEN Claimable(t) ELSE @[t]]]
  OBVIOUS
<1>2. /\ GoodGraph(h)
      /\ DOMAIN h.tasks = DOMAIN graph.tasks
      /\ \A t \in DOMAIN graph.tasks : graph.tasks[t].lease # s => h.tasks[t] = graph.tasks[t]
  BY <1>0, <1>1, SessionReleasedGood
<1>3. Enter(s, h, {}, Task, FALSE) /\ UNCHANGED <<scopes, flow>>
  BY <1>1 DEF ReleaseSession
<1>4. ShowsTold(h, {s} \X ({} \cup Task))
  <2> SUFFICES ASSUME NEW r \in Session, NEW u \in Task,
                      told[r][u] > 0, <<r, u>> \notin dropped, r # s
               PROVE  u \in DOMAIN h.tasks /\ h.tasks[u].lease = r /\ h.tasks[u].left = told[r][u]
    BY DEF ShowsTold
  <2>1. u \in DOMAIN graph.tasks /\ graph.tasks[u].lease = r /\ graph.tasks[u].left = told[r][u]
    BY DEF TaskGraphInv, ShowsTold
  <2> QED BY <1>2, <2>1
<1>5. ScopesGrow /\ flow' \in [Session -> Phase \X (Task \cup {NoSession})]
  <2>1. /\ scopes \in [Session -> [Task -> Nat]]
        /\ flow \in [Session -> Phase \X (Task \cup {NoSession})]
    BY DEF TaskGraphInv, VariablesTyped
  <2>2. \A r \in Session, u \in Task : scopes[r][u] \in Nat
    BY <2>1
  <2>3. LiveScopesExclude'
    BY <1>3 DEF TaskGraphInv, LiveScopesExclude
  <2> QED BY <1>3, <2>1, <2>2, <2>3 DEF ScopesGrow
<1>6. PICK none \in SUBSET Task : none = {}
  OBVIOUS
<1>7. PICK all \in SUBSET Task : all = Task
  OBVIOUS
<1>8. PICK renewal \in BOOLEAN : renewal = FALSE
  OBVIOUS
<1>9. Enter(s, h, none, all, renewal) /\ ShowsTold(h, {s} \X (none \cup all))
  BY <1>3, <1>4, <1>6, <1>7, <1>8
<1>10. GivesLeases(s, h, none, renewal)
  BY <1>6 DEF GivesLeases
<1>11. GoodGraph(h)
  BY <1>2
<1> QED BY <1>5, <1>9, <1>10, <1>11, EnterStep

\* The entry a completion writes is good, and keeps the lease.
LEMMA MarkedGood ==
    ASSUME NEW s \in Session, flow[s][2] \in DOMAIN graph.tasks,
           GoodEntry(flow[s][2], graph.tasks[flow[s][2]]),
           graph.tasks[flow[s][2]].lease = s,
           NEW status \in Held, NEW check \in {"pending", "failed"},
           status = "needs_repair" => check = "failed"
    PROVE  /\ GoodEntry(flow[s][2], Marked(s, status, check))
           /\ Marked(s, status, check).lease = s
           /\ Marked(s, status, check).left = graph.tasks[flow[s][2]].left
<1>1. PICK t : t = flow[s][2]
  OBVIOUS
<1>2. PICK old : old = graph.tasks[t]
  OBVIOUS
<1>3. PICK e : e = [old EXCEPT !.status = status,
                               !.check = IF t \in Ruled THEN check ELSE "not_required"]
  OBVIOUS
<1>4. Marked(s, status, check) = e
  BY <1>1, <1>2, <1>3 DEF Marked
<1>5. GoodEntry(t, old) /\ old.lease = s
  BY <1>1, <1>2
<1>6. /\ e \in Entry
      /\ e.status = status /\ e.lease = old.lease /\ e.left = old.left
      /\ e.check = IF t \in Ruled THEN check ELSE "not_required"
  <2>1. old \in Entry /\ (IF t \in Ruled THEN check ELSE "not_required") \in Verdict
    BY <1>5 DEF GoodEntry, Verdict
  <2>2. PICK c \in Verdict : c = IF t \in Ruled THEN check ELSE "not_required"
    BY <2>1
  <2>3. e = [old EXCEPT !.status = status, !.check = c]
    BY <1>3, <2>2
  <2>4. status \in Held \cup {"claimable", "satisfied"}
    OBVIOUS
  <2>5. /\ e \in Entry
        /\ e.status = status /\ e.lease = old.lease /\ e.left = old.left /\ e.check = c
    BY <2>1, <2>2, <2>3, <2>4 DEF Entry
  <2> QED BY <2>2, <2>5
<1>7. GoodEntry(t, e)
  BY <1>5, <1>6, TaskGraphAssumption DEF GoodEntry, Held
<1> QED BY <1>1, <1>2, <1>4, <1>5, <1>6, <1>7

\* A marking call, refused or not, keeps the invariant.
LEMMA MarkStep ==
    ASSUME TaskGraphInv, NEW s \in Session, NEW allowed,
           NEW status \in Held, NEW check \in {"pending", "failed"},
           status = "needs_repair" => check = "failed",
           Edit(s, allowed, Marked(s, status, check), {}, {}),
           flow' \in [Session -> Phase \X (Task \cup {NoSession})]
    PROVE  TaskGraphInv'
<1>1. PICK t : t = flow[s][2]
  OBVIOUS
<1>2. CASE Owns(graph, s, t) /\ graph.tasks[t].status \in allowed
  <2>1. t \in DOMAIN graph.tasks /\ graph.tasks[t].lease = s
    BY <1>2 DEF Owns
  <2>2. GoodEntry(t, graph.tasks[t])
    BY <2>1 DEF TaskGraphInv, GraphsGood, GoodGraph
  <2>3. PICK e : e = Marked(s, status, check)
    OBVIOUS
  <2>4. GoodEntry(t, e) /\ e.lease = s /\ e.left = graph.tasks[t].left
    BY <1>1, <2>1, <2>2, <2>3, MarkedGood
  <2>5. Enter(s, [graph EXCEPT !.tasks[t] = e], {}, {}, FALSE) /\ UNCHANGED scopes
    BY <1>1, <1>2, <2>3 DEF Edit
  <2> QED BY <2>1, <2>4, <2>5, EditStep
<1>3. CASE ~(Owns(graph, s, t) /\ graph.tasks[t].status \in allowed)
  <2>1. UNCHANGED <<graph, scopes, inside, merged, told, renewed, dropped>>
    BY <1>1, <1>3 DEF Edit
  <2> QED BY <2>1, FlowStep
<1> QED BY <1>2, <1>3

\* markWorkflowTaskVerifying and markWorkflowTaskNeedsRepair keep it.
LEMMA MarkingsStep ==
    ASSUME TaskGraphInv, NEW s \in Session, MarkVerifying(s) \/ MarkNeedsRepair(s)
    PROVE  TaskGraphInv'
<1>1. flow' \in [Session -> Phase \X (Task \cup {NoSession})]
  BY FlowTyped DEF MarkVerifying, MarkNeedsRepair, TaskGraphInv, Phase
<1>2. "verifying" \in Held /\ "needs_repair" \in Held
  BY DEF Held
<1>3. CASE MarkVerifying(s)
  BY <1>1, <1>2, <1>3, MarkStep DEF MarkVerifying
<1>4. CASE MarkNeedsRepair(s)
  BY <1>1, <1>2, <1>4, MarkStep DEF MarkNeedsRepair
<1> QED BY <1>3, <1>4

\* completeWorkflowTask keeps it.
LEMMA CompleteStep ==
    ASSUME TaskGraphInv, NEW s \in Session, Complete(s)
    PROVE  TaskGraphInv'
<1>0. flow' \in [Session -> Phase \X (Task \cup {NoSession})]
  BY FlowTyped DEF Complete, TaskGraphInv, Phase
<1>1. PICK t : t = flow[s][2]
  OBVIOUS
<1>2. CASE MayComplete(s, t)
  <2>1. t \in DOMAIN graph.tasks /\ graph.tasks[t].lease = s
    BY <1>2 DEF MayComplete, Owns
  <2>2. PICK old : old = graph.tasks[t]
    OBVIOUS
  <2>3. PICK check \in Verdict : check = IF t \in Ruled THEN "passed" ELSE "not_required"
    BY DEF Verdict
  <2>4. PICK e : e = [[old EXCEPT !.status = "satisfied", !.check = check]
                         EXCEPT !.lease = NoSession, !.left = 0]
    OBVIOUS
  <2>5. old \in Entry
    BY <2>1, <2>2 DEF TaskGraphInv, GraphsGood, GoodGraph, GoodEntry
  <2>6. /\ e \in Entry
        /\ e.status = "satisfied" /\ e.lease = NoSession /\ e.check = check
    <3>1. PICK m : m = [old EXCEPT !.status = "satisfied", !.check = check]
      OBVIOUS
    <3>2. m \in Entry /\ m.status = "satisfied" /\ m.check = check
      BY <2>5, <3>1 DEF Entry
    <3>3. e = [m EXCEPT !.lease = NoSession, !.left = 0]
      BY <2>4, <3>1
    <3>4. 0 \in 0 .. LeaseTtl
      BY TaskGraphAssumption
    <3> QED BY <3>2, <3>3, <3>4 DEF Entry
  <2>7. GoodEntry(t, e)
    BY <2>3, <2>6 DEF GoodEntry, Held
  <2>8. [Marked(s, "satisfied", "passed") EXCEPT !.lease = NoSession, !.left = 0] = e
    BY <1>1, <2>2, <2>3, <2>4 DEF Marked
  <2>9. Enter(s, [graph EXCEPT !.tasks[t] = e], {}, {t}, FALSE) /\ UNCHANGED scopes
    BY <1>1, <1>2, <2>8 DEF Complete
  <2> QED BY <1>0, <2>1, <2>7, <2>9, EditStep
<1>3. CASE ~MayComplete(s, t)
  <2>1. UNCHANGED <<graph, scopes, inside, merged, told, renewed, dropped>>
    BY <1>1, <1>3 DEF Complete
  <2> QED BY <1>0, <2>1, FlowStep
<1> QED BY <1>2, <1>3

\* The steps of a session that only move its completion on.
LEMMA MovesOnStep ==
    ASSUME TaskGraphInv, NEW s \in Session,
           NoNext(s) \/ Verify(s) \/ (\E t \in Task : StartCompletion(s, t))
    PROVE  TaskGraphInv'
<1>1. UNCHANGED <<graph, scopes, inside, merged, told, renewed, dropped>>
  BY DEF NoNext, Verify, StartCompletion
<1>2. flow' \in [Session -> Phase \X (Task \cup {NoSession})]
  BY FlowTyped DEF NoNext, Verify, StartCompletion, TaskGraphInv, Phase
<1> QED BY <1>1, <1>2, FlowStep

-----------------------------------------------------------------------------
\* The write of an operation and its answer keep the invariant.
LEMMA CommitStep ==
    ASSUME TaskGraphInv, Commit
    PROVE  TaskGraphInv'
<1>1. PICK op : op = inside
  OBVIOUS
<1>2. /\ op \in Operation
      /\ GoodGraph(op.graph)
      /\ ShowsTold(op.graph, Answers(op))
      /\ \A t \in op.gives :
           /\ t \in DOMAIN op.graph.tasks
           /\ op.graph.tasks[t].lease = op.by
           /\ op.renewal \/ scopes[op.by][t] >= op.graph.tasks[t].left
  BY <1>1 DEF Commit, TaskGraphInv, GoodOperation
<1>3. PICK s \in Session : s = op.by
  BY <1>2 DEF Operation
<1>4. PICK row : row = [t \in Task |-> IF t \in op.gives THEN op.graph.tasks[t].left
                                       ELSE IF t \in op.takes THEN 0
                                       ELSE told[s][t]]
  OBVIOUS
<1>5. /\ graph' = op.graph
      /\ inside' = Free
      /\ told' = [told EXCEPT ![s] = row]
      /\ renewed' = (renewed \ ({s} \X (op.gives \cup op.takes)))
                       \cup {x \in {s} \X (op.gives \cup op.takes) :
                               op.renewal /\ told'[s][x[2]] > 0}
      /\ dropped' = dropped \ ({s} \X (op.gives \cup op.takes))
      /\ UNCHANGED <<scopes, merged, flow, left>>
  BY <1>1, <1>3, <1>4 DEF Commit
<1>6. /\ told \in [Session -> [Task -> 0 .. LeaseTtl]]
      /\ renewed \subseteq Session \X Task
      /\ dropped \subseteq Session \X Task
  BY DEF TaskGraphInv, VariablesTyped
<1>7. op.gives \subseteq Task /\ op.takes \subseteq Task
  BY <1>2 DEF Operation
<1>8. row \in [Task -> 0 .. LeaseTtl]
  <2>1. \A t \in op.gives : op.graph.tasks[t].left \in 0 .. LeaseTtl
    BY <1>2 DEF GoodGraph, GoodEntry, Entry
  <2>2. \A t \in Task : told[s][t] \in 0 .. LeaseTtl /\ 0 \in 0 .. LeaseTtl
    BY <1>6, TaskGraphAssumption
  <2> QED BY <1>4, <2>1, <2>2
<1>9. /\ told' \in [Session -> [Task -> 0 .. LeaseTtl]]
      /\ told'[s] = row
      /\ \A r \in Session : r # s => told'[r] = told[r]
  BY <1>5, <1>6, <1>8
<1>10. VariablesTyped'
  BY <1>5, <1>6, <1>7, <1>9 DEF TaskGraphInv, VariablesTyped
<1>11. GraphsGood'
  BY <1>2, <1>5 DEF TaskGraphInv, GraphsGood
<1>12. ShowsTold(graph, {})'
  <2> SUFFICES ASSUME NEW r \in Session, NEW t \in Task, told'[r][t] > 0,
                      <<r, t>> \notin dropped'
               PROVE  /\ t \in DOMAIN op.graph.tasks
                      /\ op.graph.tasks[t].lease = r
                      /\ op.graph.tasks[t].left = told'[r][t]
    BY <1>5 DEF ShowsTold
  <2>1. CASE r = s /\ t \in op.gives
    BY <1>2, <1>3, <1>4, <1>9, <2>1
  <2>2. CASE r = s /\ t \notin op.gives /\ t \in op.takes
    <3>1. told'[r][t] = 0
      BY <1>4, <1>9, <2>2
    <3> QED BY <3>1
  <2>3. CASE r # s \/ (t \notin op.gives /\ t \notin op.takes)
    <3>1. told'[r][t] = told[r][t]
      BY <1>4, <1>9, <2>3
    <3>2. <<r, t>> \notin {s} \X (op.gives \cup op.takes)
      BY <2>3
    <3>3. <<r, t>> \notin dropped /\ <<r, t>> \notin Answers(op)
      BY <1>3, <1>5, <3>2 DEF Answers
    <3> QED BY <1>2, <3>1, <3>3 DEF ShowsTold
  <2> QED BY <2>1, <2>2, <2>3
<1>13. LeasesAreScoped'
  <2> SUFFICES ASSUME NEW r \in Session, NEW t \in Task, told'[r][t] > 0,
                      <<r, t>> \notin renewed'
               PROVE  scopes[r][t] >= told'[r][t]
    BY <1>5 DEF LeasesAreScoped
  <2>1. CASE r = s /\ t \in op.gives
    <3>1. <<r, t>> \in {s} \X (op.gives \cup op.takes) /\ <<r, t>>[2] = t
      BY <2>1
    <3>2. ~op.renewal
      BY <1>5, <2>1, <3>1
    <3> QED BY <1>2, <1>3, <1>4, <1>9, <2>1, <3>2
  <2>2. CASE r = s /\ t \notin op.gives /\ t \in op.takes
    <3>1. told'[r][t] = 0
      BY <1>4, <1>9, <2>2
    <3> QED BY <3>1
  <2>3. CASE r # s \/ (t \notin op.gives /\ t \notin op.takes)
    <3>1. told'[r][t] = told[r][t]
      BY <1>4, <1>9, <2>3
    <3>2. <<r, t>> \notin {s} \X (op.gives \cup op.takes)
      BY <2>3
    <3>3. <<r, t>> \notin renewed
      BY <1>5, <3>2
    <3> QED BY <3>1, <3>3 DEF TaskGraphInv, LeasesAreScoped
  <2> QED BY <2>1, <2>2, <2>3
<1>14. LiveScopesExclude' /\ (inside = Free)'
  BY <1>5 DEF TaskGraphInv, LiveScopesExclude
<1> QED BY <1>10, <1>11, <1>12, <1>13, <1>14 DEF TaskGraphInv

\* The tick's read makes a good graph.
LEMMA ReadGraphStep ==
    ASSUME TaskGraphInv, NEW m \in Iterator, ReadGraph(m)
    PROVE  TaskGraphInv'
<1>1. PICK st \in Stage, ready \in BOOLEAN :
        merged' = [merged EXCEPT ![m] = Merged(graph, st, ready)]
  BY DEF ReadGraph
<1>2. PICK h : h = Merged(graph, st, ready)
  OBVIOUS
<1>3. GoodGraph(h)
  BY <1>2, MergedGood DEF TaskGraphInv, GraphsGood
<1>4. UNCHANGED <<graph, scopes, inside, flow, told, renewed, dropped>>
  BY DEF ReadGraph
<1>5. merged' = [merged EXCEPT ![m] = h] /\ merged \in [Iterator -> Graph] /\ h \in Graph
  BY <1>1, <1>2, <1>3 DEF TaskGraphInv, VariablesTyped, GoodGraph
<1>6. merged' \in [Iterator -> Graph] /\ \A n \in Iterator : GoodGraph(merged'[n])
  BY <1>3, <1>5 DEF TaskGraphInv, GraphsGood
<1>7. VariablesTyped' /\ GraphsGood'
  BY <1>4, <1>6 DEF TaskGraphInv, VariablesTyped, GraphsGood
<1>8. (inside = Free \/ GoodOperation(inside))' /\ ShowsTold(graph, {})'
  BY <1>4 DEF TaskGraphInv, GoodOperation, ShowsTold
<1>9. LiveScopesExclude' /\ LeasesAreScoped'
  BY <1>4 DEF TaskGraphInv, LiveScopesExclude, LeasesAreScoped
<1> QED BY <1>7, <1>8, <1>9 DEF TaskGraphInv

\* The tick's write replaces leases only of pairs that it records as dropped.
LEMMA WriteGraphStep ==
    ASSUME TaskGraphInv, NEW m \in Iterator, WriteGraph(m)
    PROVE  TaskGraphInv'
<1>1. PICK h : h = merged[m]
  OBVIOUS
<1>2. /\ graph' = h
      /\ merged' = [merged EXCEPT ![m] = NoGraph]
      /\ dropped' = dropped \cup
             {x \in Session \X Task : /\ told[x[1]][x[2]] > 0
                                      /\ LeaseIn(graph, x[2]) # LeaseIn(h, x[2])}
      /\ UNCHANGED <<scopes, inside, flow, told, renewed>>
  BY <1>1 DEF WriteGraph
<1>3. GoodGraph(h)
  BY <1>1 DEF TaskGraphInv, GraphsGood
<1>4. GoodGraph(NoGraph)
  BY DEF GoodGraph, Graph, NoGraph
<1>5. merged' \in [Iterator -> Graph] /\ \A n \in Iterator : GoodGraph(merged'[n])
  BY <1>2, <1>4 DEF TaskGraphInv, VariablesTyped, GraphsGood, GoodGraph
<1>6. VariablesTyped' /\ GraphsGood'
  BY <1>2, <1>3, <1>5 DEF TaskGraphInv, VariablesTyped, GraphsGood
<1>7. ShowsTold(graph, {})'
  <2> SUFFICES ASSUME NEW s \in Session, NEW t \in Task, told[s][t] > 0,
                      <<s, t>> \notin dropped'
               PROVE  t \in DOMAIN h.tasks /\ h.tasks[t].lease = s /\ h.tasks[t].left = told[s][t]
    BY <1>2 DEF ShowsTold
  <2>1. <<s, t>> \in Session \X Task /\ <<s, t>>[1] = s /\ <<s, t>>[2] = t
    OBVIOUS
  <2>2. <<s, t>> \notin dropped /\ LeaseIn(graph, t) = LeaseIn(h, t)
    BY <1>2, <2>1
  <2>3. t \in DOMAIN graph.tasks /\ graph.tasks[t].lease = s /\ graph.tasks[t].left = told[s][t]
    BY <2>2 DEF TaskGraphInv, ShowsTold
  <2>4. LeaseIn(h, t) = <<s, told[s][t]>>
    BY <2>2, <2>3 DEF LeaseIn
  <2> QED BY <2>4, TaskGraphAssumption DEF LeaseIn
<1>8. (inside = Free \/ GoodOperation(inside))'
  <2>1. PICK op : op = inside
    OBVIOUS
  <2>2. op = Free \/ GoodOperation(op)
    BY <2>1 DEF TaskGraphInv
  <2>3. ASSUME GoodOperation(op) PROVE GoodOperation(op)'
    <3>1. ShowsTold(op.graph, Answers(op))'
      BY <1>2, <2>3 DEF GoodOperation, ShowsTold
    <3> QED BY <1>2, <2>3, <3>1 DEF GoodOperation
  <2>4. inside' = op
    BY <1>2, <2>1
  <2>5. GoodOperation(op)' => GoodOperation(inside)'
    BY <2>4 DEF GoodOperation, ShowsTold
  <2> QED BY <2>2, <2>3, <2>4, <2>5
<1>9. LiveScopesExclude' /\ LeasesAreScoped'
  BY <1>2 DEF TaskGraphInv, LiveScopesExclude, LeasesAreScoped
<1> QED BY <1>6, <1>7, <1>8, <1>9 DEF TaskGraphInv

\* A process that dies inside the lock leaves nothing of its operation.
LEMMA DieStep ==
    ASSUME TaskGraphInv, Die
    PROVE  TaskGraphInv'
<1>1. /\ inside' = Free
      /\ UNCHANGED <<graph, scopes, merged, told, renewed, dropped>>
      /\ flow' = [flow EXCEPT ![inside.by] = <<"idle", NoSession>>]
  BY DEF Die
<1>2. flow' \in [Session -> Phase \X (Task \cup {NoSession})]
  BY <1>1 DEF TaskGraphInv, VariablesTyped, Phase
<1> QED BY <1>1, <1>2 DEF TaskGraphInv, VariablesTyped, GraphsGood, ShowsTold,
             LiveScopesExclude, LeasesAreScoped

\* A graph that showed what sessions were told shows it after the same time has
\* passed for both.
LEMMA AgedShows ==
    ASSUME VariablesTyped, told' = AllLess(told),
           dropped' = {x \in dropped : told'[x[1]][x[2]] > 0},
           NEW g, GoodGraph(g), NEW but, ShowsTold(g, but)
    PROVE  ShowsTold(Aged(g), but)'
<1>1. PICK h : h = Aged(g)
  OBVIOUS
<1>2. /\ DOMAIN h.tasks = DOMAIN g.tasks
      /\ \A t \in DOMAIN g.tasks : h.tasks[t] = Older(g.tasks[t])
  BY <1>1, AgedGood
<1>3. \A s \in Session, t \in Task : told'[s][t] = Less(told[s][t]) /\ told[s][t] \in Nat
  BY TaskGraphAssumption DEF AllLess, VariablesTyped
<1>4. ASSUME NEW s \in Session, NEW t \in Task, told'[s][t] > 0,
             <<s, t>> \notin dropped', <<s, t>> \notin but
      PROVE  t \in DOMAIN h.tasks /\ h.tasks[t].lease = s /\ h.tasks[t].left = told'[s][t]
  <2>1. told[s][t] > 0 /\ told'[s][t] = Less(told[s][t])
    BY <1>3, <1>4 DEF Less
  <2>2. <<s, t>> \notin dropped
    BY <1>4
  <2>3. t \in DOMAIN g.tasks /\ g.tasks[t].lease = s /\ g.tasks[t].left = told[s][t]
    BY <1>4, <2>1, <2>2 DEF ShowsTold
  <2>4. h.tasks[t] = Older(g.tasks[t]) /\ g.tasks[t] \in Entry
    BY <1>2, <2>3 DEF GoodGraph, GoodEntry
  <2>5. h.tasks[t].lease = g.tasks[t].lease /\ h.tasks[t].left = Less(g.tasks[t].left)
    BY <2>4 DEF Older, Entry
  <2> QED BY <1>2, <2>1, <2>3, <2>5
<1>5. ShowsTold(h, but)'
  BY <1>4 DEF ShowsTold
<1> QED BY <1>1, <1>5

\* Time passes for every lease alike.
LEMMA PassTimeStep ==
    ASSUME TaskGraphInv, PassTime
    PROVE  TaskGraphInv'
<1>1. /\ graph' = Aged(graph)
      /\ scopes' = AllLess(scopes)
      /\ inside' = IF inside = Free THEN Free ELSE [inside EXCEPT !.graph = Aged(@)]
      /\ merged' = [m \in Iterator |-> Aged(merged[m])]
      /\ told' = AllLess(told)
      /\ renewed' = {x \in renewed : told'[x[1]][x[2]] > 0}
      /\ dropped' = {x \in dropped : told'[x[1]][x[2]] > 0}
      /\ UNCHANGED flow
  BY DEF PassTime
<1>2. VariablesTyped /\ GraphsGood
  BY DEF TaskGraphInv
<1>3. \A s \in Session, t \in Task :
        /\ told[s][t] \in 0 .. LeaseTtl /\ told'[s][t] = Less(told[s][t])
        /\ scopes[s][t] \in Nat /\ scopes'[s][t] = Less(scopes[s][t])
  BY <1>1, <1>2 DEF AllLess, VariablesTyped
<1>4. VariablesTyped'
  <2>1. \A n \in 0 .. LeaseTtl : Less(n) \in 0 .. LeaseTtl
    BY TaskGraphAssumption DEF Less
  <2>2. \A n \in Nat : Less(n) \in Nat
    BY DEF Less
  <2>3. told' \in [Session -> [Task -> 0 .. LeaseTtl]]
    BY <1>1, <1>3, <2>1 DEF AllLess
  <2>4. scopes' \in [Session -> [Task -> Nat]]
    BY <1>1, <1>3, <2>2 DEF AllLess
  <2>5. \A m \in Iterator : Aged(merged[m]) \in Graph
    BY <1>2, AgedGood DEF GraphsGood, GoodGraph
  <2>6. merged' \in [Iterator -> Graph]
    BY <1>1, <2>5
  <2> QED BY <1>1, <1>2, <2>3, <2>4, <2>6 DEF VariablesTyped
<1>5. GraphsGood'
  <2>1. PICK g : g = graph
    OBVIOUS
  <2>2. GoodGraph(Aged(g)) /\ graph' = Aged(g)
    BY <1>1, <1>2, <2>1, AgedGood DEF GraphsGood
  <2>3. \A m \in Iterator : GoodGraph(merged'[m])
    BY <1>1, <1>2, AgedGood DEF GraphsGood
  <2> QED BY <2>2, <2>3 DEF GraphsGood
<1>6. ShowsTold(graph, {})'
  <2>1. PICK g : g = graph
    OBVIOUS
  <2>2. GoodGraph(g) /\ ShowsTold(g, {})
    BY <2>1 DEF TaskGraphInv, GraphsGood
  <2>3. ShowsTold(Aged(g), {})'
    BY <1>1, <1>2, <2>2, AgedShows
  <2>4. PICK h : h = Aged(g)
    OBVIOUS
  <2>5. graph' = h /\ ShowsTold(h, {})'
    BY <1>1, <2>1, <2>3, <2>4
  <2> QED BY <2>5 DEF ShowsTold
<1>7. (inside = Free \/ GoodOperation(inside))'
  <2>1. CASE inside = Free
    BY <1>1, <2>1
  <2>2. CASE inside # Free
    <3>1. PICK op : op = inside
      OBVIOUS
    <3>2. GoodOperation(op)
      BY <2>2, <3>1 DEF TaskGraphInv
    <3>3. PICK h : h = Aged(op.graph)
      OBVIOUS
    <3>4. PICK new : new = [op EXCEPT !.graph = h]
      OBVIOUS
    <3>5. inside' = new
      BY <1>1, <2>2, <3>1, <3>3, <3>4
    <3>6. /\ GoodGraph(h)
          /\ DOMAIN h.tasks = DOMAIN op.graph.tasks
          /\ \A t \in DOMAIN op.graph.tasks : h.tasks[t] = Older(op.graph.tasks[t])
      BY <3>2, <3>3, AgedGood DEF GoodOperation
    <3>7. /\ new \in Operation
          /\ new.graph = h /\ new.by = op.by /\ new.gives = op.gives
          /\ new.takes = op.takes /\ new.renewal = op.renewal
      BY <3>2, <3>4, <3>6 DEF GoodOperation, Operation, GoodGraph
    <3>8. ShowsTold(new.graph, Answers(new))'
      <4>1. PICK but : but = Answers(op)
        OBVIOUS
      <4>2. GoodGraph(op.graph) /\ ShowsTold(op.graph, but)
        BY <3>2, <4>1 DEF GoodOperation
      <4>3. ShowsTold(Aged(op.graph), but)'
        BY <1>1, <1>2, <4>2, AgedShows
      <4>4. ShowsTold(h, but)'
        BY <3>3, <4>3
      <4>5. Answers(new) = but
        BY <3>7, <4>1 DEF Answers
      <4> QED BY <3>7, <4>4, <4>5
    <3>9. \A t \in new.gives :
            /\ t \in DOMAIN new.graph.tasks
            /\ new.graph.tasks[t].lease = new.by
            /\ new.renewal \/ scopes'[new.by][t] >= new.graph.tasks[t].left
      <4> SUFFICES ASSUME NEW t \in op.gives
                   PROVE  /\ t \in DOMAIN h.tasks
                          /\ h.tasks[t].lease = op.by
                          /\ op.renewal \/ scopes'[op.by][t] >= h.tasks[t].left
        BY <3>7
      <4>1. /\ t \in DOMAIN op.graph.tasks /\ op.graph.tasks[t].lease = op.by
            /\ op.renewal \/ scopes[op.by][t] >= op.graph.tasks[t].left
        BY <3>2 DEF GoodOperation
      <4>2. op.by \in Session /\ t \in Task
        BY <3>2 DEF GoodOperation, Operation
      <4>3. op.graph.tasks[t] \in Entry
        BY <3>2, <4>1 DEF GoodOperation, GoodGraph, GoodEntry
      <4>4. h.tasks[t].lease = op.by /\ h.tasks[t].left = Less(op.graph.tasks[t].left)
        BY <3>6, <4>1, <4>3 DEF Older, Entry
      <4>5. op.graph.tasks[t].left \in Nat
        BY <4>3, TaskGraphAssumption DEF Entry
      <4>6. \A m, n \in Nat : m >= n => Less(m) >= Less(n)
        BY DEF Less
      <4>7. scopes[op.by][t] \in Nat /\ scopes'[op.by][t] = Less(scopes[op.by][t])
        BY <1>3, <4>2
      <4> QED BY <3>6, <4>1, <4>4, <4>5, <4>6, <4>7
    <3> QED BY <3>5, <3>6, <3>7, <3>8, <3>9 DEF GoodOperation, ShowsTold
  <2> QED BY <2>1, <2>2
<1>8. LiveScopesExclude'
  <2>1. \A n \in Nat : Less(n) > 0 => n > 0
    BY DEF Less
  <2> QED BY <1>3, <2>1 DEF TaskGraphInv, LiveScopesExclude
<1>9. LeasesAreScoped'
  <2> SUFFICES ASSUME NEW s \in Session, NEW t \in Task, told'[s][t] > 0,
                      <<s, t>> \notin renewed'
               PROVE  scopes'[s][t] >= told'[s][t]
    BY DEF LeasesAreScoped
  <2>1. told[s][t] \in Nat /\ told[s][t] > 0
    BY <1>3, TaskGraphAssumption DEF Less
  <2>2. <<s, t>> \notin renewed
    BY <1>1
  <2>3. scopes[s][t] >= told[s][t]
    BY <2>1, <2>2 DEF TaskGraphInv, LeasesAreScoped
  <2>4. \A m, n \in Nat : m >= n => Less(m) >= Less(n)
    BY DEF Less
  <2> QED BY <1>3, <2>1, <2>3, <2>4
<1> QED BY <1>4, <1>5, <1>6, <1>7, <1>8, <1>9 DEF TaskGraphInv

-----------------------------------------------------------------------------
\* Before the graph is written there is nothing to be wrong.
LEMMA TaskGraphInit == Init => TaskGraphInv
<1> SUFFICES ASSUME Init PROVE TaskGraphInv
  OBVIOUS
<1>1. GoodGraph(NoGraph)
  BY DEF GoodGraph, Graph, NoGraph
<1>2. VariablesTyped
  BY TaskGraphAssumption DEF Init, VariablesTyped, Phase, Graph
<1>3. GraphsGood /\ (inside = Free)
  BY <1>1 DEF Init, GraphsGood
<1>4. \A s \in Session, t \in Task : ~(told[s][t] > 0) /\ ~(scopes[s][t] > 0)
  BY DEF Init
<1> QED BY <1>2, <1>3, <1>4 DEF TaskGraphInv, ShowsTold, LiveScopesExclude, LeasesAreScoped

\* Every operation, every tick, the passing of time and a death keep the
\* invariant.
LEMMA TaskGraphStep == TaskGraphInv /\ [Next]_taskGraphVars => TaskGraphInv'
<1> SUFFICES ASSUME TaskGraphInv, [Next]_taskGraphVars PROVE TaskGraphInv'
  OBVIOUS
<1>1. ASSUME NEW s \in Session, NEW t \in Task,
             Claim(s, t) \/ Renew(s, t) \/ Release(s, t) \/ StartCompletion(s, t)
      PROVE  TaskGraphInv'
  BY <1>1, ClaimStep, RenewStep, ReleaseStep, MovesOnStep
<1>2. ASSUME NEW s \in Session,
             \/ ClaimNext(s) \/ NoNext(s) \/ ReleaseSession(s)
             \/ MarkVerifying(s) \/ Verify(s) \/ MarkNeedsRepair(s) \/ Complete(s)
      PROVE  TaskGraphInv'
  BY <1>2, ClaimNextStep, MovesOnStep, ReleaseSessionStep, MarkingsStep, CompleteStep
<1>3. ASSUME NEW m \in Iterator, ReadGraph(m) \/ WriteGraph(m) PROVE TaskGraphInv'
  BY <1>3, ReadGraphStep, WriteGraphStep
<1>4. CASE UNCHANGED taskGraphVars
  <2>1. /\ UNCHANGED <<graph, scopes, inside, merged, told, renewed, dropped>>
        /\ flow' \in [Session -> Phase \X (Task \cup {NoSession})]
    BY <1>4 DEF taskGraphVars, TaskGraphInv, VariablesTyped
  <2> QED BY <2>1, FlowStep
<1> QED BY <1>1, <1>2, <1>3, <1>4, CommitStep, PassTimeStep, DieStep DEF Next

\* The types of the task graph, and that a task has a lease exactly as long as
\* it is held.
THEOREM TaskGraphTypeCorrect == Spec => []TaskGraphTypeOK
<1>1. TaskGraphInv => TaskGraphTypeOK
  BY DEF TaskGraphInv, TaskGraphTypeOK, VariablesTyped, GraphsGood, GoodGraph, GoodEntry,
         GoodOperation, Operation
<1> QED BY TaskGraphInit, TaskGraphStep, <1>1, PTL DEF Spec

\* A lease that a session was told it has is on record with the time that it
\* was told, until a materialisation replaces it.
THEOREM ToldIsOnRecordHolds == Spec => []ToldIsOnRecord
<1>1. TaskGraphInv => ToldIsOnRecord
  BY DEF TaskGraphInv, ShowsTold, ToldIsOnRecord
<1> QED BY TaskGraphInit, TaskGraphStep, <1>1, PTL DEF Spec

\* No two sessions hold leases on tasks with overlapping write scopes, unless
\* one of the leases was renewed.
THEOREM ScopesExcludeHolds == Spec => []ScopesExclude
<1>1. TaskGraphInv => ScopesExclude
  <2> SUFFICES ASSUME TaskGraphInv, NEW s \in Session, NEW r \in Session,
                      NEW t \in Task, NEW u \in Task,
                      s # r, told[s][t] > 0, told[r][u] > 0, PathsOf[t] \cap PathsOf[u] # {},
                      <<s, t>> \notin renewed, <<r, u>> \notin renewed
               PROVE  FALSE
    BY DEF ScopesExclude
  <2>1. scopes[s][t] >= told[s][t] /\ scopes[r][u] >= told[r][u]
    BY DEF TaskGraphInv, LeasesAreScoped
  <2>2. /\ scopes[s][t] \in Nat /\ scopes[r][u] \in Nat
        /\ told[s][t] \in Nat /\ told[r][u] \in Nat
    BY TaskGraphAssumption DEF TaskGraphInv, VariablesTyped
  <2>3. scopes[s][t] > 0 /\ scopes[r][u] > 0
    BY <2>1, <2>2
  <2> QED BY <2>3 DEF TaskGraphInv, LiveScopesExclude
<1> QED BY TaskGraphInit, TaskGraphStep, <1>1, PTL DEF Spec

\* A task with a verification rule is shown satisfied or in repair only with
\* the verdict to match.
THEOREM VerdictMatchesStatusHolds == Spec => []VerdictMatchesStatus
<1>1. TaskGraphInv => VerdictMatchesStatus
  BY DEF TaskGraphInv, GraphsGood, GoodGraph, GoodEntry, VerdictMatchesStatus
<1> QED BY TaskGraphInit, TaskGraphStep, <1>1, PTL DEF Spec

=============================================================================
