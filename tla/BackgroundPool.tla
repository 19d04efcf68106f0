----------------------------- MODULE BackgroundPool -----------------------------
(***************************************************************************)
(* The pool of background sessions (tools/workflow-background-pool.ts) of   *)
(* one owner, channel and project: who may start a background run, in which *)
(* session, and what the registry                                           *)
(* (.openclaw-research/workflow-runtime-sessions.json) knows of it.         *)
(*                                                                          *)
(* Every operation of the pool begins by pruning: it reads the registry     *)
(* without its lock, asks the runtime about each active run, and writes all *)
(* entries back. Only that write is under the lock, so whatever was recorded*)
(* in between is lost. What the operation does then (list, lease a session, *)
(* retire sessions) is decided from the entries it has just written. A lease*)
(* reserves nothing: the run is started after it, and recorded twice, by the*)
(* orchestrator's recordWorkflowRuntimeSession and by the pool's own        *)
(* recordBackgroundWorkflowRun, each a read-modify-write under the lock.    *)
(*                                                                          *)
(* The sessions all belong to one workflow family, which is what the        *)
(* capacity counts; a session is reused for its own kind of work only.      *)
(*                                                                          *)
(* What pruning believes of a run need not be so: it looks for signs that   *)
(* the run is over in what the runtime keeps of the session, which other    *)
(* runs share, in the session's transcript and in the project's files. Which*)
(* runs at work show such a sign (seeming) is up to the environment.        *)
(***************************************************************************)
EXTENDS Naturals, FiniteSets

CONSTANTS Session,   \* session keys
          Kind,      \* kinds of work of the family
          Run,       \* bound: the runs that may ever be started
          MaxFaults, \* bound: launches that fail, entries that grow old, runs that
                     \* something says are over
          Caller,    \* concurrent operations of the pool
          Capacity,  \* MAX_POOLED_BACKGROUND_SUBAGENTS_PER_PROJECT_SCOPE
          Doomed,    \* the sets of statuses a caller may ask to retire; asking
                     \* for none is asking for all of them
          None       \* no entry, no session, no run

EntryStatus == {"active", "idle", "needs_repair"}

Entry == [run: Run, kind: Kind, status: EntryStatus, old: BOOLEAN]

ASSUME PoolAssumption ==
    /\ Capacity \in Nat \ {0}
    /\ Doomed \subseteq (SUBSET EntryStatus) \ {{}}
    /\ MaxFaults \in Nat
    /\ None \notin Session \cup Kind \cup Run \cup Entry
    /\ Caller \cap Run = {}
    /\ IsFiniteSet(Session) /\ IsFiniteSet(Run) /\ IsFiniteSet(Caller)

VARIABLES
    registry,   \* the entry of each session
    runs,       \* whether each run has started, and whether it is over
    home,       \* the session each run was started in
    seeming,    \* the runs at work that something says are over
    pc,         \* where each caller is
    snap,       \* the entries it read, or has written back
    seat,       \* the session it was leased
    task,       \* the kind of work it leased it for
    mine,       \* the run it started
    doomed,     \* the statuses it was asked to retire
    left,       \* the sessions it has retired, and not deleted yet
    faults,     \* of what MaxFaults bounds, so far
    missed,     \* history: runs recorded since it read
    reused,     \* history: callers and runs whose session was leased as idle
    untracked   \* history: runs the registry may have lost sight of

callVars == <<pc, snap, seat, task, mine, doomed, left>>
poolVars == <<registry, runs, home, seeming, callVars, faults, missed, reused, untracked>>

Registry == [Session -> Entry \cup {None}]

Empty == [s \in Session |-> None]

RunState == {"none", "live", "over"}

Live == {r \in Run : runs[r] = "live"}

Unstarted == {r \in Run : runs[r] = "none"}

Listed(entries) == {s \in Session : entries[s] # None}

In(entries, status) == {s \in Listed(entries) : entries[s].status = status}

\* Mutant: that the wait for a run timed out is taken for the end of the run.
VerdictsEager(r) == {"active", "idle"}

\* What pruning may make of an active run. Only a sign that the run is over ends its
\* entry: the state the runtime's store has for the session, a capacity failure in
\* the transcript, the runtime's answer for the run, or the project's files. A run
\* that is over may have left none, or one that cannot be read now.
Verdicts(r) ==
    {"active"} \cup
    IF runs[r] = "over" \/ r \in seeming THEN {"idle", "needs_repair"} ELSE {}

\* One word for each active run among the entries.
Words(entries) ==
    {said \in [In(entries, "active") -> EntryStatus] :
        \A s \in In(entries, "active") : said[s] \in Verdicts(entries[s].run)}

\* Mutant: the outcome itself is stored, not the status it leaves the session in.
ReviewedRaw(e, word) ==
    IF e # None /\ e.status = "active" /\ word = "idle"
    THEN [e EXCEPT !.status = "completed"]
    ELSE e

\* Mutant: a run that is not seen to be over by now is given up.
ReviewedImpatient(e, word) ==
    IF e = None THEN None
    ELSE IF e.status = "active" /\ word = "active" THEN [e EXCEPT !.status = "needs_repair"]
    ELSE e

\* One round of the pruning loop (an entry that is not active is not asked about, so
\* that the word means nothing for it); old is past BACKGROUND_RUN_STALE_MS, since
\* the start of an active run, since the end of another.
Reviewed(e, word) ==
    CASE e = None                          -> None
      [] e # None /\ e.old /\ e.status = "active" ->
            [e EXCEPT !.status = "needs_repair", !.old = FALSE]
      [] e # None /\ e.old /\ e.status # "active" -> None
      [] e # None /\ ~e.old /\ e.status = "active" -> [e EXCEPT !.status = word]
      [] OTHER                             -> e

Pruned(entries, said) == [s \in Session |-> Reviewed(entries[s], said[s])]

\* The idle sessions of the kind.
Reusable(entries, k) == {s \in In(entries, "idle") : entries[s].kind = k}

\* Mutant: one more is let in than the capacity says.
FullOffByOne(entries) == Cardinality(In(entries, "active")) > Capacity

Full(entries) == Cardinality(In(entries, "active")) >= Capacity

\* resolveNonCollidingBackgroundSessionKey: the preferred key, also when an
\* entry of the same kind has it, else a key no entry has.
NonColliding(entries, k, preferred) ==
    IF preferred \notin Listed(entries) \/ entries[preferred].kind = k
    THEN {preferred}
    ELSE Session \ Listed(entries)

--------------------------------------------------------------------------------

PoolInit ==
    /\ registry = Empty
    /\ runs = [r \in Run |-> "none"]
    /\ home = [r \in Run |-> None]
    /\ seeming = {}
    /\ pc = [c \in Caller |-> "idle"]
    /\ snap = [c \in Caller |-> Empty]
    /\ seat = [c \in Caller |-> None]
    /\ task = [c \in Caller |-> None]
    /\ mine = [c \in Caller |-> None]
    /\ doomed = [c \in Caller |-> {}]
    /\ left = [c \in Caller |-> {}]
    /\ faults = 0
    /\ missed = [c \in Caller |-> {}]
    /\ reused = {}
    /\ untracked = {}

\* History is kept of the runs at work that nothing calls over.
LoseSightOf(lost) == untracked' = untracked \cup (lost \cap (Live \ seeming))

Forget(gone) ==
    /\ untracked' = untracked \ gone
    /\ reused' = reused \ gone
    /\ missed' = [c \in Caller |-> missed[c] \ gone]

\* The operation of c is over.
Leave(c) ==
    /\ pc' = [pc EXCEPT ![c] = "idle"]
    /\ snap' = [snap EXCEPT ![c] = Empty]
    /\ seat' = [seat EXCEPT ![c] = None]
    /\ task' = [task EXCEPT ![c] = None]
    /\ mine' = [mine EXCEPT ![c] = None]
    /\ doomed' = [doomed EXCEPT ![c] = {}]
    /\ left' = [left EXCEPT ![c] = {}]

ReadRegistry(c) ==
    /\ pc[c] = "idle"
    /\ pc' = [pc EXCEPT ![c] = "pruning"]
    /\ snap' = [snap EXCEPT ![c] = registry]
    /\ missed' = [missed EXCEPT ![c] = {}]
    /\ UNCHANGED <<registry, runs, home, seeming, seat, task, mine, doomed, left, reused, untracked, faults>>

\* The pruned entries replace the file, whatever it holds by now. The runs that
\* were recorded meanwhile, and those that are given up as stale, are no longer
\* known to be active. What the operation goes on to do is part of the same step.
WriteBack(c, said) ==
    /\ pc[c] = "pruning"
    /\ registry' = Pruned(snap[c], said)
    /\ LoseSightOf(missed[c] \cup
                   {snap[c][s].run : s \in {t \in Listed(snap[c]) : snap[c][t].old}})

List(c) ==
    /\ Leave(c)
    /\ missed' = [missed EXCEPT ![c] = {}]
    /\ UNCHANGED <<runs, home, seeming, reused, faults>>

\* acquireBackgroundWorkflowSession refuses: the caller queues the work.
Refuse(c, k) ==
    /\ Reusable(registry', k) = {}
    /\ Full(registry')
    /\ Leave(c)
    /\ missed' = [missed EXCEPT ![c] = {}]
    /\ UNCHANGED <<runs, home, seeming, reused, faults>>

Lease(c, k) ==
    /\ Unstarted # {}
    /\ \/ /\ Reusable(registry', k) # {}
          /\ \E s \in Reusable(registry', k) : seat' = [seat EXCEPT ![c] = s]
          /\ reused' = reused \cup {c}
       \/ /\ Reusable(registry', k) = {}
          /\ ~Full(registry')
          /\ \E preferred \in Session, s \in Session :
                /\ s \in NonColliding(registry', k, preferred)
                /\ seat' = [seat EXCEPT ![c] = s]
          /\ reused' = reused \ {c}
    /\ task' = [task EXCEPT ![c] = k]
    /\ pc' = [pc EXCEPT ![c] = "leased"]
    /\ snap' = [snap EXCEPT ![c] = Empty]
    /\ missed' = [missed EXCEPT ![c] = {}]
    /\ UNCHANGED <<runs, home, seeming, mine, doomed, left, faults>>

\* maybeRotateBackgroundSessionKey: a session the runtime calls completed, failed
\* or aborted (it has other words for a finished session too) is left for a new one.
Rotated(s) ==
    IF \E r \in Run : home[r] = s /\ (runs[r] = "over" \/ r \in seeming)
    THEN {t \in Session \ Listed(registry) :
             t \notin {home[r] : r \in Run} \cup {seat[c] : c \in Caller}}
    ELSE {}

Spawn(c) ==
    /\ pc[c] = "leased"
    /\ \E r \in Unstarted, s \in {seat[c]} \cup Rotated(seat[c]) :
          /\ seat' = [seat EXCEPT ![c] = s]
          /\ home' = [home EXCEPT ![r] = s]
          /\ runs' = [runs EXCEPT ![r] = "live"]
          /\ mine' = [mine EXCEPT ![c] = r]
          /\ reused' = IF c \in reused THEN (reused \ {c}) \cup {r} ELSE reused
    /\ pc' = [pc EXCEPT ![c] = "spawned"]
    /\ UNCHANGED <<registry, seeming, snap, task, doomed, left, missed, untracked, faults>>

\* What is recorded while another caller prunes is missing from what it writes.
NoteRecorded(c) ==
    missed' = [d \in Caller |-> IF pc[d] \in {"pruning", "retiring", "deleting"}
                                THEN missed[d] \cup ({mine[c]} \cap (Live \ seeming))
                                ELSE missed[d]]

\* The run that recording c's run leaves without an entry.
Displaced(c) == {registry[s].run : s \in Listed(registry) \cap {seat[c]}} \ {mine[c]}

\* recordWorkflowRuntimeSession: an entry of the session keeps its startedAt.
\* The run it stood for until now has no entry any more.
RecordSession(c) ==
    /\ pc[c] = "spawned"
    /\ registry' = [registry EXCEPT ![seat[c]] =
          [run |-> mine[c], kind |-> task[c], status |-> "active",
           old |-> registry[seat[c]] # None /\ registry[seat[c]].old]]
    /\ LoseSightOf(Displaced(c))
    /\ pc' = [pc EXCEPT ![c] = "recorded"]
    /\ NoteRecorded(c)
    /\ UNCHANGED <<runs, home, seeming, snap, seat, task, mine, doomed, left, reused, faults>>

\* recordBackgroundWorkflowRun replaces the session's entry.
RecordRun(c) ==
    /\ pc[c] = "recorded"
    /\ registry' = [registry EXCEPT ![seat[c]] =
          [run |-> mine[c], kind |-> task[c], status |-> "active", old |-> FALSE]]
    /\ LoseSightOf(Displaced(c))
    /\ NoteRecorded(c)
    /\ Leave(c)
    /\ UNCHANGED <<runs, home, seeming, reused, faults>>

\* The start fails; the run cannot be recorded (the store's lock is not obtained).
LaunchFails(c) ==
    /\ pc[c] \in {"leased", "spawned", "recorded"}
    /\ faults < MaxFaults
    /\ faults' = faults + 1
    /\ LoseSightOf({mine[c]})
    /\ reused' = reused \ {c}
    /\ Leave(c)
    /\ UNCHANGED <<registry, runs, home, seeming, missed>>

--------------------------------------------------------------------------------

\* pruneBackgroundWorkflowRuns and retireBackgroundWorkflowRuns: a second write,
\* of the entries that stay.
Retire(c, statuses) ==
    /\ snap' = [snap EXCEPT ![c] = registry']
    /\ doomed' = [doomed EXCEPT ![c] = statuses]
    /\ pc' = [pc EXCEPT ![c] = "retiring"]
    /\ missed' = [missed EXCEPT ![c] = {}]
    /\ UNCHANGED <<runs, home, seeming, seat, task, mine, left, reused, faults>>

\* Mutant: the statuses asked for do not restrict what is removed.
RemovedAll(c) == Listed(snap[c])

Removed(c) == {s \in Listed(snap[c]) : snap[c][s].status \in doomed[c]}

WriteKept(c) ==
    /\ pc[c] = "retiring"
    /\ registry' = [s \in Session |-> IF s \in Removed(c) THEN None ELSE snap[c][s]]
    /\ snap' = [snap EXCEPT ![c] = Empty]
    /\ left' = [left EXCEPT ![c] = Removed(c)]
    /\ LoseSightOf(missed[c] \cup
          {snap[c][s].run : s \in {t \in Removed(c) : "active" \in doomed[c]}})
    /\ pc' = [pc EXCEPT ![c] = "deleting"]
    /\ UNCHANGED <<runs, home, seeming, seat, task, mine, doomed, missed, reused, faults>>

\* Nothing is remembered of runs that are over.
ForgetOver ==
    LET over == {r \in Run : runs'[r] = "over"}
    IN  seeming' = seeming \ over /\ Forget(over)

\* deleteSession, asked for with deleteSessions, forgets the session. What runs in
\* there goes on in the embedded runtime, which only drops its record of the run;
\* the gateway's runtime, which is not in the repository, may end it.
DeleteSession(c, s) ==
    /\ pc[c] = "deleting"
    /\ s \in left[c]
    /\ \E ended \in {{}, {r \in Live : home[r] = s}} :
          runs' = [r \in Run |-> IF r \in ended THEN "over" ELSE runs[r]]
    /\ left' = [left EXCEPT ![c] = @ \ {s}]
    /\ ForgetOver
    /\ UNCHANGED <<registry, home, pc, snap, seat, task, mine, doomed, faults>>

RetireDone(c) ==
    /\ pc[c] = "deleting"
    /\ Leave(c)
    /\ missed' = [missed EXCEPT ![c] = {}]
    /\ UNCHANGED <<registry, runs, home, seeming, reused, untracked, faults>>

--------------------------------------------------------------------------------

RunEnds(r) ==
    /\ runs[r] = "live"
    /\ runs' = [runs EXCEPT ![r] = "over"]
    /\ ForgetOver
    /\ UNCHANGED <<registry, home, callVars, faults>>

\* Something says that a run at work is over: a capacity failure in its session's
\* transcript, while the run goes on on a fallback model; what another run of the
\* session left in the runtime's store; its request or queue entry, moved on by
\* somebody else; the progress of the project's import, or that no upload is under way.
SeemsOver(r) ==
    /\ r \in Live \ seeming
    /\ seeming' = seeming \cup {r}
    /\ faults < MaxFaults
    /\ faults' = faults + 1
    /\ Forget({r})
    /\ UNCHANGED <<registry, runs, home, callVars>>

\* An hour passes for an entry.
Ages(s) ==
    /\ s \in Listed(registry)
    /\ ~registry[s].old
    /\ registry' = [registry EXCEPT ![s].old = TRUE]
    /\ faults < MaxFaults
    /\ faults' = faults + 1
    /\ UNCHANGED <<runs, home, seeming, callVars, missed, reused, untracked>>

\* Pruning is the first half of each of these operations.
PruneStep(c, said) ==
    /\ WriteBack(c, said)
    /\ \/ List(c)
       \/ \E k \in Kind : Refuse(c, k) \/ Lease(c, k)
       \/ \E d \in Doomed : Retire(c, d)

CallerStep(c) ==
    \/ ReadRegistry(c)
    \/ \E said \in Words(snap[c]) : PruneStep(c, said)
    \/ Spawn(c)
    \/ RecordSession(c)
    \/ RecordRun(c)
    \/ LaunchFails(c)
    \/ WriteKept(c)
    \/ \E s \in Session : DeleteSession(c, s)
    \/ RetireDone(c)

PoolNext ==
    \/ \E c \in Caller : CallerStep(c)
    \/ \E r \in Run : RunEnds(r) \/ SeemsOver(r)
    \/ \E s \in Session : Ages(s)

PoolSpec == PoolInit /\ [][PoolNext]_poolVars

--------------------------------------------------------------------------------

\* Types, and what a caller holds where.
PoolTypeOK ==
    /\ registry \in Registry
    /\ runs \in [Run -> RunState]
    /\ home \in [Run -> Session \cup {None}]
    /\ \A r \in Run : home[r] = None <=> runs[r] = "none"
    /\ seeming \subseteq Live
    /\ pc \in [Caller -> {"idle", "pruning", "leased", "spawned", "recorded",
                          "retiring", "deleting"}]
    /\ snap \in [Caller -> Registry]
    /\ seat \in [Caller -> Session \cup {None}]
    /\ task \in [Caller -> Kind \cup {None}]
    /\ mine \in [Caller -> Run \cup {None}]
    /\ doomed \in [Caller -> SUBSET EntryStatus]
    /\ left \in [Caller -> SUBSET Session]
    /\ missed \in [Caller -> SUBSET Run]
    /\ faults \in 0 .. MaxFaults
    /\ reused \subseteq Caller \cup Run
    /\ untracked \subseteq Run
    /\ \A c \in Caller :
          /\ pc[c] \in {"leased", "spawned", "recorded"} => seat[c] # None /\ task[c] # None
          /\ pc[c] \in {"spawned", "recorded"} => mine[c] # None

\* Started, and not yet recorded.
InFlight == {mine[c] : c \in {d \in Caller : pc[d] = "spawned"}}

\* Once recorded, a run at work that nothing calls over has an active entry in the
\* registry, unless a pruning that read before it was recorded wrote back, a later
\* run was recorded in its session, it was retired as active, or an hour passed.
LiveRunsTracked ==
    \A r \in Live \ (InFlight \cup untracked \cup seeming) :
        LET e == registry[home[r]] IN e # None /\ e.run = r /\ e.status = "active"

\* The capacity counts entries, and a lease reserves none: of the runs it sees, which
\* nothing calls over, and did not grant for a reused session, at most one per
\* concurrent caller more than the capacity less one is at work.
CapacityOverrunBounded ==
    Cardinality(Live \ (untracked \cup reused \cup seeming))
        <= Capacity + Cardinality(Caller) - 1

\* A session is leased as idle while one of its runs is at work only when the run is
\* not recorded yet, was lost sight of, or something says that it is over.
ReusesIdle ==
    [][\A c \in Caller :
          pc[c] = "pruning" /\ pc'[c] = "leased" /\ c \in reused' =>
              \A r \in Live : home[r] = seat'[c]
                                 => r \in InFlight \cup untracked' \cup seeming
      ]_poolVars

\* Deleting retired sessions takes the session from under a run at work only when the
\* run came into it after its entry was read, was lost sight of (as one is that is
\* retired as active), or something says that it is over.
DeletesOnlyRetired ==
    [][\A c \in Caller, s \in Session :
          pc[c] = "deleting" /\ s \in left[c] \ left'[c] /\ pc'[c] = "deleting" =>
              \A r \in Live : home[r] = s
                                 => r \in InFlight \cup untracked \cup missed[c] \cup seeming
      ]_poolVars

================================================================================
