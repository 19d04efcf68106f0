-------------------------- MODULE BackgroundPool_proofs --------------------------
(***************************************************************************)
(* What the pool of background sessions guarantees for any number of        *)
(* sessions, runs and concurrent callers, any capacity, and any failed      *)
(* launches and aged entries. The registry is only known through copies     *)
(* that are written back late, so the invariant speaks of the copies too: a *)
(* caller between its two accesses holds every run at work that was recorded*)
(* before it read (CopyTracks). What the capacity counts is bounded together*)
(* with the leases that may still add to it (Granted).                      *)
(***************************************************************************)
EXTENDS BackgroundPool, FiniteSetTheorems, TLAPS

\* The entry a registry or a copy of it holds for a run at work.
Holds(entries, r) ==
    /\ entries[home[r]] # None
    /\ entries[home[r]].run = r
    /\ entries[home[r]].status = "active"

\* The runs a reader of the registry may count on finding: nothing calls them over.
Known == Live \ (InFlight \cup untracked \cup seeming)

\* A caller between its two accesses of the registry holds every known run that
\* was not recorded since it read; the sessions it is then to delete are not theirs.
CopyTracks(c) ==
    \A r \in Known \ missed[c] :
        /\ pc[c] \in {"pruning", "retiring"} => Holds(snap[c], r)
        /\ pc[c] = "deleting" => home[r] \notin left[c]

\* The run a caller has started is in the session it was leased.
SeatIsHome(c) ==
    pc[c] \in {"spawned", "recorded"} => home[mine[c]] = seat[c]

\* Who may still start a run that the capacity counts.
Granted == {c \in Caller : pc[c] = "leased" /\ c \notin reused}

\* The runs that the capacity counts.
Counted == Live \ (untracked \cup reused \cup seeming)

\* Both together stay within the overrun that is allowed.
CapacityKept ==
    Cardinality(Counted) + Cardinality(Granted) <= Capacity + Cardinality(Caller) - 1

PoolInv ==
    /\ PoolTypeOK
    /\ LiveRunsTracked
    /\ \A c \in Caller : CopyTracks(c) /\ SeatIsHome(c)
    /\ CapacityKept

-----------------------------------------------------------------------------
\* Types.

\* What the pruning loop makes of an entry is an entry.
LEMMA ReviewedType ==
    ASSUME NEW e \in Entry \cup {None}, NEW word,
           e # None /\ e.status = "active" => word \in EntryStatus
    PROVE  Reviewed(e, word) \in Entry \cup {None}
<1>1. ASSUME NEW status \in EntryStatus, NEW old \in BOOLEAN, e \in Entry
      PROVE  /\ [e EXCEPT !.status = status, !.old = old] \in Entry
             /\ [e EXCEPT !.status = status] \in Entry
  BY <1>1 DEF Entry
<1>2. "needs_repair" \in EntryStatus
  BY DEF EntryStatus
<1> QED BY <1>1, <1>2 DEF Reviewed

LEMMA PrunedType ==
    ASSUME NEW entries \in Registry, NEW said \in Words(entries)
    PROVE  Pruned(entries, said) \in Registry
<1>1. ASSUME NEW s \in Session
      PROVE  Reviewed(entries[s], said[s]) \in Entry \cup {None}
  <2>1. entries[s] \in Entry \cup {None}
    BY DEF Registry
  <2>2. entries[s] # None /\ entries[s].status = "active" => said[s] \in EntryStatus
    BY DEF Words, In, Listed
  <2> QED BY <2>1, <2>2, ReviewedType
<1> QED BY <1>1 DEF Pruned, Registry

LEMMA EmptyType == Empty \in Registry
BY DEF Empty, Registry

\* Runs are never the placeholder, and neither are sessions.
LEMMA NoneApart ==
    /\ None \notin Session /\ None \notin Run /\ None \notin Kind
    /\ None \notin Entry
BY PoolAssumption

\* The callers' part of the type invariant, and the rest of it.
CallsTyped ==
    /\ pc \in [Caller -> {"idle", "pruning", "leased", "spawned", "recorded",
                          "retiring", "deleting"}]
    /\ snap \in [Caller -> Registry]
    /\ seat \in [Caller -> Session \cup {None}]
    /\ task \in [Caller -> Kind \cup {None}]
    /\ mine \in [Caller -> Run \cup {None}]
    /\ doomed \in [Caller -> SUBSET EntryStatus]
    /\ left \in [Caller -> SUBSET Session]
    /\ \A c \in Caller :
          /\ pc[c] \in {"leased", "spawned", "recorded"} => seat[c] # None /\ task[c] # None
          /\ pc[c] \in {"spawned", "recorded"} => mine[c] # None

WorldTyped ==
    /\ registry \in Registry
    /\ runs \in [Run -> RunState]
    /\ home \in [Run -> Session \cup {None}]
    /\ \A r \in Run : home[r] = None <=> runs[r] = "none"
    /\ seeming \subseteq Live
    /\ faults \in 0 .. MaxFaults

HistoryTyped ==
    /\ missed \in [Caller -> SUBSET Run]
    /\ reused \subseteq Caller \cup Run
    /\ untracked \subseteq Run

LEMMA TypeParts == PoolTypeOK <=> CallsTyped /\ WorldTyped /\ HistoryTyped
BY DEF PoolTypeOK, CallsTyped, WorldTyped, HistoryTyped

LEMMA LeaveTyped ==
    ASSUME CallsTyped, NEW c \in Caller, Leave(c)
    PROVE  CallsTyped'
BY EmptyType DEF CallsTyped, Leave

\* A write of pruned entries.
LEMMA WriteBackTyped ==
    ASSUME CallsTyped, WorldTyped, HistoryTyped, NEW c \in Caller, NEW said \in Words(snap[c]),
           WriteBack(c, said)
    PROVE  registry' \in Registry /\ untracked' \subseteq Run
<1>1. snap[c] \in Registry
  BY DEF CallsTyped
<1> QED BY <1>1, PrunedType DEF WriteBack, LoseSightOf, HistoryTyped, Live

LEMMA PruneStepTyped ==
    ASSUME CallsTyped, WorldTyped, HistoryTyped, NEW c \in Caller, NEW said \in Words(snap[c]),
           PruneStep(c, said)
    PROVE  CallsTyped' /\ WorldTyped' /\ HistoryTyped'
<1>1. ASSUME List(c) PROVE CallsTyped' /\ WorldTyped' /\ HistoryTyped'
  <2>1. registry' \in Registry /\ untracked' \subseteq Run /\ CallsTyped'
    BY <1>1, WriteBackTyped, LeaveTyped DEF PruneStep, List
  <2> QED BY <1>1, <2>1 DEF List, WorldTyped, HistoryTyped, Live
<1>2. ASSUME NEW k \in Kind, Refuse(c, k)
      PROVE  CallsTyped' /\ WorldTyped' /\ HistoryTyped'
  <2>1. registry' \in Registry /\ untracked' \subseteq Run /\ CallsTyped'
    BY <1>2, WriteBackTyped, LeaveTyped DEF PruneStep, Refuse
  <2> QED BY <1>2, <2>1 DEF Refuse, WorldTyped, HistoryTyped, Live
<1>3. ASSUME NEW k \in Kind, Lease(c, k)
      PROVE  CallsTyped' /\ WorldTyped' /\ HistoryTyped'
  <2>1. registry' \in Registry /\ untracked' \subseteq Run
    BY <1>3, WriteBackTyped DEF PruneStep, Lease
  <2>2. \E t \in Session : seat' = [seat EXCEPT ![c] = t]
    BY <1>3 DEF Lease, Reusable, In, Listed, NonColliding
  <2>3. reused' \subseteq Caller \cup Run
    BY <1>3 DEF Lease, HistoryTyped
  <2>4. CallsTyped'
    BY <1>3, <2>2, EmptyType, NoneApart DEF Lease, CallsTyped
  <2> QED BY <1>3, <2>1, <2>3, <2>4 DEF Lease, WorldTyped, HistoryTyped, Live
<1>4. ASSUME NEW statuses \in Doomed, Retire(c, statuses)
      PROVE  CallsTyped' /\ WorldTyped' /\ HistoryTyped'
  <2>1. registry' \in Registry /\ untracked' \subseteq Run
    BY <1>4, WriteBackTyped DEF PruneStep, Retire
  <2>2. statuses \in SUBSET EntryStatus
    BY PoolAssumption
  <2>3. CallsTyped'
    BY <1>4, <2>1, <2>2 DEF Retire, CallsTyped
  <2> QED BY <1>4, <2>1, <2>3 DEF Retire, WorldTyped, HistoryTyped, Live
<1> QED BY <1>1, <1>2, <1>3, <1>4 DEF PruneStep

\* A session that a lease is rotated to is a session.
LEMMA RotatedType == \A s : Rotated(s) \subseteq Session
BY DEF Rotated

LEMMA SpawnTyped ==
    ASSUME CallsTyped, WorldTyped, HistoryTyped, NEW c \in Caller, Spawn(c)
    PROVE  CallsTyped' /\ WorldTyped' /\ HistoryTyped'
<1>1. PICK r \in Unstarted, s \in {seat[c]} \cup Rotated(seat[c]) :
          /\ seat' = [seat EXCEPT ![c] = s]
          /\ home' = [home EXCEPT ![r] = s]
          /\ runs' = [runs EXCEPT ![r] = "live"]
          /\ mine' = [mine EXCEPT ![c] = r]
          /\ reused' = IF c \in reused THEN (reused \ {c}) \cup {r} ELSE reused
  BY DEF Spawn
<1>2. s \in Session /\ s # None /\ r \in Run /\ r # None
  BY RotatedType, NoneApart DEF Spawn, CallsTyped, Unstarted
<1>3. CallsTyped'
  BY <1>1, <1>2 DEF Spawn, CallsTyped
<1>4. WorldTyped'
  BY <1>1, <1>2 DEF Spawn, WorldTyped, RunState, Live
<1>5. HistoryTyped'
  BY <1>1, <1>2 DEF Spawn, HistoryTyped
<1> QED BY <1>3, <1>4, <1>5

LEMMA RecordTyped ==
    ASSUME CallsTyped, WorldTyped, HistoryTyped, NEW c \in Caller,
           RecordSession(c) \/ RecordRun(c)
    PROVE  CallsTyped' /\ WorldTyped' /\ HistoryTyped'
<1>1. seat[c] \in Session /\ mine[c] \in Run /\ task[c] \in Kind
  BY DEF RecordSession, RecordRun, CallsTyped
<1>2. missed' \in [Caller -> SUBSET Run]
  BY <1>1 DEF RecordSession, RecordRun, NoteRecorded, HistoryTyped, Live
<1>3. untracked' \subseteq Run
  BY DEF RecordSession, RecordRun, LoseSightOf, HistoryTyped, Live
<1>4. CallsTyped'
  <2>1. CASE RecordSession(c)
    BY <1>1, <2>1, NoneApart DEF RecordSession, CallsTyped
  <2>2. CASE RecordRun(c)
    BY <2>2, LeaveTyped DEF RecordRun
  <2> QED BY <2>1, <2>2
<1>5. \A b \in BOOLEAN :
        [run |-> mine[c], kind |-> task[c], status |-> "active", old |-> b] \in Entry
  BY <1>1 DEF Entry, EntryStatus
<1>6. registry' \in Registry
  <2>1. PICK b \in BOOLEAN : b = (registry[seat[c]] # None /\ registry[seat[c]].old)
    <3>1. registry[seat[c]] \in Entry \cup {None}
      BY <1>1 DEF WorldTyped, Registry
    <3>2. registry[seat[c]] # None => registry[seat[c]].old \in BOOLEAN
      BY <3>1 DEF Entry
    <3> QED BY <3>2
  <2>2. \E e \in Entry : registry' = [registry EXCEPT ![seat[c]] = e]
    BY <1>5, <2>1 DEF RecordSession, RecordRun
  <2> QED BY <1>1, <2>2 DEF WorldTyped, Registry
<1> QED BY <1>2, <1>3, <1>4, <1>6 DEF RecordSession, RecordRun, WorldTyped, HistoryTyped, Live

LEMMA RetiringTyped ==
    ASSUME CallsTyped, WorldTyped, HistoryTyped, NEW c \in Caller,
           WriteKept(c) \/ (\E s \in Session : DeleteSession(c, s)) \/ RetireDone(c)
    PROVE  CallsTyped' /\ WorldTyped' /\ HistoryTyped'
<1>1. CASE WriteKept(c)
  <2>1. registry' \in Registry
    BY <1>1 DEF WriteKept, CallsTyped, Registry
  <2>2. untracked' \subseteq Run
    BY <1>1 DEF WriteKept, LoseSightOf, HistoryTyped, Live
  <2>3. CallsTyped'
    BY <1>1, EmptyType DEF WriteKept, CallsTyped, Removed, Listed
  <2> QED BY <1>1, <2>1, <2>2, <2>3 DEF WriteKept, WorldTyped, HistoryTyped, Live
<1>2. ASSUME NEW s \in Session, DeleteSession(c, s)
      PROVE  CallsTyped' /\ WorldTyped' /\ HistoryTyped'
  <2>1. CallsTyped'
    BY <1>2 DEF DeleteSession, CallsTyped
  <2>2. WorldTyped'
    BY <1>2 DEF DeleteSession, ForgetOver, Forget, WorldTyped, RunState, Live
  <2>3. HistoryTyped'
    BY <1>2 DEF DeleteSession, ForgetOver, Forget, HistoryTyped
  <2> QED BY <2>1, <2>2, <2>3
<1>3. CASE RetireDone(c)
  <2>1. CallsTyped'
    BY <1>3, LeaveTyped DEF RetireDone
  <2> QED BY <1>3, <2>1 DEF RetireDone, WorldTyped, HistoryTyped, Live
<1> QED BY <1>1, <1>2, <1>3

LEMMA ReadAndFailTyped ==
    ASSUME CallsTyped, WorldTyped, HistoryTyped, NEW c \in Caller,
           ReadRegistry(c) \/ LaunchFails(c)
    PROVE  CallsTyped' /\ WorldTyped' /\ HistoryTyped'
<1>1. CASE ReadRegistry(c)
  BY <1>1 DEF ReadRegistry, CallsTyped, WorldTyped, HistoryTyped, Live
<1>2. CASE LaunchFails(c)
  <2>1. CallsTyped'
    BY <1>2, LeaveTyped DEF LaunchFails
  <2>2. WorldTyped'
    BY <1>2, PoolAssumption DEF LaunchFails, WorldTyped, Live
  <2>3. HistoryTyped'
    BY <1>2 DEF LaunchFails, LoseSightOf, HistoryTyped, Live
  <2> QED BY <2>1, <2>2, <2>3
<1> QED BY <1>1, <1>2

LEMMA WorldStepTyped ==
    ASSUME CallsTyped, WorldTyped, HistoryTyped,
           (\E r \in Run : RunEnds(r) \/ SeemsOver(r)) \/ (\E s \in Session : Ages(s))
    PROVE  CallsTyped' /\ WorldTyped' /\ HistoryTyped'
<1>1. ASSUME NEW r \in Run, RunEnds(r)
      PROVE  CallsTyped' /\ WorldTyped' /\ HistoryTyped'
  <2>1. WorldTyped'
    BY <1>1 DEF RunEnds, ForgetOver, Forget, WorldTyped, RunState, Live
  <2>2. HistoryTyped'
    BY <1>1 DEF RunEnds, ForgetOver, Forget, HistoryTyped
  <2>3. CallsTyped'
    BY <1>1 DEF RunEnds, CallsTyped, callVars
  <2> QED BY <2>1, <2>2, <2>3
<1>2. ASSUME NEW s \in Session, Ages(s)
      PROVE  CallsTyped' /\ WorldTyped' /\ HistoryTyped'
  <2>1. PICK e : e = [registry[s] EXCEPT !.old = TRUE]
    OBVIOUS
  <2>2. registry[s] \in Entry
    BY <1>2 DEF Ages, Listed, WorldTyped, Registry
  <2>3. e \in Entry
    BY <2>1, <2>2 DEF Entry
  <2>4. registry' = [registry EXCEPT ![s] = e]
    BY <1>2, <2>1 DEF Ages
  <2>5. registry' \in Registry
    BY <2>3, <2>4 DEF WorldTyped, Registry
  <2>6. CallsTyped' /\ HistoryTyped'
    BY <1>2 DEF Ages, CallsTyped, callVars, HistoryTyped
  <2> QED BY <1>2, <2>5, <2>6, PoolAssumption DEF Ages, WorldTyped, Live
<1>3. ASSUME NEW r \in Run, SeemsOver(r)
      PROVE  CallsTyped' /\ WorldTyped' /\ HistoryTyped'
  <2>1. WorldTyped'
    BY <1>3, PoolAssumption DEF SeemsOver, WorldTyped, Live
  <2>2. CallsTyped' /\ HistoryTyped'
    BY <1>3 DEF SeemsOver, Forget, CallsTyped, callVars, HistoryTyped
  <2> QED BY <2>1, <2>2
<1> QED BY <1>1, <1>2, <1>3

LEMMA PoolNextTyped ==
    ASSUME PoolTypeOK, PoolNext
    PROVE  PoolTypeOK'
<1>1. CallsTyped /\ WorldTyped /\ HistoryTyped
  BY TypeParts
<1>2. CallsTyped' /\ WorldTyped' /\ HistoryTyped'
  BY <1>1, PruneStepTyped, SpawnTyped, RecordTyped, RetiringTyped, ReadAndFailTyped,
     WorldStepTyped DEF PoolNext, CallerStep
<1> QED BY <1>2 DEF PoolTypeOK, CallsTyped, WorldTyped, HistoryTyped

-----------------------------------------------------------------------------
\* Tracking: registry and copies hold the known runs.

Tracks == LiveRunsTracked /\ \A c \in Caller : CopyTracks(c) /\ SeatIsHome(c)

Reading(c) == pc[c] \in {"pruning", "retiring", "deleting"}

\* Callers other than c stand still.
CallersWait(c) ==
    \A d \in Caller \ {c} :
        /\ pc'[d] = pc[d] /\ snap'[d] = snap[d] /\ seat'[d] = seat[d]
        /\ task'[d] = task[d] /\ mine'[d] = mine[d] /\ doomed'[d] = doomed[d]
        /\ left'[d] = left[d]

LEMMA TracksKnown == LiveRunsTracked <=> \A r \in Known : Holds(registry, r)
BY DEF LiveRunsTracked, Known, Holds

LEMMA LeaveWaits ==
    ASSUME CallsTyped, NEW c \in Caller, Leave(c)
    PROVE  CallersWait(c) /\ pc'[c] = "idle"
BY DEF CallsTyped, Leave, CallersWait

\* What is in flight after a step of c.
LEMMA FlightStep ==
    ASSUME NEW c \in Caller, CallersWait(c)
    PROVE  /\ (pc[c] # "spawned" /\ pc'[c] # "spawned") => InFlight' = InFlight
           /\ pc'[c] # "spawned" => InFlight \subseteq InFlight' \cup {mine[c]}
           /\ pc[c] # "spawned" => InFlight \subseteq InFlight'
           /\ pc'[c] = "spawned" => mine'[c] \in InFlight'
<1>1. \A r : r \in InFlight <=> \E d \in Caller : pc[d] = "spawned" /\ mine[d] = r
  BY DEF InFlight
<1>2. \A r : r \in InFlight' <=> \E d \in Caller : pc'[d] = "spawned" /\ mine'[d] = r
  BY DEF InFlight
<1>3. \A d \in Caller : d # c => pc'[d] = pc[d] /\ mine'[d] = mine[d]
  BY DEF CallersWait
<1>4. (pc[c] # "spawned" /\ pc'[c] # "spawned") => \A r : r \in InFlight' <=> r \in InFlight
  BY <1>1, <1>2, <1>3
<1> QED BY <1>1, <1>2, <1>3, <1>4

\* The tracking, caller by caller.
LEMMA TracksStep ==
    ASSUME CallsTyped, Tracks, NEW c, CallersWait(c),
           \A r \in Known' : Holds(registry, r)',
           c \in Caller => CopyTracks(c)' /\ SeatIsHome(c)',
           \A d \in Caller \ {c} : Reading(d) =>
              \A r \in Known' \ missed'[d] :
                 r \in Known /\ r \notin missed[d] /\ home'[r] = home[r],
           \A d \in Caller \ {c} :
              pc[d] \in {"spawned", "recorded"} => home'[mine[d]] = home[mine[d]]
    PROVE  Tracks'
<1>1. LiveRunsTracked'
  BY DEF LiveRunsTracked, Known, Holds
<1>2. ASSUME NEW d \in Caller, d # c
      PROVE  CopyTracks(d)' /\ SeatIsHome(d)'
  <2>1. /\ pc'[d] = pc[d] /\ snap'[d] = snap[d] /\ seat'[d] = seat[d] /\ mine'[d] = mine[d]
        /\ left'[d] = left[d] /\ CopyTracks(d) /\ SeatIsHome(d)
    BY <1>2 DEF CallersWait, Tracks
  <2>2. SeatIsHome(d)'
    BY <1>2, <2>1 DEF SeatIsHome
  <2>3. CopyTracks(d)'
    BY <1>2, <2>1 DEF CopyTracks, Reading, Holds
  <2> QED BY <2>2, <2>3
<1> QED BY <1>1, <1>2 DEF Tracks

\* What a caller writes back holds the runs that are known afterwards.
LEMMA WriteBackTracks ==
    ASSUME CallsTyped, WorldTyped, Tracks, NEW c \in Caller, NEW said \in Words(snap[c]),
           WriteBack(c, said), runs' = runs, home' = home, seeming' = seeming,
           InFlight' = InFlight
    PROVE  /\ Known' \subseteq Known
           /\ \A r \in Known' : r \notin missed[c] /\ Holds(registry, r)'
<1>1. Known' \subseteq Known
  BY DEF Known, WriteBack, LoseSightOf, Live
<1>2. ASSUME NEW r \in Known'
      PROVE  r \notin missed[c] /\ Holds(registry, r)'
  <2>1. /\ r \in Known /\ r \in Run /\ runs[r] = "live" /\ r \in Live
        /\ r \notin untracked' /\ r \notin seeming
    BY <1>1, <1>2 DEF Known, Live
  <2>2. r \notin missed[c]
    BY <2>1 DEF WriteBack, LoseSightOf
  <2>3. Holds(snap[c], r)
    BY <2>1, <2>2 DEF Tracks, CopyTracks, WriteBack
  <2>4. PICK e : e = snap[c][home[r]]
    OBVIOUS
  <2>5. e # None /\ e.run = r /\ e.status = "active"
    BY <2>3, <2>4 DEF Holds
  <2>6. home[r] \in Session
    BY <2>1 DEF WorldTyped
  <2>7. e \in Entry
    BY <2>4, <2>5, <2>6 DEF CallsTyped, Registry
  <2>8. ~e.old
    BY <2>1, <2>4, <2>5, <2>6 DEF WriteBack, LoseSightOf, Listed
  <2>9. registry'[home[r]] = Reviewed(e, said[home[r]])
    BY <2>4, <2>6 DEF WriteBack, Pruned
  <2>10. said[home[r]] = "active"
    <3>1. home[r] \in In(snap[c], "active")
      BY <2>4, <2>5, <2>6 DEF In, Listed
    <3>2. said[home[r]] \in Verdicts(r)
      BY <2>4, <2>5, <3>1 DEF Words
    <3> QED BY <2>1, <3>2 DEF Verdicts
  <2>11. Reviewed(e, said[home[r]]) = [e EXCEPT !.status = "active"]
    BY <2>5, <2>8, <2>10 DEF Reviewed
  <2>12. [e EXCEPT !.status = "active"] = e
    BY <2>5, <2>7 DEF Entry
  <2>13. registry'[home[r]] = e
    BY <2>9, <2>11, <2>12
  <2> QED BY <2>2, <2>5, <2>13 DEF Holds
<1> QED BY <1>1, <1>2

\* Any pruning operation: what follows the write back reads nothing.
LEMMA PruneStepTracks ==
    ASSUME CallsTyped, WorldTyped, HistoryTyped, Tracks, NEW c \in Caller, NEW said \in Words(snap[c]),
           PruneStep(c, said)
    PROVE  /\ Tracks' /\ CallersWait(c)
           /\ pc[c] = "pruning" /\ pc'[c] \in {"idle", "leased", "retiring"}
           /\ runs' = runs /\ home' = home /\ seeming' = seeming /\ InFlight' = InFlight
           /\ \A r \in Known' : Holds(registry, r)'
<1>1. /\ WriteBack(c, said) /\ runs' = runs /\ home' = home /\ seeming' = seeming
      /\ missed' = [missed EXCEPT ![c] = {}]
  BY DEF PruneStep, List, Refuse, Lease, Retire
<1>2. /\ CallersWait(c) /\ pc[c] = "pruning"
      /\ \/ pc'[c] \in {"idle", "leased"}
         \/ pc'[c] = "retiring" /\ snap'[c] = registry'
  <2>1. ASSUME Leave(c) PROVE CallersWait(c) /\ pc'[c] = "idle"
    BY <2>1, LeaveWaits
  <2>2. ASSUME NEW k \in Kind, Lease(c, k)
        PROVE  CallersWait(c) /\ pc'[c] = "leased"
    <3>1. \E t : seat' = [seat EXCEPT ![c] = t]
      BY <2>2 DEF Lease
    <3> QED BY <2>2, <3>1 DEF Lease, CallsTyped, CallersWait
  <2>3. ASSUME NEW statuses, Retire(c, statuses)
        PROVE  CallersWait(c) /\ pc'[c] = "retiring" /\ snap'[c] = registry'
    BY <2>3 DEF Retire, CallsTyped, CallersWait
  <2> QED BY <1>1, <2>1, <2>2, <2>3 DEF PruneStep, List, Refuse, WriteBack
<1>3. InFlight' = InFlight
  BY <1>2, FlightStep
<1>4. /\ Known' \subseteq Known
      /\ \A r \in Known' : r \notin missed[c] /\ Holds(registry, r)'
  BY <1>1, <1>3, WriteBackTracks
<1>5. CopyTracks(c)' /\ SeatIsHome(c)'
  BY <1>2, <1>4 DEF CopyTracks, Holds, SeatIsHome
<1>6. \A d \in Caller \ {c} : missed'[d] = missed[d]
  BY <1>1 DEF HistoryTyped
<1>7. Tracks'
  BY <1>1, <1>2, <1>4, <1>5, <1>6, TracksStep
<1> QED BY <1>1, <1>2, <1>3, <1>4, <1>7

LEMMA ReadTracks ==
    ASSUME CallsTyped, WorldTyped, HistoryTyped, Tracks, NEW c \in Caller, ReadRegistry(c)
    PROVE  Tracks' /\ CallersWait(c) /\ InFlight' = InFlight /\ pc'[c] = "pruning"
<1>1. /\ CallersWait(c) /\ pc[c] = "idle" /\ pc'[c] = "pruning" /\ snap'[c] = registry
      /\ registry' = registry /\ home' = home /\ runs' = runs /\ untracked' = untracked
      /\ seeming' = seeming
      /\ \A d \in Caller \ {c} : missed'[d] = missed[d]
  BY DEF ReadRegistry, CallsTyped, HistoryTyped, CallersWait
<1>2. InFlight' = InFlight
  BY <1>1, FlightStep
<1>3. Known' = Known
  BY <1>1, <1>2 DEF Known, Live
<1>4. \A r \in Known' : Holds(registry, r)'
  BY <1>1, <1>3, TracksKnown DEF Tracks, Holds
<1>5. CopyTracks(c)' /\ SeatIsHome(c)'
  BY <1>1, <1>4 DEF CopyTracks, SeatIsHome, Holds
<1> QED BY <1>1, <1>2, <1>3, <1>4, <1>5, TracksStep

\* A new run is in flight, and no run that is known changes its session.
LEMMA SpawnTracks ==
    ASSUME CallsTyped, WorldTyped, HistoryTyped, Tracks, NEW c \in Caller, Spawn(c)
    PROVE  Tracks' /\ CallersWait(c) /\ pc'[c] = "spawned"
<1>1. PICK r \in Unstarted, s \in {seat[c]} \cup Rotated(seat[c]) :
          /\ seat' = [seat EXCEPT ![c] = s]
          /\ home' = [home EXCEPT ![r] = s]
          /\ runs' = [runs EXCEPT ![r] = "live"]
          /\ mine' = [mine EXCEPT ![c] = r]
  BY DEF Spawn
<1>2. r \in Run /\ runs[r] = "none" /\ home[r] = None
  BY DEF Unstarted, WorldTyped
<1>3. /\ CallersWait(c) /\ pc[c] = "leased" /\ pc'[c] = "spawned"
      /\ mine'[c] = r /\ seat'[c] = s /\ home'[r] = s
      /\ registry' = registry /\ missed' = missed /\ untracked' = untracked
      /\ seeming' = seeming
      /\ \A x \in Run : x # r => home'[x] = home[x] /\ runs'[x] = runs[x]
  BY <1>1, <1>2 DEF Spawn, CallsTyped, CallersWait, WorldTyped
<1>4. InFlight \subseteq InFlight' /\ r \in InFlight'
  BY <1>3, FlightStep
<1>5. \A x \in Known' : x \in Known /\ home'[x] = home[x]
  BY <1>3, <1>4 DEF Known, Live
<1>6. \A x \in Known' : Holds(registry, x)'
  BY <1>3, <1>5, TracksKnown DEF Tracks, Holds
<1>7. CopyTracks(c)' /\ SeatIsHome(c)'
  BY <1>3 DEF CopyTracks, SeatIsHome
<1>8. ASSUME NEW d \in Caller, pc[d] \in {"spawned", "recorded"}
      PROVE  home'[mine[d]] = home[mine[d]]
  <2>1. /\ mine[d] \in Run /\ home[mine[d]] = seat[d] /\ seat[d] # None
    BY <1>8 DEF CallsTyped, Tracks, SeatIsHome
  <2> QED BY <1>2, <1>3, <2>1
<1> QED BY <1>3, <1>5, <1>6, <1>7, <1>8, TracksStep

\* A run is recorded: whoever reads meanwhile misses it, and the run whose entry
\* it takes is lost sight of.
LEMMA RecordTracks ==
    ASSUME CallsTyped, WorldTyped, HistoryTyped, Tracks, NEW c \in Caller,
           RecordSession(c) \/ RecordRun(c)
    PROVE  Tracks' /\ CallersWait(c) /\ pc'[c] \in {"recorded", "idle"}
<1>1. /\ mine[c] \in Run /\ seat[c] \in Session /\ home[mine[c]] = seat[c]
      /\ pc[c] \in {"spawned", "recorded"}
  BY DEF RecordSession, RecordRun, CallsTyped, Tracks, SeatIsHome
<1>2. /\ CallersWait(c) /\ pc'[c] \in {"recorded", "idle"}
      /\ pc'[c] = "recorded" => mine'[c] = mine[c] /\ seat'[c] = seat[c]
      /\ runs' = runs /\ home' = home /\ seeming' = seeming
  <2>1. CASE RecordSession(c)
    BY <2>1 DEF RecordSession, CallsTyped, CallersWait
  <2>2. CASE RecordRun(c)
    BY <2>2, LeaveWaits DEF RecordRun
  <2> QED BY <2>1, <2>2
<1>3. /\ LoseSightOf(Displaced(c))
      /\ \A d \in Caller : missed'[d] = IF Reading(d) THEN missed[d] \cup ({mine[c]} \cap (Live \ seeming))
                                        ELSE missed[d]
  BY DEF RecordSession, RecordRun, NoteRecorded, Reading
<1>4. InFlight \subseteq InFlight' \cup {mine[c]}
  BY <1>2, FlightStep
<1>5. \A r \in Known' : /\ r \in Live /\ (r \in Known \/ r = mine[c])
                        /\ r \notin untracked' /\ r \notin seeming
  BY <1>2, <1>3, <1>4 DEF Known, Live, LoseSightOf
<1>6. ASSUME NEW r \in Known' PROVE Holds(registry, r)'
  <2>1. r \in Run /\ home[r] \in Session
    BY <1>5, <1>6 DEF Live, WorldTyped
  <2>2. PICK e : /\ e # None /\ e.run = mine[c] /\ e.status = "active"
                 /\ registry' = [registry EXCEPT ![seat[c]] = e]
    <3>1. PICK b \in BOOLEAN :
             registry' = [registry EXCEPT ![seat[c]] =
                [run |-> mine[c], kind |-> task[c], status |-> "active", old |-> b]]
      <4>1. registry[seat[c]] \in Entry \cup {None}
        BY <1>1 DEF WorldTyped, Registry
      <4>2. registry[seat[c]] # None => registry[seat[c]].old \in BOOLEAN
        BY <4>1 DEF Entry
      <4>3. (registry[seat[c]] # None /\ registry[seat[c]].old) \in BOOLEAN
        BY <4>2
      <4> QED BY <4>3 DEF RecordSession, RecordRun
    <3>2. task[c] \in Kind
      BY DEF RecordSession, RecordRun, CallsTyped
    <3>3. [run |-> mine[c], kind |-> task[c], status |-> "active", old |-> b] \in Entry
      BY <1>1, <3>2 DEF Entry, EntryStatus
    <3> QED BY <3>1, <3>3, NoneApart
  <2>3. CASE r = mine[c]
    BY <1>1, <1>2, <2>2, <2>3 DEF Holds, WorldTyped, Registry
  <2>4. CASE r # mine[c]
    <3>1. r \in Known /\ Holds(registry, r)
      BY <1>5, <2>4, TracksKnown DEF Tracks
    <3>2. home[r] # seat[c]
      <4>1. ASSUME home[r] = seat[c] PROVE r \in Displaced(c)
        BY <1>1, <2>4, <3>1, <4>1 DEF Displaced, Holds, Listed
      <4> QED BY <1>3, <1>5, <4>1 DEF LoseSightOf
    <3> QED BY <1>2, <2>1, <2>2, <3>1, <3>2 DEF Holds, WorldTyped, Registry
  <2> QED BY <2>3, <2>4
<1>7. CopyTracks(c)' /\ SeatIsHome(c)'
  BY <1>1, <1>2 DEF CopyTracks, SeatIsHome
<1>8. \A d \in Caller \ {c} : Reading(d) =>
         \A r \in Known' \ missed'[d] :
            r \in Known /\ r \notin missed[d] /\ home'[r] = home[r]
  BY <1>2, <1>3, <1>5
<1> QED BY <1>2, <1>6, <1>7, <1>8, TracksStep

\* The second write of a retirement removes known runs only when it was asked to
\* remove active ones, and then they are lost sight of.
LEMMA WriteKeptTracks ==
    ASSUME CallsTyped, WorldTyped, HistoryTyped, Tracks, NEW c \in Caller, WriteKept(c)
    PROVE  Tracks' /\ CallersWait(c) /\ pc'[c] = "deleting"
<1>1. /\ CallersWait(c) /\ pc[c] = "retiring" /\ pc'[c] = "deleting" /\ left'[c] = Removed(c)
      /\ runs' = runs /\ home' = home /\ missed' = missed /\ seeming' = seeming
  BY DEF WriteKept, CallsTyped, CallersWait
<1>2. InFlight' = InFlight
  BY <1>1, FlightStep
<1>3. ASSUME NEW r \in Known'
      PROVE  r \in Known /\ r \notin missed[c] /\ home[r] \notin Removed(c) /\ Holds(registry, r)'
  <2>1. /\ r \in Live /\ r \in Known /\ r \in Run /\ r \notin seeming
        /\ r \notin untracked' /\ r \notin missed[c]
    BY <1>1, <1>2, <1>3 DEF Known, Live, WriteKept, LoseSightOf
  <2>2. Holds(snap[c], r)
    BY <1>1, <2>1 DEF Tracks, CopyTracks
  <2>3. home[r] \in Session
    BY <2>1 DEF WorldTyped, Live
  <2>4. home[r] \in Listed(snap[c])
    BY <2>2, <2>3 DEF Holds, Listed
  <2>5. home[r] \notin Removed(c)
    <3>1. ASSUME home[r] \in Removed(c) PROVE r \in untracked'
      BY <2>1, <2>2, <3>1 DEF Removed, Holds, WriteKept, LoseSightOf
    <3> QED BY <2>1, <3>1
  <2>6. registry'[home[r]] = snap[c][home[r]]
    BY <2>3, <2>5 DEF WriteKept
  <2> QED BY <1>1, <2>1, <2>2, <2>5, <2>6 DEF Holds
<1>4. CopyTracks(c)' /\ SeatIsHome(c)'
  BY <1>1, <1>3 DEF CopyTracks, SeatIsHome, Holds
<1> QED BY <1>1, <1>3, <1>4, TracksStep

\* Runs that are over are forgotten; no other set of runs grows.
LEMMA ForgetOverKeeps ==
    ASSUME HistoryTyped, ForgetOver, Live' \subseteq Live,
           \A r \in Live' : runs'[r] = "live"
    PROVE  /\ \A r \in Live' : r \in untracked' <=> r \in untracked
           /\ \A r \in Live' : r \in seeming' <=> r \in seeming
           /\ \A c \in Caller : \A r \in Live' : r \in missed'[c] <=> r \in missed[c]
BY DEF ForgetOver, Forget, HistoryTyped

LEMMA DeleteTracks ==
    ASSUME CallsTyped, WorldTyped, HistoryTyped, Tracks, NEW c \in Caller,
           NEW s \in Session, DeleteSession(c, s)
    PROVE  Tracks' /\ CallersWait(c) /\ pc'[c] = pc[c]
<1>1. /\ CallersWait(c) /\ pc[c] = "deleting" /\ pc' = pc /\ mine' = mine /\ seat' = seat
      /\ registry' = registry /\ home' = home
      /\ left'[c] \subseteq left[c]
  BY DEF DeleteSession, CallsTyped, CallersWait
<1>2. InFlight' = InFlight
  BY <1>1, FlightStep
<1>3. Live' \subseteq Live /\ \A r \in Live' : runs'[r] = "live" /\ r \in Run
  BY DEF DeleteSession, WorldTyped, Live
<1>4. /\ \A r \in Live' : r \in untracked' <=> r \in untracked
      /\ \A r \in Live' : r \in seeming' <=> r \in seeming
      /\ \A d \in Caller : \A r \in Live' : r \in missed'[d] <=> r \in missed[d]
  BY <1>3, ForgetOverKeeps DEF DeleteSession
<1>5. Known' \subseteq Known /\ Known' \subseteq Live'
  BY <1>2, <1>3, <1>4 DEF Known
<1>6. \A r \in Known' : Holds(registry, r)'
  BY <1>1, <1>5, TracksKnown DEF Tracks, Holds
<1>7. CopyTracks(c)'
  BY <1>1, <1>4, <1>5 DEF Tracks, CopyTracks
<1>8. SeatIsHome(c)'
  BY <1>1 DEF SeatIsHome
<1> QED BY <1>1, <1>4, <1>5, <1>6, <1>7, <1>8, TracksStep

LEMMA LeavingTracks ==
    ASSUME CallsTyped, WorldTyped, HistoryTyped, Tracks, NEW c \in Caller,
           RetireDone(c) \/ LaunchFails(c)
    PROVE  Tracks' /\ CallersWait(c) /\ pc'[c] = "idle"
<1>1. /\ CallersWait(c) /\ pc'[c] = "idle" /\ registry' = registry /\ home' = home
      /\ runs' = runs /\ seeming' = seeming
      /\ \A d \in Caller \ {c} : missed'[d] = missed[d]
  BY LeaveWaits DEF RetireDone, LaunchFails, HistoryTyped
<1>2. Known' \subseteq Known
  <2>1. InFlight \subseteq InFlight' \cup {mine[c]}
    BY <1>1, FlightStep
  <2>2. CASE RetireDone(c)
    <3>1. InFlight \subseteq InFlight' /\ untracked' = untracked
      BY <1>1, <2>2, FlightStep DEF RetireDone
    <3> QED BY <1>1, <3>1 DEF Known, Live
  <2>3. CASE LaunchFails(c)
    BY <1>1, <2>1, <2>3 DEF LaunchFails, LoseSightOf, Known, Live
  <2> QED BY <2>2, <2>3
<1>3. \A r \in Known' : Holds(registry, r)'
  BY <1>1, <1>2, TracksKnown DEF Tracks, Holds
<1>4. CopyTracks(c)' /\ SeatIsHome(c)'
  BY <1>1 DEF CopyTracks, SeatIsHome
<1> QED BY <1>1, <1>2, <1>3, <1>4, TracksStep

LEMMA WorldTracks ==
    ASSUME CallsTyped, WorldTyped, HistoryTyped, Tracks,
           \/ \E r \in Run : RunEnds(r) \/ SeemsOver(r)
           \/ \E s \in Session : Ages(s)
           \/ UNCHANGED poolVars
    PROVE  Tracks' /\ pc' = pc /\ \A c : CallersWait(c)
<1>1. /\ \A c : CallersWait(c)
      /\ pc' = pc /\ snap' = snap /\ seat' = seat /\ mine' = mine /\ home' = home
      /\ doomed' = doomed /\ left' = left
  BY DEF RunEnds, SeemsOver, Ages, poolVars, callVars, CallersWait
<1>2. InFlight' = InFlight
  BY <1>1 DEF InFlight
<1>3. /\ Known' \subseteq Known
      /\ \A c \in Caller : \A r \in Known' : r \in missed'[c] <=> r \in missed[c]
  <2>1. ASSUME NEW x \in Run, RunEnds(x)
        PROVE  /\ Known' \subseteq Known
               /\ \A c \in Caller : \A r \in Known' : r \in missed'[c] <=> r \in missed[c]
    <3>1. Live' \subseteq Live /\ \A r \in Live' : runs'[r] = "live"
      BY <2>1 DEF RunEnds, WorldTyped, Live
    <3> QED BY <1>2, <2>1, <3>1, ForgetOverKeeps DEF Known, RunEnds
  <2>2. CASE \E x \in Run : SeemsOver(x)
    BY <1>2, <2>2 DEF SeemsOver, Forget, HistoryTyped, Known, Live
  <2>3. CASE (\E s \in Session : Ages(s)) \/ UNCHANGED poolVars
    BY <1>2, <2>3 DEF Ages, poolVars, Known, Live
  <2> QED BY <2>1, <2>2, <2>3
<1>4. \A r \in Known' : Holds(registry, r) /\ r \in Run /\ runs[r] = "live"
  BY <1>3, TracksKnown DEF Tracks, Known, Live
<1>5. \A r \in Known' : Holds(registry, r)'
  <2>1. ASSUME NEW s \in Session, Ages(s), NEW r \in Known'
        PROVE  Holds(registry, r)'
    <3>1. home[r] \in Session /\ Holds(registry, r)
      BY <1>4, <2>1 DEF WorldTyped
    <3>2. PICK e : e = [registry[s] EXCEPT !.old = TRUE]
      OBVIOUS
    <3>3. registry[s] \in Entry
      BY <2>1 DEF Ages, Listed, WorldTyped, Registry
    <3>4. e.run = registry[s].run /\ e.status = registry[s].status /\ e \in Entry
      BY <3>2, <3>3 DEF Entry
    <3>5. registry' = [registry EXCEPT ![s] = e]
      BY <2>1, <3>2 DEF Ages
    <3> QED BY <1>1, <3>1, <3>4, <3>5, NoneApart DEF Holds, WorldTyped, Registry
  <2>2. CASE registry' = registry
    BY <1>1, <1>4, <2>2 DEF Holds
  <2> QED BY <2>1, <2>2 DEF RunEnds, SeemsOver, poolVars
<1>6. ASSUME NEW c \in Caller PROVE CopyTracks(c)' /\ SeatIsHome(c)'
  BY <1>1, <1>3 DEF Tracks, CopyTracks, SeatIsHome, Holds
<1> QED BY <1>1, <1>5, <1>6 DEF Tracks, LiveRunsTracked, Known, Holds

-----------------------------------------------------------------------------
\* Counting the runs at work against the capacity.

\* A finite set has no more images than elements, and a set that is mapped into
\* a finite one without collisions has no more elements than that.
LEMMA ImageCounted ==
    ASSUME NEW W, IsFiniteSet(W), NEW m
    PROVE  /\ IsFiniteSet({m[c] : c \in W})
           /\ Cardinality({m[c] : c \in W}) <= Cardinality(W)
<1> DEFINE F == {m[c] : c \in W}
           f == [c \in W |-> m[c]]
<1>1. f \in Surjection(W, F)
  BY DEF Surjection
<1> HIDE DEF F, f
<1>2. IsFiniteSet(F) /\ Cardinality(F) <= Cardinality(W)
  BY <1>1, FS_Surjection
<1> QED BY <1>2 DEF F

LEMMA MappedCounted ==
    ASSUME NEW A, IsFiniteSet(A), NEW K, NEW h,
           \A r \in K : h[r] \in A,
           \A r, q \in K : h[r] = h[q] => r = q
    PROVE  IsFiniteSet(K) /\ Cardinality(K) <= Cardinality(A)
<1> DEFINE f == [r \in K |-> h[r]]
<1>1. f \in Injection(K, A)
  BY DEF Injection, IsInjective
<1> HIDE DEF f
<1> QED BY <1>1, FS_Injection

\* Sets of runs and of callers are finite.
LEMMA RunsAndCallersCounted ==
    /\ \A S \in SUBSET Run : IsFiniteSet(S) /\ Cardinality(S) \in Nat
    /\ \A S \in SUBSET Caller :
          /\ IsFiniteSet(S) /\ Cardinality(S) \in Nat
          /\ Cardinality(S) <= Cardinality(Caller)
    /\ Cardinality(Caller) \in Nat
<1>1. IsFiniteSet(Run) /\ IsFiniteSet(Caller)
  BY PoolAssumption
<1>2. ASSUME NEW S \in SUBSET Run PROVE IsFiniteSet(S) /\ Cardinality(S) \in Nat
  <2>1. IsFiniteSet(S)
    BY <1>1, FS_Subset
  <2> QED BY <2>1, FS_CardinalityType
<1>3. ASSUME NEW S \in SUBSET Caller
      PROVE  /\ IsFiniteSet(S) /\ Cardinality(S) \in Nat
             /\ Cardinality(S) <= Cardinality(Caller)
  <2>1. IsFiniteSet(S) /\ Cardinality(S) <= Cardinality(Caller)
    BY <1>1, FS_Subset
  <2> QED BY <2>1, FS_CardinalityType
<1> QED BY <1>1, <1>2, <1>3, FS_CardinalityType

\* Nothing is added.
LEMMA CountShrinks ==
    ASSUME CapacityKept, Counted' \subseteq Counted, Granted' \subseteq Granted
    PROVE  CapacityKept'
<1>1. PICK A \in SUBSET Run : A = Counted
  BY DEF Counted, Live
<1>2. PICK B \in SUBSET Caller : B = Granted
  BY DEF Granted
<1>3. PICK C \in SUBSET Run : C = Counted'
  BY <1>1
<1>4. PICK D \in SUBSET Caller : D = Granted'
  BY <1>2
<1>5. Cardinality(C) <= Cardinality(A) /\ Cardinality(D) <= Cardinality(B)
  BY <1>1, <1>2, <1>3, <1>4, RunsAndCallersCounted, FS_Subset
<1>6. /\ Cardinality(A) \in Nat /\ Cardinality(B) \in Nat /\ Cardinality(C) \in Nat
      /\ Cardinality(D) \in Nat /\ Cardinality(Caller) \in Nat /\ Capacity \in Nat
  BY RunsAndCallersCounted, PoolAssumption
<1>7. Cardinality(A) + Cardinality(B) <= Capacity + Cardinality(Caller) - 1
  BY <1>1, <1>2 DEF CapacityKept
<1>8. Cardinality(C) + Cardinality(D) <= Capacity + Cardinality(Caller) - 1
  BY <1>5, <1>6, <1>7
<1> QED BY <1>3, <1>4, <1>8 DEF CapacityKept

\* A lease becomes a run.
LEMMA CountTurns ==
    ASSUME CapacityKept, NEW r \in Run, NEW c \in Granted,
           Counted' \subseteq Counted \cup {r}, Granted' \subseteq Granted \ {c}
    PROVE  CapacityKept'
<1>1. PICK A \in SUBSET Run : A = Counted
  BY DEF Counted, Live
<1>2. PICK B \in SUBSET Caller : B = Granted
  BY DEF Granted
<1>3. PICK C \in SUBSET Run : C = Counted'
  BY <1>1
<1>4. PICK D \in SUBSET Caller : D = Granted'
  BY <1>2
<1>5. Cardinality(C) <= Cardinality(A) + 1
  <2>1. IsFiniteSet(A) /\ IsFiniteSet(A \cup {r}) /\ Cardinality(A) \in Nat
    BY RunsAndCallersCounted
  <2>2. Cardinality(C) <= Cardinality(A \cup {r})
    BY <1>1, <1>3, <2>1, FS_Subset
  <2>3. Cardinality(A \cup {r}) <= Cardinality(A) + 1
    BY <2>1, FS_AddElement
  <2> QED BY <2>1, <2>2, <2>3, RunsAndCallersCounted
<1>6. Cardinality(D) + 1 <= Cardinality(B)
  <2>1. IsFiniteSet(B) /\ Cardinality(B) \in Nat /\ c \in B
    BY <1>2, RunsAndCallersCounted
  <2>2. IsFiniteSet(B \ {c}) /\ Cardinality(B \ {c}) = Cardinality(B) - 1
    BY <2>1, FS_RemoveElement
  <2>3. Cardinality(D) <= Cardinality(B \ {c})
    BY <1>2, <1>4, <2>2, FS_Subset
  <2> QED BY <2>1, <2>2, <2>3, RunsAndCallersCounted
<1>7. /\ Cardinality(A) \in Nat /\ Cardinality(B) \in Nat /\ Cardinality(C) \in Nat
      /\ Cardinality(D) \in Nat /\ Cardinality(Caller) \in Nat /\ Capacity \in Nat
  BY RunsAndCallersCounted, PoolAssumption
<1>8. Cardinality(A) + Cardinality(B) <= Capacity + Cardinality(Caller) - 1
  BY <1>1, <1>2 DEF CapacityKept
<1>9. Cardinality(C) + Cardinality(D) <= Capacity + Cardinality(Caller) - 1
  BY <1>5, <1>6, <1>7, <1>8
<1> QED BY <1>3, <1>4, <1>9 DEF CapacityKept

\* A lease is granted: the active entries, which the known runs have, are fewer
\* than the capacity, and no caller has both a run in flight and a lease.
LEMMA CountGrants ==
    ASSUME \A r \in Known' : home'[r] \in Session /\ Holds(registry, r)',
           ~Full(registry'), Counted' \subseteq Run
    PROVE  CapacityKept'
<1>1. PICK A : A = In(registry', "active")
  OBVIOUS
<1>2. IsFiniteSet(A) /\ Cardinality(A) \in Nat /\ Cardinality(A) < Capacity
  <2>1. IsFiniteSet(A)
    BY <1>1, PoolAssumption, FS_Subset DEF In, Listed
  <2>2. ~(Cardinality(A) >= Capacity)
    BY <1>1 DEF Full
  <2> QED BY <2>1, <2>2, FS_CardinalityType, PoolAssumption
<1>3. PICK K : K = Known'
  OBVIOUS
<1>4. PICK h : h = home'
  OBVIOUS
<1>5. \A r \in K : h[r] \in A
  BY <1>1, <1>3, <1>4 DEF Holds, In, Listed
<1>6. \A r, q \in K : h[r] = h[q] => r = q
  BY <1>3, <1>4 DEF Holds
<1>7. IsFiniteSet(K) /\ Cardinality(K) <= Cardinality(A)
  BY <1>2, <1>5, <1>6, MappedCounted
<1>8. PICK W \in SUBSET Caller : W = {d \in Caller : pc'[d] = "spawned"}
  OBVIOUS
<1>9. PICK m : m = mine'
  OBVIOUS
<1>10. PICK F : F = {m[d] : d \in W}
  OBVIOUS
<1>11. IsFiniteSet(F) /\ Cardinality(F) <= Cardinality(W)
  BY <1>10, RunsAndCallersCounted, ImageCounted
<1>12. InFlight' = F
  BY <1>8, <1>9, <1>10 DEF InFlight
<1>13. PICK C \in SUBSET Run : C = Counted'
  OBVIOUS
<1>14. C \subseteq K \cup F
  BY <1>3, <1>12, <1>13 DEF Counted, Known
<1>15. Cardinality(C) <= Cardinality(K) + Cardinality(F)
  <2>1. /\ IsFiniteSet(K \cup F)
        /\ Cardinality(K \cup F) = Cardinality(K) + Cardinality(F) - Cardinality(K \cap F)
    BY <1>7, <1>11, FS_Union
  <2>2. Cardinality(C) <= Cardinality(K \cup F)
    BY <1>14, <2>1, FS_Subset
  <2>3. IsFiniteSet(K \cap F)
    BY <1>7, FS_Subset
  <2>4. Cardinality(K \cap F) \in Nat /\ Cardinality(K) \in Nat /\ Cardinality(F) \in Nat
    BY <1>7, <1>11, <2>3, FS_CardinalityType
  <2> QED BY <2>1, <2>2, <2>4, RunsAndCallersCounted
<1>16. PICK D \in SUBSET Caller : D = Granted'
  BY DEF Granted
<1>17. Cardinality(W) + Cardinality(D) <= Cardinality(Caller)
  <2>1. W \cap D = {}
    BY <1>8, <1>16 DEF Granted
  <2>2. IsFiniteSet(W) /\ IsFiniteSet(D) /\ W \cup D \in SUBSET Caller
    BY RunsAndCallersCounted
  <2>3. Cardinality(W \cup D) = Cardinality(W) + Cardinality(D) - Cardinality(W \cap D)
    BY <2>2, FS_Union
  <2>4. Cardinality(W \cap D) = 0
    BY <2>1, FS_EmptySet
  <2> QED BY <2>2, <2>3, <2>4, RunsAndCallersCounted
<1>18. /\ Cardinality(C) \in Nat /\ Cardinality(D) \in Nat /\ Cardinality(W) \in Nat
       /\ Cardinality(K) \in Nat /\ Cardinality(F) \in Nat
       /\ Cardinality(Caller) \in Nat /\ Capacity \in Nat
  BY <1>7, <1>11, RunsAndCallersCounted, FS_CardinalityType, PoolAssumption
<1>19. Cardinality(C) + Cardinality(D) <= Capacity + Cardinality(Caller) - 1
  BY <1>2, <1>7, <1>11, <1>15, <1>17, <1>18
<1> QED BY <1>13, <1>16, <1>19 DEF CapacityKept

\* The steps that grant nothing and start nothing.
LEMMA CountOfCallers ==
    ASSUME CallsTyped, WorldTyped, HistoryTyped, CapacityKept, NEW c \in Caller,
           CallersWait(c), runs' = runs, seeming' = seeming, untracked \subseteq untracked',
           pc'[c] # "leased" \/ c \in reused',
           reused \ {c} \subseteq reused'
    PROVE  CapacityKept'
<1>1. Caller \cap Run = {}
  BY PoolAssumption
<1>2. Counted' \subseteq Counted
  BY <1>1 DEF Counted, Live
<1>3. Granted' \subseteq Granted
  BY DEF Granted, CallersWait
<1> QED BY <1>2, <1>3, CountShrinks

LEMMA PruneStepCount ==
    ASSUME CallsTyped, WorldTyped, HistoryTyped, Tracks, CapacityKept, NEW c \in Caller,
           NEW said \in Words(snap[c]), PruneStep(c, said)
    PROVE  CapacityKept'
<1>1. /\ CallersWait(c) /\ runs' = runs /\ home' = home /\ seeming' = seeming
      /\ \A r \in Known' : Holds(registry, r)'
  BY PruneStepTracks
<1>2. untracked \subseteq untracked'
  BY DEF PruneStep, List, Refuse, Lease, Retire, WriteBack, LoseSightOf
<1>3. \/ pc'[c] # "leased" /\ reused' = reused
      \/ c \in reused' /\ reused \subseteq reused'
      \/ ~Full(registry')
  <2>1. ASSUME Leave(c) PROVE pc'[c] = "idle"
    BY <2>1, LeaveWaits
  <2>2. ASSUME NEW statuses, Retire(c, statuses)
        PROVE  pc'[c] = "retiring" /\ reused' = reused
    BY <2>2 DEF Retire, CallsTyped
  <2> QED BY <2>1, <2>2 DEF PruneStep, List, Refuse, Lease
<1>4. CASE pc'[c] # "leased" /\ reused' = reused
  BY <1>1, <1>2, <1>4, CountOfCallers
<1>5. CASE c \in reused' /\ reused \subseteq reused'
  BY <1>1, <1>2, <1>5, CountOfCallers
<1>6. CASE ~Full(registry')
  <2>1. \A r \in Known' : home'[r] \in Session
    BY <1>1 DEF Known, Live, WorldTyped
  <2>2. Counted' \subseteq Run
    BY DEF Counted, Live
  <2> QED BY <1>1, <1>6, <2>1, <2>2, CountGrants
<1> QED BY <1>3, <1>4, <1>5, <1>6

LEMMA SpawnCount ==
    ASSUME CallsTyped, WorldTyped, HistoryTyped, Tracks, CapacityKept, NEW c \in Caller,
           Spawn(c)
    PROVE  CapacityKept'
<1>1. CallersWait(c) /\ pc[c] = "leased" /\ pc'[c] = "spawned" /\ untracked' = untracked
      /\ seeming' = seeming
  BY SpawnTracks DEF Spawn
<1>2. PICK r \in Run :
          /\ runs' = [runs EXCEPT ![r] = "live"]
          /\ reused' = IF c \in reused THEN (reused \ {c}) \cup {r} ELSE reused
  BY DEF Spawn, Unstarted
<1>3. Live' \subseteq Live \cup {r} /\ c \notin Run
  BY <1>2, PoolAssumption DEF Live, WorldTyped
<1>4. CASE c \in reused
  <2>1. Counted' \subseteq Counted
    BY <1>1, <1>2, <1>3, <1>4 DEF Counted, Live
  <2>2. Granted' \subseteq Granted
    BY <1>1, <1>2, <1>4 DEF Granted, CallersWait
  <2> QED BY <2>1, <2>2, CountShrinks
<1>5. CASE c \notin reused
  <2>1. Counted' \subseteq Counted \cup {r}
    BY <1>1, <1>2, <1>3, <1>5 DEF Counted
  <2>2. c \in Granted /\ Granted' \subseteq Granted \ {c}
    BY <1>1, <1>2, <1>5 DEF Granted, CallersWait
  <2> QED BY <2>1, <2>2, CountTurns
<1> QED BY <1>4, <1>5

\* The steps that end runs: runs are not callers, so no lease is forgotten.
LEMMA EndingCount ==
    ASSUME CapacityKept, HistoryTyped, ForgetOver, Live' \subseteq Live,
           \A r \in Live' : runs'[r] = "live", pc' = pc
    PROVE  CapacityKept'
<1>1. Counted' \subseteq Counted
  BY DEF Counted, ForgetOver, Forget
<1>2. Granted' \subseteq Granted
  BY PoolAssumption DEF Granted, ForgetOver, Forget
<1> QED BY <1>1, <1>2, CountShrinks

LEMMA PoolNextCount ==
    ASSUME CallsTyped, WorldTyped, HistoryTyped, Tracks, CapacityKept, PoolNext
    PROVE  CapacityKept'
<1>1. ASSUME NEW c \in Caller, ReadRegistry(c) PROVE CapacityKept'
  <2>1. CallersWait(c) /\ pc'[c] = "pruning"
    BY <1>1, ReadTracks
  <2> QED BY <1>1, <2>1, CountOfCallers DEF ReadRegistry
<1>2. ASSUME NEW c \in Caller, NEW said \in Words(snap[c]), PruneStep(c, said) PROVE CapacityKept'
  BY <1>2, PruneStepCount
<1>3. ASSUME NEW c \in Caller, Spawn(c) PROVE CapacityKept'
  BY <1>3, SpawnCount
<1>4. ASSUME NEW c \in Caller, RecordSession(c) \/ RecordRun(c) PROVE CapacityKept'
  <2>1. CallersWait(c) /\ pc'[c] # "leased"
    BY <1>4, RecordTracks
  <2> QED BY <1>4, <2>1, CountOfCallers DEF RecordSession, RecordRun, LoseSightOf
<1>5. ASSUME NEW c \in Caller, LaunchFails(c) \/ RetireDone(c) PROVE CapacityKept'
  <2>1. CallersWait(c) /\ pc'[c] # "leased"
    BY <1>5, LeavingTracks
  <2>2. /\ runs' = runs /\ seeming' = seeming /\ untracked \subseteq untracked'
        /\ reused \ {c} \subseteq reused'
    BY <1>5 DEF LaunchFails, RetireDone, LoseSightOf
  <2> QED BY <2>1, <2>2, CountOfCallers
<1>6. ASSUME NEW c \in Caller, WriteKept(c) PROVE CapacityKept'
  <2>1. CallersWait(c) /\ pc'[c] # "leased"
    BY <1>6, WriteKeptTracks
  <2> QED BY <1>6, <2>1, CountOfCallers DEF WriteKept, LoseSightOf
<1>7. ASSUME NEW c \in Caller, NEW s \in Session, DeleteSession(c, s) PROVE CapacityKept'
  <2>1. Live' \subseteq Live /\ \A r \in Live' : runs'[r] = "live"
    BY <1>7 DEF DeleteSession, WorldTyped, Live
  <2> QED BY <1>7, <2>1, EndingCount DEF DeleteSession
<1>8. ASSUME NEW r \in Run, RunEnds(r) PROVE CapacityKept'
  <2>1. Live' \subseteq Live /\ \A x \in Live' : runs'[x] = "live"
    BY <1>8 DEF RunEnds, WorldTyped, Live
  <2> QED BY <1>8, <2>1, EndingCount DEF RunEnds, callVars
<1>9. ASSUME NEW r \in Run, SeemsOver(r) PROVE CapacityKept'
  <2>1. Counted' \subseteq Counted
    BY <1>9 DEF SeemsOver, Forget, Counted, Live
  <2>2. Granted' \subseteq Granted
    BY <1>9, PoolAssumption DEF SeemsOver, Forget, callVars, Granted
  <2> QED BY <2>1, <2>2, CountShrinks
<1>10. ASSUME NEW s \in Session, Ages(s) PROVE CapacityKept'
  BY <1>10, CountShrinks DEF Ages, callVars, Counted, Granted, Live
<1> QED BY <1>1, <1>2, <1>3, <1>4, <1>5, <1>6, <1>7, <1>8, <1>9, <1>10 DEF PoolNext, CallerStep

-----------------------------------------------------------------------------
\* The invariant.

LEMMA PoolInvParts ==
    ASSUME PoolInv
    PROVE  CallsTyped /\ WorldTyped /\ HistoryTyped /\ Tracks /\ CapacityKept
BY TypeParts DEF PoolInv, Tracks

LEMMA PoolInit_Inv == ASSUME PoolInit PROVE PoolInv
<1>1. PoolTypeOK
  BY EmptyType, PoolAssumption DEF PoolInit, PoolTypeOK, RunState
<1>2. Live = {} /\ Granted = {}
  BY DEF PoolInit, Live, Granted
<1>3. LiveRunsTracked /\ \A c \in Caller : CopyTracks(c) /\ SeatIsHome(c)
  BY <1>2 DEF PoolInit, LiveRunsTracked, CopyTracks, SeatIsHome
<1>4. Counted = {}
  BY <1>2 DEF Counted
<1>5. CapacityKept
  BY <1>2, <1>4, FS_EmptySet, RunsAndCallersCounted, PoolAssumption DEF CapacityKept
<1> QED BY <1>1, <1>3, <1>5 DEF PoolInv

LEMMA CallerStepTracks ==
    ASSUME CallsTyped, WorldTyped, HistoryTyped, Tracks, NEW c \in Caller, CallerStep(c)
    PROVE  Tracks' /\ CallersWait(c)
BY ReadTracks, PruneStepTracks, SpawnTracks, RecordTracks, LeavingTracks, WriteKeptTracks,
   DeleteTracks DEF CallerStep

LEMMA PoolStep_Inv ==
    ASSUME PoolInv, [PoolNext]_poolVars
    PROVE  PoolInv'
<1>1. CallsTyped /\ WorldTyped /\ HistoryTyped /\ Tracks /\ CapacityKept
  BY PoolInvParts
<1>2. CASE PoolNext
  <2>1. PoolTypeOK'
    BY <1>2, PoolNextTyped DEF PoolInv
  <2>2. Tracks'
    BY <1>1, <1>2, CallerStepTracks, WorldTracks DEF PoolNext
  <2>3. CapacityKept'
    BY <1>1, <1>2, PoolNextCount
  <2> QED BY <2>1, <2>2, <2>3 DEF PoolInv, Tracks
<1>3. CASE UNCHANGED poolVars
  <2>1. PoolTypeOK'
    BY <1>3 DEF PoolInv, PoolTypeOK, poolVars, callVars, Live
  <2>2. Tracks'
    BY <1>1, <1>3, WorldTracks
  <2>3. CapacityKept'
    BY <1>1, <1>3, CountShrinks DEF poolVars, callVars, Counted, Granted, Live
  <2> QED BY <2>1, <2>2, <2>3 DEF PoolInv, Tracks
<1> QED BY <1>2, <1>3

LEMMA PoolInvariant == PoolSpec => []PoolInv
BY PoolInit_Inv, PoolStep_Inv, PTL DEF PoolSpec

-----------------------------------------------------------------------------
\* The theorems.

\* Types, and what a caller holds where: from its lease on a session and a kind
\* of work, from the start on the run it has started.
THEOREM PoolTypeCorrect == PoolSpec => []PoolTypeOK
<1>1. PoolInv => PoolTypeOK
  BY DEF PoolInv
<1> QED BY <1>1, PoolInvariant, PTL

\* Once recorded, a run at work that nothing calls over has an active entry in the
\* registry, in the session it was started in, unless its entry was overwritten by a
\* pruning that had read before, displaced by a later run of the session, retired as
\* active, or given up as stale: whatever the callers do between their two accesses,
\* and whatever pruning makes of the other runs.
THEOREM LiveRunsTrackedHolds == PoolSpec => []LiveRunsTracked
<1>1. PoolInv => LiveRunsTracked
  BY DEF PoolInv
<1> QED BY <1>1, PoolInvariant, PTL

\* The capacity is exceeded by one run per further caller at most: of the runs the
\* registry can see, nothing calls over, and no reuse let in.
THEOREM CapacityOverrunBoundedHolds == PoolSpec => []CapacityOverrunBounded
<1>1. ASSUME PoolInv PROVE CapacityOverrunBounded
  <2>1. PICK A \in SUBSET Run : A = Counted
    BY DEF Counted, Live
  <2>2. PICK B \in SUBSET Caller : B = Granted
    BY DEF Granted
  <2>3. Cardinality(A) + Cardinality(B) <= Capacity + Cardinality(Caller) - 1
    BY <1>1, <2>1, <2>2 DEF PoolInv, CapacityKept
  <2>4. Cardinality(A) \in Nat /\ Cardinality(B) \in Nat /\ Cardinality(Caller) \in Nat
        /\ Capacity \in Nat
    BY RunsAndCallersCounted, PoolAssumption
  <2>5. Cardinality(A) <= Capacity + Cardinality(Caller) - 1
    BY <2>3, <2>4
  <2> QED BY <2>1, <2>5 DEF CapacityOverrunBounded, Counted
<1> QED BY <1>1, PoolInvariant, PTL

\* A caller is leased a session by its own lease only.
LEMMA LeasedByLease ==
    ASSUME PoolInv, [PoolNext]_poolVars, NEW c \in Caller,
           pc[c] = "pruning", pc'[c] = "leased"
    PROVE  \E said \in Words(snap[c]) : \E k \in Kind :
              Lease(c, k) /\ PruneStep(c, said)
<1>1. CallsTyped /\ WorldTyped /\ HistoryTyped /\ Tracks
  BY PoolInvParts
<1>2. PICK d \in Caller : CallerStep(d)
  BY <1>1, WorldTracks DEF PoolNext, poolVars, callVars
<1>3. d = c
  BY <1>1, <1>2, CallerStepTracks DEF CallersWait
<1>4. PICK said \in Words(snap[c]) : PruneStep(c, said)
  BY <1>1, <1>2, <1>3, ReadTracks, SpawnTracks, RecordTracks, LeavingTracks,
     WriteKeptTracks, DeleteTracks DEF CallerStep
<1>5. ASSUME Leave(c) PROVE FALSE
  BY <1>1, <1>5, LeaveWaits
<1>6. ASSUME NEW statuses, Retire(c, statuses) PROVE FALSE
  BY <1>1, <1>6 DEF Retire, CallsTyped
<1>7. ~ List(c) /\ \A k \in Kind : ~ Refuse(c, k)
  BY <1>5 DEF List, Refuse
<1>8. PICK k \in Kind : Lease(c, k)
  BY <1>4, <1>6, <1>7 DEF PruneStep
<1> QED BY <1>4, <1>8

\* A session is leased as idle while one of its runs is at work only when that run is
\* not recorded yet, was lost sight of, or something says that it is over.
THEOREM ReusesIdleHolds == PoolSpec => ReusesIdle
<1>1. ASSUME PoolInv, [PoolNext]_poolVars, NEW c \in Caller,
             pc[c] = "pruning", pc'[c] = "leased", c \in reused',
             NEW r \in Live, home[r] = seat'[c],
             r \notin InFlight \cup untracked' \cup seeming
      PROVE  FALSE
  <2>1. PICK said \in Words(snap[c]) : \E k \in Kind :
           Lease(c, k) /\ PruneStep(c, said)
    BY <1>1, LeasedByLease
  <2>2. PICK k \in Kind : Lease(c, k) /\ PruneStep(c, said)
    BY <2>1
  <2>3. seat'[c] \in Reusable(registry', k)
    <3>1. \E t \in Reusable(registry', k) : seat' = [seat EXCEPT ![c] = t]
      BY <1>1, <2>2 DEF Lease
    <3> QED BY <1>1, <3>1, PoolInvParts DEF CallsTyped
  <2>4. /\ runs' = runs /\ home' = home /\ seeming' = seeming /\ InFlight' = InFlight
        /\ \A x \in Known' : Holds(registry, x)'
    BY <1>1, <2>2, PoolInvParts, PruneStepTracks
  <2>5. r \in Known'
    BY <1>1, <2>4 DEF Known, Live
  <2>6. registry'[seat'[c]].status = "active"
    BY <1>1, <2>4, <2>5 DEF Holds
  <2> QED BY <2>3, <2>6 DEF Reusable, In
<1>2. PoolInv /\ [PoolNext]_poolVars =>
        [\A c \in Caller :
            pc[c] = "pruning" /\ pc'[c] = "leased" /\ c \in reused' =>
                \A r \in Live : home[r] = seat'[c]
                                   => r \in InFlight \cup untracked' \cup seeming
        ]_poolVars
  BY <1>1
<1> QED BY <1>2, PoolInvariant, PTL DEF PoolSpec, ReusesIdle

\* Deleting retired sessions takes the session from under a run at work only when the
\* run came into it after its entry was read, was lost sight of (as one is that is
\* retired as active), or something says that it is over.
THEOREM DeletesOnlyRetiredHolds == PoolSpec => DeletesOnlyRetired
<1>1. ASSUME PoolInv, NEW c \in Caller, pc[c] = "deleting",
             NEW r \in Live, home[r] \in left[c]
      PROVE  r \in InFlight \cup untracked \cup missed[c] \cup seeming
  BY <1>1 DEF PoolInv, CopyTracks, Known
<1>2. PoolInv /\ [PoolNext]_poolVars =>
        [\A c \in Caller, s \in Session :
            pc[c] = "deleting" /\ s \in left[c] \ left'[c] /\ pc'[c] = "deleting" =>
                \A r \in Live : home[r] = s
                                   => r \in InFlight \cup untracked \cup missed[c] \cup seeming
        ]_poolVars
  BY <1>1
<1> QED BY <1>2, PoolInvariant, PTL DEF PoolSpec, DeletesOnlyRetired

=============================================================================
