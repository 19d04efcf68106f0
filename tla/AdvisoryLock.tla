------------------------------ MODULE AdvisoryLock ------------------------------
(***************************************************************************)
(* The directory lock of workflow-guard-core/fs.ts (withAdvisoryLock and    *)
(* maybeRecoverStaleAdvisoryLock), taken by contenders that each update one *)
(* shared JSON file: read it, change it, replace it.                        *)
(*                                                                          *)
(* Every file-system call of the protocol is a step of its own, because     *)
(* every one of them is awaited and other processes run in between: mkdir,  *)
(* the metadata write, the read of another's metadata, the stat, the rm.    *)
(* A contender stands for a task in an operating-system process of its own; *)
(* a crash kills that process and leaves the directory behind.              *)
(***************************************************************************)
EXTENDS Naturals, FiniteSets

CONSTANTS Proc,         \* the contenders
          None,         \* no process
          StaleEnabled, \* does the caller pass staleMs (handoff store) or not (task graph)?
          MaxTasks,     \* bound: tasks each contender runs under the lock
          MaxTries,     \* bound: waits that fit in timeoutMs
          MaxCrashes    \* bound: processes that die

ASSUME LockAssumption ==
    /\ None \notin Proc
    /\ StaleEnabled \in BOOLEAN
    /\ MaxTasks \in Nat
    /\ MaxTries \in Nat
    /\ MaxCrashes \in Nat

VARIABLES
    pc,       \* where each contender is in withAdvisoryLock
    tries,    \* waits made in the current attempt
    runs,     \* tasks each contender has started
    dir,      \* the lock directory
    file,     \* the entries of the shared JSON file
    local,    \* what each contender has read of it
    written,  \* history: every entry a contender has written
    crashes   \* processes that died so far

vars == <<pc, tries, runs, dir, file, local, written, crashes>>

Control == {"idle", "mkdir", "meta", "read", "write", "unlock",
            "check", "stat", "remove", "wait", "dead"}

\* The directory: who made it (history), whom owner.json names, and whether
\* it is older than staleMs.
Dir == [made: Proc \cup {None}, owner: Proc \cup {None}, aged: BOOLEAN]

NoDir == [made |-> None, owner |-> None, aged |-> FALSE]

Entry == Proc \X (0 .. MaxTasks)

InSection(p) == pc[p] \in {"read", "write"}

Goto(p, label) == pc' = [pc EXCEPT ![p] = label]

-----------------------------------------------------------------------------
Init ==
    /\ pc = [p \in Proc |-> "idle"]
    /\ tries = [p \in Proc |-> 0]
    /\ runs = [p \in Proc |-> 0]
    /\ dir = NoDir
    /\ file = {}
    /\ local = [p \in Proc |-> {}]
    /\ written = {}
    /\ crashes = 0

\* A caller enters withAdvisoryLock.
Enter(p) ==
    /\ pc[p] = "idle"
    /\ runs[p] < MaxTasks
    /\ runs' = [runs EXCEPT ![p] = @ + 1]
    /\ tries' = [tries EXCEPT ![p] = 0]
    /\ Goto(p, "mkdir")
    /\ UNCHANGED <<dir, file, local, written, crashes>>

\* Mutant: the lock's mkdir made recursive, which succeeds on an existing path.
MkdirSucceedsRecursive == TRUE

\* mkdir without { recursive: true } fails on an existing path.
MkdirSucceeds == dir = NoDir

\* mkdir, not recursive: it makes the directory or fails with EEXIST.
Mkdir(p) ==
    /\ pc[p] = "mkdir"
    /\ \/ /\ MkdirSucceeds
          /\ dir' = [NoDir EXCEPT !.made = p]
          /\ Goto(p, "meta")
       \/ /\ ~MkdirSucceeds
          /\ Goto(p, "check")
          /\ UNCHANGED dir
    /\ UNCHANGED <<tries, runs, file, local, written, crashes>>

\* owner.json is written into whatever directory is at the path now; a failed
\* write is swallowed.
WriteMetadata(p) ==
    /\ pc[p] = "meta"
    /\ \/ UNCHANGED dir
       \/ dir # NoDir /\ dir' = [dir EXCEPT !.owner = p]
    /\ Goto(p, "read")
    /\ UNCHANGED <<tries, runs, file, local, written, crashes>>

\* The task reads the file ...
TaskRead(p) ==
    /\ pc[p] = "read"
    /\ local' = [local EXCEPT ![p] = file]
    /\ Goto(p, "write")
    /\ UNCHANGED <<tries, runs, dir, file, written, crashes>>

\* ... and replaces it by what it read plus its own entry (the rename of
\* writeJsonAtomicEnsured is the instant at which the file changes).
TaskWrite(p) ==
    /\ pc[p] = "write"
    /\ file' = local[p] \cup {<<p, runs[p]>>}
    /\ written' = written \cup {<<p, runs[p]>>}
    /\ Goto(p, "unlock")
    /\ UNCHANGED <<tries, runs, dir, local, crashes>>

\* The finally block: rm -rf of the path, whoever made the directory there.
Unlock(p) ==
    /\ pc[p] = "unlock"
    /\ dir' = NoDir
    /\ Goto(p, "idle")
    /\ UNCHANGED <<tries, runs, file, local, written, crashes>>

OwnerDead == dir.owner # None /\ pc[dir.owner] = "dead"

\* Mutants of Verdict: a directory without metadata is taken for an orphan;
\* the process that owner.json names is never probed.
VerdictEager == IF OwnerDead \/ dir.owner = None THEN "remove" ELSE "wait"
VerdictBlind == IF StaleEnabled /\ dir.owner = None THEN "stat" ELSE "wait"

\* A dead owner's directory is to be removed, a live owner's is respected;
\* without metadata the directory's age decides, if the caller gave a staleMs.
Verdict ==
    IF OwnerDead THEN "remove"
    ELSE IF StaleEnabled /\ dir.owner = None THEN "stat"
    ELSE "wait"

\* EEXIST: read owner.json and probe the process it names.
CheckOwner(p) ==
    /\ pc[p] = "check"
    /\ Goto(p, Verdict)
    /\ UNCHANGED <<tries, runs, dir, file, local, written, crashes>>

\* The age of the directory at the path now, which need not be the one whose
\* metadata was missing; a path that is gone counts as not recovered.
StatAge(p) ==
    /\ pc[p] = "stat"
    /\ Goto(p, IF dir.aged THEN "remove" ELSE "wait")
    /\ UNCHANGED <<tries, runs, dir, file, local, written, crashes>>

\* Mutant: the rm misses the directory and the loop goes on as if recovered.
RecoveredDirMissed == dir

\* fs.rm, recursive and forced: whatever is at the path is gone.
RecoveredDir == NoDir

\* rm -rf of the path, then back to mkdir at once: the timeout is not looked at.
RemoveStale(p) ==
    /\ pc[p] = "remove"
    /\ dir' = RecoveredDir
    /\ Goto(p, "mkdir")
    /\ UNCHANGED <<tries, runs, file, local, written, crashes>>

\* Mutant: no timeout bounds the waits of an attempt.
MayRetryAlways(p) == TRUE

\* Another retry fits in timeoutMs.
MayRetry(p) == tries[p] < MaxTries

\* Not recovered: throw once timeoutMs has passed, else sleep and retry.
WaitOrTimeout(p) ==
    /\ pc[p] = "wait"
    /\ \/ Goto(p, "idle") /\ UNCHANGED tries
       \/ /\ MayRetry(p)
          /\ tries' = [tries EXCEPT ![p] = @ + 1]
          /\ Goto(p, "mkdir")
    /\ UNCHANGED <<runs, dir, file, local, written, crashes>>

\* A directory nobody alive made grows older than staleMs. Tasks are taken to
\* be far shorter than staleMs (5 minutes against a 60 s lock timeout).
Age ==
    /\ dir # NoDir
    /\ ~dir.aged
    /\ pc[dir.made] = "dead"
    /\ dir' = [dir EXCEPT !.aged = TRUE]
    /\ UNCHANGED <<pc, tries, runs, file, local, written, crashes>>

\* The process dies, wherever it is in the protocol.
Crash(p) ==
    /\ crashes < MaxCrashes
    /\ pc[p] \notin {"idle", "dead"}
    /\ Goto(p, "dead")
    /\ crashes' = crashes + 1
    /\ UNCHANGED <<tries, runs, dir, file, local, written>>

\* Every step of withAdvisoryLock once it has been entered.
Step(p) ==
    \/ Mkdir(p) \/ WriteMetadata(p)
    \/ TaskRead(p) \/ TaskWrite(p) \/ Unlock(p)
    \/ CheckOwner(p) \/ StatAge(p) \/ RemoveStale(p) \/ WaitOrTimeout(p)

Next ==
    \/ \E p \in Proc : Enter(p) \/ Step(p) \/ Crash(p)
    \/ Age

Spec == Init /\ [][Next]_vars

\* A process that is alive keeps running its event loop, and time passes;
\* nobody is obliged to ask for the lock, and nobody to crash.
FairSpec == Spec /\ (\A p \in Proc : WF_vars(Step(p))) /\ WF_vars(Age)

-----------------------------------------------------------------------------
\* The type invariant of the lock protocol's state (fs.ts).
TypeOK ==
    /\ pc \in [Proc -> Control]
    /\ tries \in [Proc -> 0 .. MaxTries]
    /\ runs \in [Proc -> 0 .. MaxTasks]
    /\ dir \in Dir
    /\ file \in SUBSET Entry
    /\ local \in [Proc -> SUBSET Entry]
    /\ written \in SUBSET Entry
    /\ crashes \in 0 .. MaxCrashes

\* Two live contenders are never inside the task at once: what every store of
\* the system takes the lock for (fs.ts, withAdvisoryLock).
MutualExclusion ==
    \A p, q \in Proc : InSection(p) /\ InSection(q) => p = q

\* No update is lost: whatever a task wrote is still in the file, however the
\* reads and writes of the others fell (the hazard fs.ts names in its header).
NoLostUpdate == written \subseteq file

\* owner.json never names a process other than the one that made the
\* directory: the recovery kills or spares the lock on its word.
MetadataNamesHolder == dir.owner \in {None, dir.made}

\* A directory whose owner.json names a dead process, once a live waiter looks
\* at it, is got out of the way unless that waiter dies too: a crash does not
\* stop the stores for good.
AbandonedLockRecovered ==
    \A p \in Proc :
        (pc[p] = "check" /\ dir.owner # None /\ pc[dir.owner] = "dead")
            ~> (dir.owner = None \/ pc[dir.owner] # "dead" \/ pc[p] = "dead")

\* Every attempt ends: the caller gets its turn, or the timeout error, or its
\* process dies; the retry loop of withAdvisoryLock never spins for ever.
EveryAttemptEnds ==
    \A p \in Proc :
        pc[p] = "mkdir" ~> (pc[p] \in {"meta", "idle", "dead"})
=============================================================================
