---------------------------- MODULE HandoffActivation ----------------------------
(***************************************************************************)
(* The switch of the project's owner: a handoff's target claims the intent, *)
(* makes itself the owner in PROJECT_MANIFEST.json and activates the intent *)
(* (claimAndActivateWorkflowHandoffForAgent and the manifest helpers in     *)
(* tools/workflow-handoff/handoff-activation.ts), beside the requesters     *)
(* that announce handoffs in the manifest and the stage preflight that      *)
(* takes finished ones out of it.                                           *)
(*                                                                          *)
(* The manifest is a plain file: nobody locks it, everybody reads it, works *)
(* on a copy and writes the copy back with fs.writeFile, which truncates    *)
(* the file before it fills it. Of its content this module keeps the owner, *)
(* the pending handoff (with it go the pending owner and stage candidates,  *)
(* which are always written together) and whether the rest is intact.       *)
(***************************************************************************)
EXTENDS HandoffStore

CONSTANTS Requester,      \* ticks that request handoffs
          Preflight,      \* running stage preflights
          Role,           \* workflow roles
          RoleOf,         \* the role each session acts in
          TargetOf,       \* toRole of a key's intents
          FirstOwner,     \* the owner when the project starts
          Nobody,         \* owner_agent is missing
          Torn,           \* what a file reads as that is truncated or garbled
          ExternalStatus, \* the statuses the components not modelled here ask for
          MaxCrashes      \* bound: processes that die in the middle of a call

ASSUME ActivationAssumption ==
    /\ RoleOf \in [Session -> Role]
    /\ TargetOf \in [Key -> Role]
    /\ FirstOwner \in Role
    /\ Nobody \notin Role
    /\ ExternalStatus \subseteq Status \ {"claimed", "activated"}
    /\ MaxCrashes \in Nat

VARIABLES
    file,        \* PROJECT_MANIFEST.json
    place,       \* where each process is
    copy,        \* the manifest as the process last read it or will write it
    picked,      \* the intent it works on, 0 for none
    want,        \* the status its claim will ask for
    jobs,        \* what it still has to do to the manifest and the store
    claimedOnce, \* history: the intents that have been claimed
    switched,    \* history: the intents whose owner switch has been written
    crashes      \* processes that died so far

procVars == <<place, copy, picked, want, jobs>>
historyVars == <<claimedOnce, switched>>
activationVars == <<storeVars, file, procVars, historyVars, crashes>>

Proc == Session \cup Requester \cup Preflight

Place == {"idle", "looked", "picked", "found", "claimed", "work", "open", "write"}

Job == {"sync", "block", "switch", "clear", "activate"}

Manifest == [owner: Role \cup {Nobody}, pending: 0 .. MaxIntents, intact: BOOLEAN]

\* What readManifest makes of a file it cannot parse: the empty object.
Blank == [owner |-> Nobody, pending |-> 0, intact |-> FALSE]

ReadFile == IF file = Torn THEN Blank ELSE file

ToRole(i) == TargetOf[intents[i].key]

\* CLAIMABLE_HANDOFF_STATUSES.
ClaimableStatus == {"prepared", "pending", "queued", "dispatching", "dispatched",
                    "delivered", "acknowledged", "stale_claim"}

\* selectClaimableIntentForRole: an intent of the role that is claimable, or
\* claimed by this very session. The supervising role may claim for any other.
Claimable(s, i) ==
    /\ RoleOf[s] \in {ToRole(i), "researcher"}
    /\ \/ StatusOf(i) \in ClaimableStatus
       \/ StatusOf(i) = "claimed" /\ intents[i].session = s

\* Mutant: the intent is activated before the manifest is written.
ContinuationActivateFirst(eligible, allowed) ==
    IF ~eligible THEN <<"sync">>
    ELSE IF ~allowed THEN <<"sync", "block", "sync">>
    ELSE <<"activate", "switch">>

\* What follows a claim: an ineligible handoff is announced in the manifest
\* again, a blocked one announced, blocked and announced, any other activated.
Continuation(eligible, allowed) ==
    IF ~eligible THEN <<"sync">>
    ELSE IF ~allowed THEN <<"sync", "block", "sync">>
    ELSE <<"switch", "activate">>

\* Mutant: an expired handoff still counts as pending.
OverUnlessExpired(status) == status \in Blocking

\* A pending handoff the preflight takes out of the manifest.
Over(status) == status \in Terminal

Goto(p, there) == place' = [place EXCEPT ![p] = there]

\* The process goes on with the given jobs, or is done.
Continue(p, rest) ==
    /\ jobs' = [jobs EXCEPT ![p] = rest]
    /\ IF rest = <<>>
       THEN /\ Goto(p, "idle")
            /\ copy' = [copy EXCEPT ![p] = Blank]
            /\ picked' = [picked EXCEPT ![p] = 0]
            /\ want' = [want EXCEPT ![p] = "claimed"]
       ELSE /\ Goto(p, "work")
            /\ UNCHANGED <<copy, picked, want>>

Finish(p) == Continue(p, <<>>)

-----------------------------------------------------------------------------
ActivationInit ==
    /\ StoreInit
    /\ file = [owner |-> FirstOwner, pending |-> 0, intact |-> TRUE]
    /\ place = [p \in Proc |-> "idle"]
    /\ copy = [p \in Proc |-> Blank]
    /\ picked = [p \in Proc |-> 0]
    /\ want = [p \in Proc |-> "claimed"]
    /\ jobs = [p \in Proc |-> <<>>]
    /\ claimedOnce = {}
    /\ switched = {}
    /\ crashes = 0

\* A call starts by reading the manifest.
Look(p) ==
    /\ p \notin Requester
    /\ place[p] = "idle"
    /\ Goto(p, "looked")
    /\ copy' = [copy EXCEPT ![p] = ReadFile]
    /\ UNCHANGED <<storeVars, file, picked, want, jobs, historyVars, crashes>>

\* It reads the store and selects the intent the tool names, or the pending one.
Pick(s, i) ==
    /\ s \in Session
    /\ place[s] = "looked"
    /\ Claimable(s, i)
    /\ Goto(s, "picked")
    /\ picked' = [picked EXCEPT ![s] = i]
    /\ UNCHANGED <<storeVars, file, copy, want, jobs, historyVars, crashes>>

\* No intent is named and the pending one, if any, cannot be claimed.
PickNothing(s) ==
    /\ s \in Session
    /\ place[s] = "looked"
    /\ copy[s].pending \notin {i \in Id : Claimable(s, i)}
    /\ Finish(s)
    /\ UNCHANGED <<storeVars, file, historyVars, crashes>>

\* claimWorkflowHandoffIntent reads the store without a lock: an intent found
\* claimed or activated is asked to stay so.
Find(s) ==
    /\ place[s] = "picked"
    /\ Goto(s, "found")
    /\ want' = [want EXCEPT ![s] =
                  IF StatusOf(picked[s]) \in {"claimed", "activated"}
                  THEN StatusOf(picked[s]) ELSE "claimed"]
    /\ UNCHANGED <<storeVars, file, copy, picked, jobs, historyVars, crashes>>

\* The claim, made or refused; the caller does not ask which.
Claim(s) ==
    /\ place[s] = "found"
    /\ Patch(picked[s], want[s], s, FALSE)
    /\ claimedOnce' = claimedOnce \cup
         ({picked[s]} \cap {i \in Id : intents'[i].status = "claimed"})
    /\ Goto(s, "claimed")
    /\ UNCHANGED <<file, copy, picked, want, jobs, switched, crashes>>

\* Is the handoff the one the manifest waits for (or does it wait for none)?
\* If so the activation hooks are asked.
Decide(s) ==
    /\ place[s] = "claimed"
    /\ \E allowed \in BOOLEAN :
         Continue(s, Continuation(copy[s].pending \in {0, picked[s]}, allowed))
    /\ UNCHANGED <<storeVars, file, historyVars, crashes>>

\* A tick requests a handoff, announces it in the manifest, has it delivered
\* (or not) and announces it again.
Request(r, k) ==
    /\ place[r] = "idle"
    /\ Upsert(k)
    /\ picked' = [picked EXCEPT ![r] = Answer(k)]
    /\ \E delivers \in BOOLEAN :
         jobs' = [jobs EXCEPT ![r] =
                    IF delivers THEN <<"sync", "sync">> ELSE <<"sync">>]
    /\ Goto(r, "work")
    /\ UNCHANGED <<file, copy, want, historyVars, crashes>>

\* The preflight reads the store: a pending handoff that is over is cleared.
Check(f) ==
    /\ f \in Preflight
    /\ place[f] = "looked"
    /\ IF copy[f].pending # 0 /\ Over(StatusOf(copy[f].pending))
       THEN /\ Goto(f, "open")
            /\ copy' = [copy EXCEPT ![f].pending = 0]
            /\ jobs' = [jobs EXCEPT ![f] = <<"clear">>]
            /\ UNCHANGED <<picked, want>>
       ELSE Finish(f)
    /\ UNCHANGED <<storeVars, file, historyVars, crashes>>

\* The manifest a job writes: the switch is made in the copy the call has held
\* since it started, the other jobs read the file again.
Drafted(p) ==
    CASE Head(jobs[p]) = "sync" -> [ReadFile EXCEPT !.pending = picked[p]]
      [] Head(jobs[p]) = "block" -> ReadFile
      [] Head(jobs[p]) = "switch" ->
           [copy[p] EXCEPT !.owner = ToRole(picked[p]), !.pending = 0]

Draft(p) ==
    /\ place[p] = "work"
    /\ Head(jobs[p]) # "activate"
    /\ copy' = [copy EXCEPT ![p] = Drafted(p)]
    /\ Goto(p, "open")
    /\ UNCHANGED <<storeVars, file, picked, want, jobs, historyVars, crashes>>

\* fs.writeFile truncates the file ...
Open(p) ==
    /\ place[p] = "open"
    /\ file' = Torn
    /\ Goto(p, "write")
    /\ UNCHANGED <<storeVars, copy, picked, want, jobs, historyVars, crashes>>

\* ... and fills it. Over another write that landed in between, what remains of
\* the longer one may garble the file.
Write(p) ==
    /\ place[p] = "write"
    /\ file' \in {copy[p]} \cup (IF file = Torn THEN {} ELSE {Torn})
    /\ switched' = switched \cup (IF Head(jobs[p]) = "switch" THEN {picked[p]} ELSE {})
    /\ Continue(p, Tail(jobs[p]))
    /\ UNCHANGED <<storeVars, claimedOnce, crashes>>

\* activateWorkflowHandoffIntent, again whether it succeeds or not. A handoff
\* completed in the meantime is left alone.
Activate(p) ==
    /\ place[p] = "work"
    /\ Head(jobs[p]) = "activate"
    /\ Transition(picked[p], "activated")
    /\ Continue(p, Tail(jobs[p]))
    /\ UNCHANGED <<file, historyVars, crashes>>

\* The process dies where it is.
Die(p) ==
    /\ place[p] # "idle"
    /\ crashes < MaxCrashes
    /\ crashes' = crashes + 1
    /\ Finish(p)
    /\ UNCHANGED <<storeVars, file, historyVars>>

\* Deliverers, maintenance passes and the agents' other tools.
External(i) ==
    /\ \E to \in ExternalStatus : Transition(i, to)
    /\ UNCHANGED <<file, procVars, historyVars, crashes>>

\* The steps of a call that has begun.
Proceed(p) ==
    \/ \E i \in Id : Pick(p, i)
    \/ PickNothing(p) \/ Find(p) \/ Claim(p) \/ Decide(p) \/ Check(p)
    \/ Draft(p) \/ Open(p) \/ Write(p) \/ Activate(p)

ActivationNext ==
    \/ \E p \in Proc : Look(p) \/ Proceed(p) \/ Die(p)
    \/ \E r \in Requester, k \in Key : Request(r, k)
    \/ \E i \in Id : External(i)

ActivationSpec == ActivationInit /\ [][ActivationNext]_activationVars

\* A call that has begun runs to its end, and preflights keep coming: every tick
\* of the auto iterator runs one. Nobody has to request or claim anything.
FairActivationSpec ==
    /\ ActivationSpec
    /\ \A p \in Proc : WF_activationVars(Proceed(p))
    /\ \A f \in Preflight : WF_activationVars(Look(f))

-----------------------------------------------------------------------------
\* The type invariant of the activation.
ActivationTypeOK ==
    /\ StoreTypeOK
    /\ file \in Manifest \cup {Torn}
    /\ place \in [Proc -> Place]
    /\ copy \in [Proc -> Manifest]
    /\ picked \in [Proc -> 0 .. MaxIntents]
    /\ want \in [Proc -> {"claimed", "activated"}]
    /\ jobs \in [Proc -> Seq(Job)]
    /\ claimedOnce \subseteq Id
    /\ switched \subseteq Id
    /\ crashes \in 0 .. MaxCrashes

\* Write-ahead order: an intent is activated in the store only after the owner
\* switch it stands for has been written to the manifest, so that a crash in
\* between leaves a claimed intent that can be claimed again.
ActivatedOnlyAfterSwitch ==
    \A i \in Id : StatusOf(i) = "activated" => i \in switched

\* The manifest waits for intent i, and i is over.
WaitsForFinished(i) ==
    /\ i \in Id
    /\ file # Torn
    /\ file.pending = i
    /\ StatusOf(i) \in Terminal

\* A manifest that waits for a finished handoff does not do so for ever: the
\* preflight clears it, through every race with claims and announcements.
FinishedIsCleared ==
    \A i \in 1 .. MaxIntents : WaitsForFinished(i) ~> ~WaitsForFinished(i)

\* The owner changes only to the target of a handoff that has been claimed.
OwnerHasClaimed ==
    file # Torn /\ file.owner \notin {FirstOwner, Nobody} =>
        \E i \in claimedOnce : ToRole(i) = file.owner
=============================================================================
