------------------------ MODULE HandoffActivation_proofs ------------------------
(***************************************************************************)
(* The write-ahead order of the owner switch, for every number of sessions, *)
(* requesters, preflights, keys and intents: an intent is activated only    *)
(* after its switch has been written to the manifest. The argument follows  *)
(* each call from the intent it picked to the jobs it has left (CallInv).   *)
(***************************************************************************)
EXTENDS HandoffActivation, HandoffStore_proofs

\* Everything a call may still have to do.
Agenda == {<<>>, <<"sync">>, <<"sync", "sync">>, <<"sync", "block", "sync">>,
           <<"block", "sync">>, <<"switch", "activate">>, <<"activate">>, <<"clear">>}

\* A call has jobs exactly while it works on them, all but the preflight's are
\* about the intent it has picked, and it activates, or claims as activated,
\* only what has been switched.
CallInv(p) ==
    /\ jobs[p] \in Agenda
    /\ place[p] \in {"work", "open", "write"} <=> jobs[p] # <<>>
    /\ place[p] = "work" => jobs[p] # <<"clear">>
    /\ (place[p] \notin {"idle", "looked"} /\ jobs[p] # <<"clear">>) => picked[p] \in Id
    /\ place[p] \in {"idle", "looked"} => want[p] = "claimed"
    /\ place[p] \in {"picked", "found"} => p \in Session
    /\ want[p] = "activated" => picked[p] \in switched
    /\ jobs[p] = <<"activate">> => picked[p] \in switched

ActivationInv ==
    /\ ActivationTypeOK
    /\ Len(intents) <= MaxIntents
    /\ \A p \in Proc : CallInv(p)
    /\ ActivatedOnlyAfterSwitch

-----------------------------------------------------------------------------
\* What the operations of the store do, seen from a call that holds an id: ids
\* stay, with their keys, and only those in S may have become activated.
Moved(S) ==
    /\ StoreTypeOK'
    /\ Len(intents') <= MaxIntents
    /\ Id \subseteq Id'
    /\ \A i \in Id : intents'[i].key = intents[i].key
    /\ \A i \in Id' : intents'[i].status = "activated" =>
         i \in S \/ (i \in Id /\ StatusOf(i) = "activated")

LEMMA StoreStays ==
    ASSUME StoreTypeOK, Len(intents) <= MaxIntents, UNCHANGED storeVars
    PROVE  Moved({})
BY DEF storeVars, Moved, StoreTypeOK, Id, StatusOf

LEMMA EditedKeeps ==
    ASSUME StoreTypeOK, Len(intents) <= MaxIntents, NEW k, Edited(k)
    PROVE  /\ StoreTypeOK'
           /\ Len(intents') <= MaxIntents
           /\ Id' = Id
           /\ \A i \in Id : intents'[i].key = intents[i].key
<1>1. Len(intents) \in Nat /\ Id = 1 .. Len(intents) BY IdType
<1>2. Id' = Id BY <1>1, LenProperties DEF Edited, Id
<1> QED BY <1>2 DEF Edited, StoreTypeOK, Id

\* A transition moves one intent, to the status asked for or not at all.
LEMMA PatchMoves ==
    ASSUME StoreTypeOK, Len(intents) <= MaxIntents, NEW i \in Id, NEW to \in Status,
           NEW s \in Session \cup {NoSession}, NEW dup \in BOOLEAN,
           Patch(i, to, s, dup)
    PROVE  Moved(IF to = "activated" THEN {i} ELSE {})
<1>1. CASE UNCHANGED storeVars
  BY <1>1, StoreStays DEF Moved
<1>2. CASE ~UNCHANGED storeVars
  <2>1. Edited(intents[i].key) BY <1>2, PatchEdits
  <2>2. intents' = [intents EXCEPT ![i].status = to, ![i].session = s, ![i].dup = @ \/ dup]
    BY <1>2 DEF Patch, Store
  <2>3. \A n \in Id : intents[n] \in Intent BY IdType
  <2>4. \A n \in Id : intents'[n].status = IF n = i THEN to ELSE StatusOf(n)
    BY <2>2, <2>3 DEF Intent, StatusOf, Id
  <2> QED BY <2>1, <2>4, EditedKeeps DEF Moved
<1> QED BY <1>1, <1>2

LEMMA TransitionMoves ==
    ASSUME StoreTypeOK, Len(intents) <= MaxIntents, NEW i \in Id, NEW to \in Status,
           Transition(i, to)
    PROVE  Moved(IF to = "activated" THEN {i} ELSE {})
<1>1. intents[i].session \in Session \cup {NoSession} BY IdType DEF Intent
<1> QED BY <1>1, PatchMoves DEF Transition

\* A request leaves the store well formed and answers with one of its intents.
LEMMA UpsertMoves ==
    ASSUME StoreTypeOK, Len(intents) <= MaxIntents, NEW k \in Key, Upsert(k)
    PROVE  Moved({}) /\ Answer(k) \in Id'
<1>1. /\ Len(intents) \in Nat
      /\ Id = 1 .. Len(intents)
      /\ \A n \in Id : intents[n] \in Intent
  BY IdType
<1>2. \A S \in SUBSET Id : S # {} => Min(S) \in Id
  <2> TAKE S \in SUBSET Id
  <2>1. S \in SUBSET Nat BY <1>1
  <2> QED BY <2>1, MinIsIn
<1>3. CASE UNCHANGED storeVars /\ ~Create(k)
  <2>1. BlockingFor(k) # {} \/ ActiveFor(k) # {}
    BY <1>3 DEF Upsert, ReuseTerminal, ReuseActive
  <2>2. Answer(k) \in Id
    BY <1>2, <2>1 DEF Answer, BlockingFor, ActiveFor, SameKey
  <2> QED BY <1>3, <2>2, StoreStays DEF Moved
<1>4. CASE ReuseTerminal(k)
  <2>1. Answer(k) \in Id
    BY <1>2, <1>4 DEF ReuseTerminal, Answer, BlockingFor, SameKey
  <2>2. intents' = [n \in Id |-> IF n \in ActiveFor(k)
                       THEN [intents[n] EXCEPT !.status = "superseded", !.dup = TRUE]
                       ELSE intents[n]]
    BY <1>4 DEF ReuseTerminal, Store
  <2>3. \A n \in Id : intents'[n].status \in {"superseded", StatusOf(n)}
    BY <1>1, <2>2 DEF Intent, StatusOf
  <2>4. Edited(k) \/ Grown(k) \/ UNCHANGED storeVars
    BY UpsertEditsOrGrows
  <2>5. ~Grown(k) BY <1>4 DEF ReuseTerminal, Grown, NothingToReuse
  <2>6. CASE Edited(k)
    BY <2>1, <2>3, <2>6, EditedKeeps DEF Moved
  <2>7. CASE UNCHANGED storeVars
    BY <2>1, <2>7, StoreStays DEF Moved
  <2> QED BY <2>4, <2>5, <2>6, <2>7
<1>5. CASE Create(k)
  <2>1. intents' = Append(intents, NewIntent(k)) /\ Len(intents) < MaxIntents
    BY <1>5 DEF Create, Store
  <2>2. /\ intents' \in Seq(Intent)
        /\ Len(intents') = Len(intents) + 1
        /\ intents'[Len(intents) + 1] = NewIntent(k)
        /\ \A n \in Id : intents'[n] = intents[n]
    BY <1>1, <2>1, NewIntentType, AppendProperties DEF StoreTypeOK
  <2>3. Id' = 1 .. (Len(intents) + 1)
    BY <2>2, LenProperties DEF Id
  <2>4. StoreTypeOK'
    BY <1>1, <1>5, <2>2, <2>3 DEF StoreTypeOK, Create, Store, Id
  <2>5. Answer(k) = Len(intents) + 1
    BY <1>5 DEF Create, NothingToReuse, Answer
  <2>6. \A n \in Id' : intents'[n].status = "activated"
                          => n \in Id /\ StatusOf(n) = "activated"
    BY <1>1, <2>2, <2>3 DEF NewIntent, StatusOf
  <2> QED BY <1>1, <2>1, <2>2, <2>3, <2>4, <2>5, <2>6, StoreAssumption DEF Moved
<1> QED BY <1>3, <1>4, <1>5 DEF Upsert, ReuseActive

-----------------------------------------------------------------------------
\* Agendas, taken apart.
LEMMA AgendaParts ==
    ASSUME NEW a \in Agenda
    PROVE  /\ a \in Seq(Job)
           /\ a # <<>> =>
                /\ Tail(a) \in Agenda \ {<<"clear">>}
                /\ Head(a) \in Job
                /\ Head(a) = "clear" <=> a = <<"clear">>
                /\ Head(a) = "activate" <=> a = <<"activate">>
                /\ Tail(a) = <<"activate">> <=> Head(a) = "switch"
           /\ a = <<"clear">> => Tail(a) = <<>>
<1>1. CASE a = <<>>
  BY <1>1
<1>2. CASE a = <<"sync">>
  <2>1. a \in Seq(Job) /\ Head(a) = "sync" /\ Tail(a) = <<>> BY <1>2 DEF Job
  <2> QED BY <1>2, <2>1 DEF Agenda, Job
<1>3. CASE a = <<"sync", "sync">>
  <2>1. a \in Seq(Job) /\ Head(a) = "sync" /\ Tail(a) = <<"sync">> BY <1>3 DEF Job
  <2> QED BY <1>3, <2>1 DEF Agenda, Job
<1>4. CASE a = <<"sync", "block", "sync">>
  <2>1. a \in Seq(Job) /\ Head(a) = "sync" /\ Tail(a) = <<"block", "sync">> BY <1>4 DEF Job
  <2> QED BY <1>4, <2>1 DEF Agenda, Job
<1>5. CASE a = <<"block", "sync">>
  <2>1. a \in Seq(Job) /\ Head(a) = "block" /\ Tail(a) = <<"sync">> BY <1>5 DEF Job
  <2> QED BY <1>5, <2>1 DEF Agenda, Job
<1>6. CASE a = <<"switch", "activate">>
  <2>1. a \in Seq(Job) /\ Head(a) = "switch" /\ Tail(a) = <<"activate">> BY <1>6 DEF Job
  <2> QED BY <1>6, <2>1 DEF Agenda, Job
<1>7. CASE a = <<"activate">>
  <2>1. a \in Seq(Job) /\ Head(a) = "activate" /\ Tail(a) = <<>> BY <1>7 DEF Job
  <2> QED BY <1>7, <2>1 DEF Agenda, Job
<1>8. CASE a = <<"clear">>
  <2>1. a \in Seq(Job) /\ Head(a) = "clear" /\ Tail(a) = <<>> BY <1>8 DEF Job
  <2> QED BY <1>8, <2>1 DEF Agenda, Job
<1> QED BY <1>1, <1>2, <1>3, <1>4, <1>5, <1>6, <1>7, <1>8 DEF Agenda

\* What has not changed about call q.
Same(q) == /\ place'[q] = place[q]
           /\ picked'[q] = picked[q]
           /\ want'[q] = want[q]
           /\ jobs'[q] = jobs[q]

LEMMA SameCall ==
    ASSUME NEW q \in Proc, CallInv(q), Same(q), Id \subseteq Id', switched \subseteq switched'
    PROVE  CallInv(q)'
BY DEF CallInv, Same

\* The types of what the calls hold.
CallsTypeOK ==
    /\ place \in [Proc -> Place]
    /\ copy \in [Proc -> Manifest]
    /\ picked \in [Proc -> 0 .. MaxIntents]
    /\ want \in [Proc -> {"claimed", "activated"}]
    /\ jobs \in [Proc -> Seq(Job)]

\* A step that moves the store and one call keeps the invariant of the rest.
LEMMA OneCallMoves ==
    ASSUME ActivationInv, NEW S, Moved(S), S \subseteq switched',
           switched \subseteq switched', switched' \subseteq Id',
           CallsTypeOK', file' \in Manifest \cup {Torn},
           claimedOnce' \subseteq Id', crashes' \in 0 .. MaxCrashes,
           NEW p \in Proc, CallInv(p)', \A q \in Proc : q # p => Same(q)
    PROVE  ActivationInv'
<1>1. Id \subseteq Id' BY DEF Moved
<1>2. \A q \in Proc : CallInv(q)' BY <1>1, SameCall DEF ActivationInv
<1>3. ActivationTypeOK' BY DEF Moved, CallsTypeOK, ActivationTypeOK
<1>4. Len(intents') <= MaxIntents BY DEF Moved
<1>5. ActivatedOnlyAfterSwitch'
  BY DEF ActivatedOnlyAfterSwitch, Moved, StatusOf, ActivationInv
<1> QED BY <1>2, <1>3, <1>4, <1>5 DEF ActivationInv

LEMMA BlankType == Blank \in Manifest /\ 0 \in 0 .. MaxIntents
BY StoreAssumption DEF Blank, Manifest

\* A call that goes on with rest, or is done.
LEMMA ContinueCall ==
    ASSUME CallsTypeOK, NEW p \in Proc, CallInv(p),
           NEW rest \in Agenda \ {<<"clear">>},
           rest # <<>> => picked[p] \in Id',
           rest = <<"activate">> => picked[p] \in switched',
           switched \subseteq switched', Continue(p, rest)
    PROVE  CallsTypeOK' /\ CallInv(p)' /\ \A q \in Proc : q # p => Same(q)
<1>1. rest \in Seq(Job) BY AgendaParts
<1>2. \A q \in Proc : q # p => Same(q)
  BY DEF CallsTypeOK, Continue, Goto, Same
<1>3. CASE rest = <<>>
  <2>1. CallsTypeOK' BY <1>1, <1>3, BlankType DEF CallsTypeOK, Continue, Goto, Place
  <2>2. /\ place'[p] = "idle" /\ picked'[p] = 0 /\ want'[p] = "claimed" /\ jobs'[p] = <<>>
    BY <1>3 DEF CallsTypeOK, Continue, Goto
  <2>3. CallInv(p)' BY <2>2 DEF CallInv, Agenda
  <2> QED BY <1>2, <2>1, <2>3
<1>4. CASE rest # <<>>
  <2>1. CallsTypeOK' BY <1>1, <1>4 DEF CallsTypeOK, Continue, Goto, Place
  <2>2. /\ place'[p] = "work" /\ picked'[p] = picked[p] /\ want'[p] = want[p]
        /\ jobs'[p] = rest
    BY <1>4 DEF CallsTypeOK, Continue, Goto
  <2>3. CallInv(p)' BY <1>4, <2>2 DEF CallInv
  <2> QED BY <1>2, <2>1, <2>3
<1> QED BY <1>3, <1>4

-----------------------------------------------------------------------------
\* One lemma for each action.

\* What the invariant says of one call, in the form the steps use.
LEMMA CallFacts ==
    ASSUME ActivationInv, NEW p \in Proc
    PROVE  /\ StoreTypeOK /\ Len(intents) <= MaxIntents
           /\ CallsTypeOK /\ CallInv(p)
           /\ file \in Manifest \cup {Torn}
           /\ ReadFile \in Manifest
           /\ claimedOnce \subseteq Id /\ switched \subseteq Id
           /\ crashes \in 0 .. MaxCrashes
           /\ Id \subseteq 1 .. MaxIntents
<1>1. Len(intents) \in Nat /\ Id = 1 .. Len(intents)
  BY IdType DEF ActivationInv, ActivationTypeOK
<1> QED BY <1>1, BlankType, StoreAssumption
        DEF ActivationInv, ActivationTypeOK, CallsTypeOK, ReadFile

\* Steps that leave the store alone.
LEMMA StoreKept ==
    ASSUME ActivationInv, UNCHANGED storeVars
    PROVE  Moved({}) /\ Id' = Id /\ ActivatedOnlyAfterSwitch
BY StoreStays DEF ActivationInv, ActivationTypeOK, storeVars, Id

\* Steps that move one call's place and data, but neither store nor files.
LEMMA LookKeeps ==
    ASSUME ActivationInv, NEW p \in Proc, Look(p)
    PROVE  ActivationInv'
<1>1. CallsTypeOK' BY CallFacts DEF Look, CallsTypeOK, Goto, Place
<1>2. Id' = Id /\ Moved({}) BY StoreKept DEF Look
<1>3. CallInv(p)'
  <2>1. /\ place[p] = "idle" /\ place'[p] = "looked"
        /\ picked'[p] = picked[p] /\ want'[p] = want[p] /\ jobs'[p] = jobs[p]
    BY CallFacts DEF Look, Goto, CallsTypeOK
  <2>2. jobs[p] = <<>> /\ want[p] = "claimed" BY <2>1, CallFacts DEF CallInv
  <2> QED BY <2>1, <2>2 DEF CallInv, Agenda
<1>4. \A q \in Proc : q # p => Same(q)
  BY CallFacts DEF Look, Goto, Same, CallsTypeOK
<1> QED BY <1>1, <1>2, <1>3, <1>4, CallFacts, OneCallMoves DEF Look, historyVars

LEMMA PickKeeps ==
    ASSUME ActivationInv, NEW p \in Proc, NEW i \in Id, Pick(p, i)
    PROVE  ActivationInv'
<1>1. CallsTypeOK' BY CallFacts DEF Pick, CallsTypeOK, Goto, Place
<1>2. Id' = Id /\ Moved({}) BY StoreKept DEF Pick
<1>3. CallInv(p)'
  <2>1. /\ place[p] = "looked" /\ place'[p] = "picked" /\ picked'[p] = i /\ p \in Session
        /\ want'[p] = want[p] /\ jobs'[p] = jobs[p]
    BY CallFacts DEF Pick, Goto, CallsTypeOK
  <2>2. jobs[p] = <<>> /\ want[p] = "claimed" BY <2>1, CallFacts DEF CallInv
  <2> QED BY <1>2, <2>1, <2>2 DEF CallInv, Agenda
<1>4. \A q \in Proc : q # p => Same(q)
  BY CallFacts DEF Pick, Goto, Same, CallsTypeOK
<1> QED BY <1>1, <1>2, <1>3, <1>4, CallFacts, OneCallMoves DEF Pick, historyVars

LEMMA FindKeeps ==
    ASSUME ActivationInv, NEW p \in Proc, Find(p)
    PROVE  ActivationInv'
<1>1. CallsTypeOK' BY CallFacts DEF Find, CallsTypeOK, Goto, Place
<1>2. Id' = Id /\ Moved({}) /\ ActivatedOnlyAfterSwitch BY StoreKept DEF Find
<1>3. CallInv(p)'
  <2>1. /\ place[p] = "picked" /\ place'[p] = "found" /\ picked'[p] = picked[p]
        /\ jobs'[p] = jobs[p] /\ switched' = switched
    BY CallFacts DEF Find, Goto, CallsTypeOK, historyVars
  <2>2. jobs[p] = <<>> /\ picked[p] \in Id /\ p \in Session
    BY <2>1, CallFacts DEF CallInv
  <2>3. want'[p] = "activated" => picked[p] \in switched
    BY <1>2, <2>2, CallFacts DEF Find, CallsTypeOK, ActivatedOnlyAfterSwitch
  <2> QED BY <1>2, <2>1, <2>2, <2>3 DEF CallInv, Agenda
<1>4. \A q \in Proc : q # p => Same(q)
  BY CallFacts DEF Find, Goto, Same, CallsTypeOK
<1> QED BY <1>1, <1>2, <1>3, <1>4, CallFacts, OneCallMoves DEF Find, historyVars

LEMMA DraftKeeps ==
    ASSUME ActivationInv, NEW p \in Proc, Draft(p)
    PROVE  ActivationInv'
<1>1. place[p] = "work" /\ jobs[p] \in Agenda \ {<<>>, <<"clear">>} /\ picked[p] \in Id
  BY CallFacts DEF Draft, CallInv
<1>2. Drafted(p) \in Manifest
  <2>1. Head(jobs[p]) \in {"sync", "block", "switch"}
    BY <1>1, AgendaParts DEF Draft, Job
  <2>2. ToRole(picked[p]) \in Role
    BY <1>1, CallFacts, IdType, ActivationAssumption DEF ToRole, Intent
  <2>3. picked[p] \in 0 .. MaxIntents /\ copy[p] \in Manifest /\ 0 \in 0 .. MaxIntents
    BY CallFacts, BlankType DEF CallsTypeOK
  <2> QED BY <2>1, <2>2, <2>3, CallFacts DEF Drafted, Manifest
<1>3. CallsTypeOK' BY <1>2, CallFacts DEF Draft, CallsTypeOK, Goto, Place
<1>4. Id' = Id /\ Moved({}) BY StoreKept DEF Draft
<1>5. CallInv(p)' BY <1>1, <1>4, CallFacts DEF Draft, Goto, CallInv, CallsTypeOK, historyVars
<1>6. \A q \in Proc : q # p => Same(q)
  BY CallFacts DEF Draft, Goto, Same, CallsTypeOK
<1> QED BY <1>3, <1>4, <1>5, <1>6, CallFacts, OneCallMoves DEF Draft, historyVars

LEMMA OpenKeeps ==
    ASSUME ActivationInv, NEW p \in Proc, Open(p)
    PROVE  ActivationInv'
<1>1. CallsTypeOK' BY CallFacts DEF Open, CallsTypeOK, Goto, Place
<1>2. Id' = Id /\ Moved({}) BY StoreKept DEF Open
<1>3. CallInv(p)' BY <1>2, CallFacts DEF Open, Goto, CallInv, CallsTypeOK, historyVars
<1>4. \A q \in Proc : q # p => Same(q)
  BY CallFacts DEF Open, Goto, Same, CallsTypeOK
<1> QED BY <1>1, <1>2, <1>3, <1>4, CallFacts, OneCallMoves DEF Open, historyVars

\* The preflight clears a pending handoff or has nothing to do.
LEMMA CheckKeeps ==
    ASSUME ActivationInv, NEW p \in Proc, Check(p)
    PROVE  ActivationInv'
<1>1. Id' = Id /\ Moved({}) BY StoreKept DEF Check
<1>2. place[p] = "looked" /\ jobs[p] = <<>> /\ want[p] = "claimed"
  BY CallFacts DEF Check, CallInv
<1>3. CallsTypeOK' /\ CallInv(p)' /\ \A q \in Proc : q # p => Same(q)
  <2>1. CASE jobs' = [jobs EXCEPT ![p] = <<"clear">>]
    <3>1. /\ place' = [place EXCEPT ![p] = "open"]
          /\ copy' = [copy EXCEPT ![p].pending = 0]
          /\ picked' = picked /\ want' = want
      BY <1>2, <2>1, CallFacts DEF Check, Finish, Continue, Goto, CallsTypeOK
    <3>2. CallsTypeOK'
      BY <2>1, <3>1, CallFacts, BlankType, AgendaParts DEF CallsTypeOK, Place, Manifest, Agenda
    <3>3. CallInv(p)'
      BY <1>1, <1>2, <2>1, <3>1, CallFacts DEF CallInv, CallsTypeOK, Agenda
    <3> QED BY <2>1, <3>1, <3>2, <3>3, CallFacts DEF Same, CallsTypeOK
  <2>2. CASE Finish(p)
    <3>1. CallsTypeOK' /\ \A q \in Proc : q # p => Same(q)
      BY <2>2, CallFacts, BlankType, AgendaParts
         DEF Finish, Continue, Goto, CallsTypeOK, Place, Same, Agenda
    <3>2. CallInv(p)'
      BY <2>2, CallFacts DEF Finish, Continue, Goto, CallsTypeOK, CallInv, Agenda
    <3> QED BY <3>1, <3>2
  <2> QED BY <2>1, <2>2 DEF Check
<1> QED BY <1>1, <1>3, CallFacts, OneCallMoves DEF Check, historyVars

LEMMA PickNothingKeeps ==
    ASSUME ActivationInv, NEW p \in Proc, PickNothing(p)
    PROVE  ActivationInv'
<1>1. Id' = Id /\ Moved({}) BY StoreKept DEF PickNothing
<1>2. CallsTypeOK' /\ CallInv(p)' /\ \A q \in Proc : q # p => Same(q)
  <2>1. Continue(p, <<>>) /\ switched' = switched BY DEF PickNothing, Finish, historyVars
  <2>2. <<>> \in Agenda \ {<<"clear">>} BY DEF Agenda
  <2> QED BY <2>1, <2>2, CallFacts, ContinueCall
<1> QED BY <1>1, <1>2, CallFacts, OneCallMoves DEF PickNothing, historyVars

\* A claim asks for activation only where the switch has been written.
LEMMA ClaimKeeps ==
    ASSUME ActivationInv, NEW p \in Proc, Claim(p)
    PROVE  ActivationInv'
<1>1. place[p] = "found" /\ picked[p] \in Id /\ p \in Session /\ jobs[p] = <<>>
  BY CallFacts DEF Claim, CallInv
<1>2. want[p] \in {"claimed", "activated"} BY CallFacts DEF CallsTypeOK
<1> DEFINE S == IF want[p] = "activated" THEN {picked[p]} ELSE {}
<1>3. Moved(S)
  BY <1>1, <1>2, CallFacts, PatchMoves DEF Claim, Status, Active, Blocking, Terminal
<1>4. S \subseteq switched BY CallFacts DEF CallInv
<1>5. Id \subseteq Id' BY <1>3 DEF Moved
<1>6. CallsTypeOK' BY CallFacts DEF Claim, CallsTypeOK, Goto, Place
<1>7. CallInv(p)'
  <2>1. /\ place'[p] = "claimed" /\ picked'[p] = picked[p] /\ want'[p] = want[p]
        /\ jobs'[p] = jobs[p] /\ switched' = switched
    BY CallFacts DEF Claim, Goto, CallsTypeOK
  <2> QED BY <1>1, <1>5, <2>1, CallFacts DEF CallInv, Agenda
<1>8. \A q \in Proc : q # p => Same(q)
  BY CallFacts DEF Claim, Goto, Same, CallsTypeOK
<1>9. claimedOnce' \subseteq Id' BY <1>1, <1>5, CallFacts DEF Claim
<1> HIDE DEF S
<1> QED
  BY <1>3, <1>4, <1>5, <1>6, <1>7, <1>8, <1>9, CallFacts, OneCallMoves DEF Claim

LEMMA DecideKeeps ==
    ASSUME ActivationInv, NEW p \in Proc, Decide(p)
    PROVE  ActivationInv'
<1>1. Id' = Id /\ Moved({}) BY StoreKept DEF Decide
<1>2. place[p] = "claimed" /\ picked[p] \in Id BY CallFacts DEF Decide, CallInv
<1>3. PICK allowed \in BOOLEAN :
        Continue(p, Continuation(copy[p].pending \in {0, picked[p]}, allowed))
  BY DEF Decide
<1> DEFINE rest == Continuation(copy[p].pending \in {0, picked[p]}, allowed)
<1>4. rest \in Agenda \ {<<"clear">>} /\ rest # <<"activate">>
  BY DEF Continuation, Agenda
<1>5. switched' = switched BY DEF Decide, historyVars
<1>6. CallsTypeOK' /\ CallInv(p)' /\ \A q \in Proc : q # p => Same(q)
  <2> HIDE DEF rest
  <2>1. Continue(p, rest) BY <1>3 DEF rest
  <2> QED BY <1>1, <1>2, <1>4, <1>5, <2>1, CallFacts, ContinueCall
<1> QED BY <1>1, <1>6, CallFacts, OneCallMoves DEF Decide, historyVars

\* The write of the switch is what makes way for the activation.
LEMMA WriteKeeps ==
    ASSUME ActivationInv, NEW p \in Proc, Write(p)
    PROVE  ActivationInv'
<1>1. Id' = Id /\ Moved({}) BY StoreKept DEF Write
<1>2. jobs[p] \in Agenda /\ jobs[p] # <<>>
      /\ (jobs[p] # <<"clear">> => picked[p] \in Id)
  BY CallFacts DEF Write, CallInv
<1>3. /\ Tail(jobs[p]) \in Agenda \ {<<"clear">>}
      /\ Tail(jobs[p]) = <<"activate">> <=> Head(jobs[p]) = "switch"
      /\ jobs[p] = <<"clear">> => Tail(jobs[p]) = <<>>
      /\ Head(jobs[p]) = "clear" <=> jobs[p] = <<"clear">>
  BY <1>2, AgendaParts
<1>4. /\ switched \subseteq switched' /\ switched' \subseteq Id'
      /\ Head(jobs[p]) = "switch" => picked[p] \in switched'
  BY <1>1, <1>2, <1>3, CallFacts DEF Write
<1>5. CallsTypeOK' /\ CallInv(p)' /\ \A q \in Proc : q # p => Same(q)
  <2>1. Continue(p, Tail(jobs[p])) BY DEF Write
  <2> QED BY <1>1, <1>2, <1>3, <1>4, <2>1, CallFacts, ContinueCall
<1>6. file' \in Manifest \cup {Torn} BY CallFacts DEF Write, CallsTypeOK
<1> QED BY <1>1, <1>4, <1>5, <1>6, CallFacts, OneCallMoves DEF Write

LEMMA ActivateKeeps ==
    ASSUME ActivationInv, NEW p \in Proc, Activate(p)
    PROVE  ActivationInv'
<1>1. jobs[p] \in Agenda /\ jobs[p] # <<>> BY CallFacts DEF Activate, CallInv
<1>2. jobs[p] = <<"activate">> /\ Tail(jobs[p]) = <<>>
  <2>1. jobs[p] = <<"activate">> BY <1>1, AgendaParts DEF Activate
  <2> QED BY <2>1
<1>3. picked[p] \in switched /\ picked[p] \in Id BY <1>2, CallFacts DEF CallInv
<1>4. Moved({picked[p]})
  BY <1>3, CallFacts, TransitionMoves DEF Activate, Status, Active, Blocking, Terminal
<1>5. Id \subseteq Id' BY <1>4 DEF Moved
<1>6. switched' = switched /\ claimedOnce' = claimedOnce BY DEF Activate, historyVars
<1>7. CallsTypeOK' /\ CallInv(p)' /\ \A q \in Proc : q # p => Same(q)
  <2>1. Continue(p, <<>>) BY <1>2 DEF Activate
  <2>2. <<>> \in Agenda \ {<<"clear">>} BY DEF Agenda
  <2> QED BY <1>6, <2>1, <2>2, CallFacts, ContinueCall
<1> QED BY <1>3, <1>4, <1>5, <1>6, <1>7, CallFacts, OneCallMoves DEF Activate

LEMMA RequestKeeps ==
    ASSUME ActivationInv, NEW p \in Proc, NEW k \in Key, Request(p, k)
    PROVE  ActivationInv'
<1>1. Moved({}) /\ Answer(k) \in Id' BY CallFacts, UpsertMoves DEF Request
<1>2. Id \subseteq Id' BY <1>1 DEF Moved
<1>3. Answer(k) \in 0 .. MaxIntents
  <2>1. Len(intents') \in Nat /\ Id' = 1 .. Len(intents') /\ Len(intents') <= MaxIntents
    BY <1>1, LenProperties DEF Moved, StoreTypeOK, Id
  <2> QED BY <1>1, <2>1, StoreAssumption
<1>4. want[p] = "claimed" BY CallFacts DEF Request, CallInv
<1>5. PICK a \in {<<"sync", "sync">>, <<"sync">>} : jobs' = [jobs EXCEPT ![p] = a]
  BY DEF Request
<1>6. a \in Agenda \ {<<>>, <<"clear">>, <<"activate">>} /\ a \in Seq(Job)
  <2>1. a \in Agenda /\ Head(a) = "sync" /\ a # <<>> BY DEF Agenda
  <2> QED BY <2>1, AgendaParts
<1>7. CallsTypeOK' BY <1>3, <1>5, <1>6, CallFacts DEF Request, CallsTypeOK, Goto, Place
<1>8. CallInv(p)'
  <2>1. place'[p] = "work" /\ picked'[p] = Answer(k) /\ want'[p] = "claimed" /\ jobs'[p] = a
    BY <1>4, <1>5, CallFacts DEF Request, Goto, CallsTypeOK
  <2> QED BY <1>1, <1>6, <2>1 DEF CallInv
<1>9. \A q \in Proc : q # p => Same(q)
  BY <1>5, CallFacts DEF Request, Goto, Same, CallsTypeOK
<1> QED BY <1>1, <1>2, <1>7, <1>8, <1>9, CallFacts, OneCallMoves DEF Request, historyVars

LEMMA DieKeeps ==
    ASSUME ActivationInv, NEW p \in Proc, Die(p)
    PROVE  ActivationInv'
<1>1. Id' = Id /\ Moved({}) BY StoreKept DEF Die
<1>2. CallsTypeOK' /\ CallInv(p)' /\ \A q \in Proc : q # p => Same(q)
  <2>1. Continue(p, <<>>) /\ switched' = switched BY DEF Die, Finish, historyVars
  <2>2. <<>> \in Agenda \ {<<"clear">>} BY DEF Agenda
  <2> QED BY <2>1, <2>2, CallFacts, ContinueCall
<1>3. crashes' \in 0 .. MaxCrashes BY CallFacts, ActivationAssumption DEF Die
<1> QED BY <1>1, <1>2, <1>3, CallFacts, OneCallMoves DEF Die, historyVars

\* Nobody else activates.
LEMMA ExternalKeeps ==
    ASSUME ActivationInv, NEW i \in Id, External(i)
    PROVE  ActivationInv'
<1>1. PICK to \in ExternalStatus : Transition(i, to) BY DEF External
<1>2. StoreTypeOK /\ Len(intents) <= MaxIntents /\ CallsTypeOK
      /\ file \in Manifest \cup {Torn} /\ claimedOnce \subseteq Id /\ switched \subseteq Id
      /\ crashes \in 0 .. MaxCrashes
  BY DEF ActivationInv, ActivationTypeOK, CallsTypeOK
<1>3. Moved({}) BY <1>1, <1>2, ActivationAssumption, TransitionMoves
<1>4. Id \subseteq Id' /\ Len(intents') <= MaxIntents BY <1>3 DEF Moved
<1>5. \A q \in Proc : Same(q) BY DEF External, procVars, Same
<1>6. switched' = switched /\ claimedOnce' = claimedOnce BY DEF External, historyVars
<1>7. \A q \in Proc : CallInv(q)' BY <1>4, <1>5, <1>6, SameCall DEF ActivationInv
<1>8. ActivationTypeOK'
  BY <1>2, <1>3, <1>4, <1>6 DEF External, procVars, Moved, CallsTypeOK, ActivationTypeOK
<1>9. ActivatedOnlyAfterSwitch'
  BY <1>3, <1>6 DEF ActivatedOnlyAfterSwitch, Moved, StatusOf, ActivationInv
<1> QED BY <1>4, <1>7, <1>8, <1>9 DEF ActivationInv

LEMMA StutterKeeps ==
    ASSUME ActivationInv, UNCHANGED activationVars
    PROVE  ActivationInv'
<1>1. UNCHANGED <<storeVars, file, procVars, historyVars, crashes>> BY DEF activationVars
<1>2. Moved({}) /\ Id' = Id BY <1>1, StoreKept
<1>3. \A q \in Proc : Same(q) BY <1>1 DEF procVars, Same
<1>4. \A q \in Proc : CallInv(q)'
  BY <1>1, <1>2, <1>3, SameCall DEF ActivationInv, historyVars
<1>5. ActivationTypeOK'
  BY <1>1, <1>2 DEF Moved, procVars, historyVars, ActivationTypeOK, ActivationInv
<1>6. ActivatedOnlyAfterSwitch'
  BY <1>1, <1>2 DEF ActivatedOnlyAfterSwitch, Moved, StatusOf, ActivationInv, historyVars
<1> QED BY <1>2, <1>4, <1>5, <1>6 DEF ActivationInv, Moved

-----------------------------------------------------------------------------
LEMMA ActivationStarts == ActivationInit => ActivationInv
<1> SUFFICES ASSUME ActivationInit PROVE ActivationInv
  OBVIOUS
<1>1. StoreTypeOK /\ Id = {} /\ Len(intents) <= MaxIntents
  BY StoreAssumption, StoreInit_Inv, LenProperties DEF ActivationInit, StoreInit, StoreInv, Id
<1>2. ActivationTypeOK
  BY <1>1, BlankType, ActivationAssumption
     DEF ActivationInit, ActivationTypeOK, Manifest, Place
<1>3. \A p \in Proc : CallInv(p) BY DEF ActivationInit, CallInv, Agenda
<1> QED BY <1>1, <1>2, <1>3 DEF ActivationInv, ActivatedOnlyAfterSwitch

LEMMA ActivationSteps == ActivationInv /\ [ActivationNext]_activationVars => ActivationInv'
<1> SUFFICES ASSUME ActivationInv, [ActivationNext]_activationVars PROVE ActivationInv'
  OBVIOUS
<1>1. ASSUME NEW p \in Proc, Proceed(p) PROVE ActivationInv'
  BY <1>1, PickKeeps, PickNothingKeeps, FindKeeps, ClaimKeeps, DecideKeeps, CheckKeeps,
     DraftKeeps, OpenKeeps, WriteKeeps, ActivateKeeps DEF Proceed
<1>2. ASSUME NEW r \in Requester, NEW k \in Key, Request(r, k) PROVE ActivationInv'
  BY <1>2, RequestKeeps DEF Proc
<1> QED BY <1>1, <1>2, LookKeeps, DieKeeps, ExternalKeeps, StutterKeeps DEF ActivationNext

\* The type invariant of the activation: in every reachable state, whatever the
\* sessions, requesters, preflights and intents, the manifest, the calls' copies
\* and agendas and the history of handoff-activation.ts's steps are well formed.
THEOREM ActivationTypeCorrect == ActivationSpec => []ActivationTypeOK
<1>1. ActivationSpec => []ActivationInv
  BY ActivationStarts, ActivationSteps, PTL DEF ActivationSpec
<1>2. ActivationInv => ActivationTypeOK BY DEF ActivationInv
<1> QED BY <1>1, <1>2, PTL

\* Write-ahead order: claimAndActivateWorkflowHandoffForAgent, its crashes and
\* its races included, never leaves an intent activated in the store whose owner
\* switch has not been written to the manifest before.
THEOREM ActivatedOnlyAfterSwitchHolds == ActivationSpec => []ActivatedOnlyAfterSwitch
<1>1. ActivationSpec => []ActivationInv
  BY ActivationStarts, ActivationSteps, PTL DEF ActivationSpec
<1>2. ActivationInv => ActivatedOnlyAfterSwitch BY DEF ActivationInv
<1> QED BY <1>1, <1>2, PTL
=============================================================================
