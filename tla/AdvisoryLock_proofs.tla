-------------------------- MODULE AdvisoryLock_proofs --------------------------
(***************************************************************************)
(* What the directory lock guarantees for any set of contenders, any number *)
(* of tasks and any timeout: everything, as long as no process dies inside  *)
(* the lock, and with any number of deaths when at most two processes       *)
(* contend, so that a waiter which recovers a dead one's lock is alone. Of  *)
(* three, two could judge the same directory stale, and the slower one      *)
(* would remove the lock that the faster one has taken meanwhile.           *)
(***************************************************************************)
EXTENDS AdvisoryLock, TLAPS

AtMostTwo == \A p, q, r \in Proc : p = q \/ q = r \/ p = r

\* Nobody dies, or nobody else is left to compete for a dead one's lock.
LoneRecovery == MaxCrashes = 0 \/ AtMostTwo

Holds(p) == pc[p] \in {"meta", "read", "write", "unlock"}

\* The lock's directory is its maker's from mkdir to the finally block, only a
\* dead maker's is judged stale, the one that removes it has outlived all
\* others, and a contender's copy of the file is fresh while it holds the lock.
LockInv ==
    /\ TypeOK
    /\ \A p \in Proc : pc[p] = "dead" => MaxCrashes # 0
    /\ dir.made = None => dir = NoDir
    /\ \A p \in Proc : Holds(p) => dir.made = p
    /\ MetadataNamesHolder
    /\ dir.aged => pc[dir.made] = "dead"
    /\ \A p \in Proc : pc[p] = "remove" =>
           /\ MaxCrashes # 0
           /\ \A q \in Proc : q # p => pc[q] = "dead"
    /\ \A p \in Proc : pc[p] = "write" => local[p] = file
    /\ NoLostUpdate

\* The initial state has the types of the protocol's state.
LEMMA TypeInit == Init => TypeOK
  BY LockAssumption DEF Init, TypeOK, Control, Dir, NoDir, Entry

\* No step of the protocol leaves the types, however many processes die.
LEMMA TypeStep == TypeOK /\ [Next]_vars => TypeOK'
<1> SUFFICES ASSUME TypeOK, [Next]_vars PROVE TypeOK'
  OBVIOUS
<1> USE LockAssumption DEF TypeOK, Control, Dir, NoDir, Goto
<1>1. ASSUME NEW p \in Proc, Enter(p) PROVE TypeOK'
  BY <1>1 DEF Enter
<1>2. ASSUME NEW p \in Proc, Mkdir(p) PROVE TypeOK'
  BY <1>2 DEF Mkdir
<1>3. ASSUME NEW p \in Proc, WriteMetadata(p) PROVE TypeOK'
  BY <1>3 DEF WriteMetadata
<1>4. ASSUME NEW p \in Proc, TaskRead(p) PROVE TypeOK'
  BY <1>4 DEF TaskRead
<1>5. ASSUME NEW p \in Proc, TaskWrite(p) PROVE TypeOK'
  <2>1. <<p, runs[p]>> \in Entry
    BY DEF Entry
  <2>2. QED
    BY <1>5, <2>1 DEF TaskWrite
<1>6. ASSUME NEW p \in Proc, Unlock(p) PROVE TypeOK'
  BY <1>6 DEF Unlock
<1>7. ASSUME NEW p \in Proc, CheckOwner(p) PROVE TypeOK'
  BY <1>7 DEF CheckOwner, Verdict
<1>8. ASSUME NEW p \in Proc, StatAge(p) PROVE TypeOK'
  BY <1>8 DEF StatAge
<1>9. ASSUME NEW p \in Proc, RemoveStale(p) PROVE TypeOK'
  BY <1>9 DEF RemoveStale, RecoveredDir
<1>10. ASSUME NEW p \in Proc, WaitOrTimeout(p) PROVE TypeOK'
  BY <1>10 DEF WaitOrTimeout, MayRetry
<1>11. ASSUME NEW p \in Proc, Crash(p) PROVE TypeOK'
  BY <1>11 DEF Crash
<1>12. ASSUME Age PROVE TypeOK'
  BY <1>12 DEF Age
<1>13. CASE UNCHANGED vars
  BY <1>13 DEF vars
<1>14. QED
  BY <1>1, <1>2, <1>3, <1>4, <1>5, <1>6, <1>7, <1>8, <1>9, <1>10, <1>11, <1>12, <1>13
     DEF Next, Step

\* The initial state satisfies the lock's inductive invariant.
LEMMA LockInit == Init => LockInv
  BY TypeInit, LockAssumption DEF Init, LockInv, Holds, NoDir, MetadataNamesHolder, NoLostUpdate

\* A waiter that judges a directory stale is the only process left: its maker
\* is dead, and is all there was besides the waiter.
LEMMA RecoveryIsLone ==
    ASSUME LoneRecovery, LockInv, NEW p \in Proc, pc[p] # "dead",
           OwnerDead \/ dir.aged
    PROVE  MaxCrashes # 0 /\ \A q \in Proc : q # p => pc[q] = "dead"
<1>1. PICK d \in Proc : pc[d] = "dead"
  BY LockAssumption DEF LockInv, TypeOK, Dir, NoDir, OwnerDead, MetadataNamesHolder
<1>2. MaxCrashes # 0 /\ d # p
  BY <1>1 DEF LockInv
<1>3. QED
  BY <1>1, <1>2 DEF LoneRecovery, AtMostTwo

\* With lone recovery every step of the protocol keeps the inductive invariant.
LEMMA LockStep ==
    ASSUME LoneRecovery
    PROVE  LockInv /\ [Next]_vars => LockInv'
<1> SUFFICES ASSUME LockInv, [Next]_vars PROVE LockInv'
  OBVIOUS
<1>0. TypeOK /\ TypeOK'
  BY TypeStep DEF LockInv
<1> USE LockAssumption DEF LockInv, Holds, NoDir, MetadataNamesHolder, NoLostUpdate, Goto
<1>1. ASSUME NEW p \in Proc, Enter(p) PROVE LockInv'
  BY <1>0, <1>1 DEF Enter, TypeOK
<1>2. ASSUME NEW p \in Proc, Mkdir(p) PROVE LockInv'
  <2>1. CASE MkdirSucceeds
    <3>1. \A q \in Proc : ~Holds(q)
      BY <2>1 DEF MkdirSucceeds
    <3>2. dir' = [made |-> p, owner |-> None, aged |-> FALSE] /\ p # None
      BY <1>2, <2>1 DEF Mkdir, MkdirSucceeds
    <3>3. pc' = [pc EXCEPT ![p] = "meta"] /\ pc[p] = "mkdir"
      BY <1>2, <2>1 DEF Mkdir
    <3>4. UNCHANGED <<tries, runs, file, local, written, crashes>>
      BY <1>2 DEF Mkdir
    <3>5. QED
      BY <1>0, <3>1, <3>2, <3>3, <3>4 DEF TypeOK
  <2>2. CASE ~MkdirSucceeds
    <3>1. pc' = [pc EXCEPT ![p] = "check"] /\ pc[p] = "mkdir"
      BY <1>2, <2>2 DEF Mkdir
    <3>2. UNCHANGED <<tries, runs, dir, file, local, written, crashes>>
      BY <1>2, <2>2 DEF Mkdir
    <3>3. QED
      BY <1>0, <3>1, <3>2 DEF TypeOK
  <2>3. QED
    BY <2>1, <2>2
<1>3. ASSUME NEW p \in Proc, WriteMetadata(p) PROVE LockInv'
  BY <1>0, <1>3 DEF WriteMetadata, TypeOK, Dir
<1>4. ASSUME NEW p \in Proc, TaskRead(p) PROVE LockInv'
  BY <1>0, <1>4 DEF TaskRead, TypeOK
<1>5. ASSUME NEW p \in Proc, TaskWrite(p) PROVE LockInv'
  <2>1. written \subseteq local[p] /\ \A q \in Proc : pc[q] = "write" => q = p
    BY <1>5 DEF TaskWrite
  <2>2. QED
    BY <1>0, <1>5, <2>1 DEF TaskWrite, TypeOK
<1>6. ASSUME NEW p \in Proc, Unlock(p) PROVE LockInv'
  BY <1>0, <1>6 DEF Unlock, TypeOK
<1>7. ASSUME NEW p \in Proc, CheckOwner(p) PROVE LockInv'
  <2>1. pc[p] = "check" /\ pc' = [pc EXCEPT ![p] = Verdict]
    BY <1>7 DEF CheckOwner
  <2>2. Verdict = "remove" => MaxCrashes # 0 /\ \A q \in Proc : q # p => pc[q] = "dead"
    BY <2>1, RecoveryIsLone DEF Verdict
  <2>3. Verdict \in {"remove", "stat", "wait"}
    BY DEF Verdict
  <2>4. UNCHANGED <<tries, runs, dir, file, local, written, crashes>>
    BY <1>7 DEF CheckOwner
  <2>5. QED
    BY <1>0, <2>1, <2>2, <2>3, <2>4 DEF TypeOK
<1>8. ASSUME NEW p \in Proc, StatAge(p) PROVE LockInv'
  <2>1. pc[p] = "stat" /\ pc' = [pc EXCEPT ![p] = IF dir.aged THEN "remove" ELSE "wait"]
    BY <1>8 DEF StatAge
  <2>2. dir.aged => MaxCrashes # 0 /\ \A q \in Proc : q # p => pc[q] = "dead"
    BY <2>1, RecoveryIsLone
  <2>3. UNCHANGED <<tries, runs, dir, file, local, written, crashes>>
    BY <1>8 DEF StatAge
  <2>4. QED
    BY <1>0, <2>1, <2>2, <2>3 DEF TypeOK
<1>9. ASSUME NEW p \in Proc, RemoveStale(p) PROVE LockInv'
  BY <1>0, <1>9 DEF RemoveStale, RecoveredDir, TypeOK
<1>10. ASSUME NEW p \in Proc, WaitOrTimeout(p) PROVE LockInv'
  <2>1. pc[p] = "wait" /\ \E l \in {"idle", "mkdir"} : pc' = [pc EXCEPT ![p] = l]
    BY <1>10 DEF WaitOrTimeout
  <2>2. UNCHANGED <<runs, dir, file, local, written, crashes>>
    BY <1>10 DEF WaitOrTimeout
  <2>3. QED
    BY <1>0, <2>1, <2>2 DEF TypeOK
<1>11. ASSUME NEW p \in Proc, Crash(p) PROVE LockInv'
  <2>1. MaxCrashes # 0
    BY <1>0, <1>11 DEF Crash, TypeOK
  <2>2. QED
    BY <1>0, <1>11, <2>1 DEF Crash, TypeOK, Dir
<1>12. ASSUME Age PROVE LockInv'
  BY <1>0, <1>12 DEF Age, TypeOK, Dir
<1>13. CASE UNCHANGED vars
  BY <1>0, <1>13 DEF vars
<1>14. QED
  BY <1>1, <1>2, <1>3, <1>4, <1>5, <1>6, <1>7, <1>8, <1>9, <1>10, <1>11, <1>12, <1>13
     DEF Next, Step

\* The protocol's state keeps its types, with any contenders and any deaths.
THEOREM AdvisoryLockTypes == Spec => []TypeOK
  BY TypeInit, TypeStep, PTL DEF Spec

\* The shared file never loses an update, whatever the number of tasks and
\* retries, if nobody dies or at most two processes contend.
THEOREM NoUpdateLost ==
    ASSUME LoneRecovery
    PROVE  Spec => []NoLostUpdate
<1>1. LockInv => NoLostUpdate
  BY DEF LockInv
<1>2. QED
  BY LockInit, LockStep, <1>1, PTL DEF Spec

\* Under the same assumption no two contenders are inside the task at once.
THEOREM LockExcludes ==
    ASSUME LoneRecovery
    PROVE  Spec => []MutualExclusion
<1>1. LockInv => MutualExclusion
  BY DEF LockInv, Holds, MutualExclusion, InSection
<1>2. QED
  BY LockInit, LockStep, <1>1, PTL DEF Spec

\* Under the same assumption owner.json never names anyone but the directory's
\* maker.
THEOREM MetadataTrue ==
    ASSUME LoneRecovery
    PROVE  Spec => []MetadataNamesHolder
<1>1. LockInv => MetadataNamesHolder
  BY DEF LockInv
<1>2. QED
  BY LockInit, LockStep, <1>1, PTL DEF Spec
=============================================================================
