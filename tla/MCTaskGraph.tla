------------------------------- MODULE MCTaskGraph -------------------------------
(* A small instance of TaskGraph for TLC: a review stage of two tasks of one     *)
(* owner, the second depending on the first, and a stage without a plan.         *)
EXTENDS TaskGraph, TLC

CONSTANTS t1, t2

MCPlan == [st \in Stage |-> IF st = "review" THEN <<t1, t2>> ELSE <<>>]
MCOwnerOf == [t \in Task |-> "reviewer"]
MCRoleOf == [s \in Session |-> "reviewer"]
MCDependsOn == [t \in Task |-> IF t = t2 THEN {t1} ELSE {}]
MCPathsOf == [t \in Task |-> {"reviewer"}]
MCMost == [ticks |-> 2, time |-> 2, deaths |-> 1]
MCSymmetry == Permutations(Session)
\* The tightest case: a scope claim that lasts no longer than the lease.
MCScopeTtl == [t \in Task |-> LeaseTtl]
=============================================================================
