------------------------------ MODULE MCRepairRouting ------------------------------
(* Small instances of RepairRouting for TLC. *)
EXTENDS RepairRouting

CONSTANTS f1, f2, t1

\* One failure of a task, whose escalations share a key.
MCTaskOf == [f \in Failure |-> IF f = f1 THEN t1 ELSE NoTask]

\* The keys a route may use.
MCKey ==
    {<<"repair", f>> : f \in Failure}
    \cup {<<"human", f, l>> : f \in Failure, l \in Task \cup 1 .. MaxItems}
=============================================================================
