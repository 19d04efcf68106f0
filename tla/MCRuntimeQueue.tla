---------------------------- MODULE MCRuntimeQueue ----------------------------
(* One piece of work, one who asks for it and the service. Every write acts on *)
(* each key by itself, so one key is enough.                                   *)
EXTENDS RuntimeQueue

CONSTANTS k1, r1, r2, c1

MCKey == {k1}
MCRun == {r1, r2}
MCStarter == {c1}

================================================================================
