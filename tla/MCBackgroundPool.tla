---------------------------- MODULE MCBackgroundPool ----------------------------
(* One pool of capacity one, two callers, two kinds of work.                *)
EXTENDS BackgroundPool, TLC

CONSTANTS s1, s2, k1, k2, r1, r2, r3, c1, c2

MCSession == {s1, s2}
MCKind == {k1, k2}
MCRun == {r1, r2, r3}
MCCaller == {c1, c2}
MCSymmetry == Permutations(MCSession) \cup Permutations(MCCaller)
                 \cup Permutations(MCKind) \cup Permutations(MCRun)
MCDoomed == {{"idle", "needs_repair"}}

================================================================================
