----------------------------- MODULE HandoffPromise -----------------------------
(***************************************************************************)
(* What the handoff store promises to a requester that names a handoff by   *)
(* an idempotency key, whatever intents it keeps to honour it: a key that   *)
(* was never asked for may be opened, an open key is either closed for good *)
(* or lapses unanswered, and only a lapsed key may be opened again.         *)
(***************************************************************************)
CONSTANT Key

VARIABLE phase

Phase == {"none", "open", "closed", "lapsed"}

Init == phase = [k \in Key |-> "none"]

Open(k) ==
    /\ phase[k] \in {"none", "lapsed"}
    /\ phase' = [phase EXCEPT ![k] = "open"]

Close(k) ==
    /\ phase[k] = "open"
    /\ phase' = [phase EXCEPT ![k] = "closed"]

Lapse(k) ==
    /\ phase[k] = "open"
    /\ phase' = [phase EXCEPT ![k] = "lapsed"]

Next == \E k \in Key : Open(k) \/ Close(k) \/ Lapse(k)

Spec == Init /\ [][Next]_phase
=============================================================================
