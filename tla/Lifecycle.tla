----------------------------- MODULE Lifecycle ------------------------------
(***************************************************************************)
(* What uploads, dump sessions and emulation sessions promise their        *)
(* clients: one is opened, is active until it has an outcome, and the      *)
(* outcome stays as it is until the unit is discarded; what is discarded   *)
(* never comes back.                                                       *)
(***************************************************************************)
CONSTANTS Work,     \* units of work
          Result    \* the outcomes a client tells apart

VARIABLE phase

Phase == {"none", "active", "gone"} \cup Result

TypeOK == phase \in [Work -> Phase]

Init == phase = [w \in Work |-> "none"]

Open(w)    == phase[w] = "none" /\ phase'[w] = "active"
Close(w)   == phase[w] = "active" /\ phase'[w] \in Result
Discard(w) == phase[w] \in {"active"} \cup Result /\ phase'[w] = "gone"

\* A step moves any number of units: a clean-up job or a crash ends several.
Next == /\ phase' \in [Work -> Phase]
        /\ \A w \in Work : phase'[w] = phase[w] \/ Open(w) \/ Close(w) \/ Discard(w)

Spec == Init /\ [][Next]_phase
=============================================================================
