----------------------------- MODULE MCEmulation ----------------------------
(* Emulation with two sessions: one that the arq worker boots in either mode,   *)
(* one that the backend process hands to Qiling.                              *)
EXTENDS Emulation

CONSTANTS s1, s2

MCSession == {s1, s2}
MCKinds == [s \in MCSession |-> IF s = s1 THEN {"system", "user"} ELSE {"qiling"}]
MCVia == [s \in MCSession |-> IF s = s1 THEN "arq" ELSE "inproc"]
=============================================================================
