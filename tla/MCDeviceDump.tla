---------------------------- MODULE MCDeviceDump ----------------------------
(* Instances of DeviceDump for TLC. *)
EXTENDS DeviceDump, TLC

\* Dump sessions are interchangeable; used for safety runs only.
Symmetry == Permutations(Dump)
=============================================================================
