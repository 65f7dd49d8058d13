------------------------------ MODULE MCGhidra ------------------------------
(* Two coroutines of one process and one of another, two plain binaries and an *)
(* archive.                                                                   *)
EXTENDS Ghidra

CONSTANTS a1, a2, a3, mcp, other, p1, p2, g

MCCaller == {a1, a2, a3}
MCProcOf == [c \in MCCaller |-> IF c = a3 THEN other ELSE mcp]
MCUses == [c \in MCCaller |->
    CASE c = a1 -> {"ensure", "script"} \X {g}
      [] c = a2 -> {"ensure"} \X {g} \cup {"script"} \X {p1, p2}
      [] c = a3 -> {"worker"} \X {g} \cup {"script"} \X {g, p1}]
MCHangUses == [c \in MCCaller |-> IF c = a1 THEN {"ensure"} \X {p1} ELSE {}]
=============================================================================
