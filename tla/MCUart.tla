------------------------------- MODULE MCUart -------------------------------
(* Two connect requests, for two firmware images, and a disconnect request of  *)
(* one project, one of each of another.                                       *)
EXTENDS Uart

CONSTANTS c1, c2, c3, d1, d2

MCProjectOf == [r \in Request |-> IF r \in {c3, d2} THEN "other" ELSE "mine"]
MCFirmwareOf == [c \in Conn |-> c]
=============================================================================
