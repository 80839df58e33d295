--------------------------- MODULE MCMultiPCQueue ---------------------------
(* Small instances of the multiple producer queue for TLC.                 *)
EXTENDS MultiPCQueue, TLC

CONSTANTS p1, p2, c1, c2, v1, v2

(* Two threads on each side, or one thread alone on one of them. *)
Sides == {{p1, p2, c1, c2}, {p1, c1, c2}, {p1, p2, c1}}
=============================================================================
