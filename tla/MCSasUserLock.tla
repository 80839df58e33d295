--------------------------- MODULE MCSasUserLock ---------------------------
(* Small instances of one SasUserLock for TLC.                             *)
EXTENDS SasUserLock, TLC

CONSTANTS t1, t2, t3

Reads == {"read_lock"}
Writes == {"write_lock"}

(* Writers only; one writer among readers; and two threads in calls of     *)
(* both kinds beside a reader: two writers wait for it, or there are more  *)
(* readers than the table has slots for.                                   *)
AllPrograms ==
  {[t \in Thread |-> Writes],
   (t1 :> Writes) @@ [t \in Thread |-> Reads],
   (t1 :> Reads) @@ [t \in Thread |-> Reads \cup Writes]}
=============================================================================
