--------------------------- MODULE MCSasLockList ---------------------------
(* Small instances of one slot of the lock table for TLC.                  *)
EXTENDS SasLockList, TLC

CONSTANTS t1, t2, t3, k1, k2

(* All the threads use one address; or one thread uses both.               *)
OneKeyOrOneThread ==
  {[t \in Thread |-> {k1}], (t1 :> {k1, k2}) @@ [t \in Thread |-> {}]}

(* Two addresses of one slot, used by every thread. *)
SharedSlot == {[t \in Thread |-> {k1, k2}]}
=============================================================================
