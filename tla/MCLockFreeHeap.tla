--------------------------- MODULE MCLockFreeHeap ---------------------------
(* Small instances of the lock free heap for TLC.                          *)
EXTENDS LockFreeHeap, TLC

CONSTANTS t1, t2

(* Units of four bytes, of which a word has three and a request may take   *)
(* up to two.  Plain allocates of one unit, of seven bytes, which are two,  *)
(* and of eight, which are refused; and one unit at an even offset, at any *)
(* with half a unit for the alignment, and for an alignment of one byte.   *)
(* The last unit of a word of three is at an even offset, so no search is  *)
(* endless; that of a word of four is not.                                 *)
SomeUnits == {[size |-> 4, align |-> 0], [size |-> 7, align |-> 0],
              [size |-> 8, align |-> 0], [size |-> 4, align |-> 8],
              [size |-> 4, align |-> 2], [size |-> 4, align |-> 1]}

=============================================================================
