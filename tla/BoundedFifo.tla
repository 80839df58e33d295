---------------------------- MODULE BoundedFifo ----------------------------
(***************************************************************************)
(* What a lock free queue promises: a first-in first-out queue of at most  *)
(* Capacity entries.  The producer reserves an entry, which takes its      *)
(* place in the order; it publishes its entries in any order; the consumer *)
(* takes the oldest, and only once that is published.                      *)
(***************************************************************************)
EXTENDS Integers, Sequences

CONSTANTS
  Val,          (* what an entry can carry                                 *)
  Unpublished,  (* an entry reserved and not published: no member of Val   *)
  Capacity      (* a natural number                                        *)

VARIABLES
  q,            (* the entries, the oldest first                           *)
  last          (* what the consumer took last                             *)

Init == q = <<>> /\ last \in Val

Reserve ==
  /\ Len(q) < Capacity
  /\ q' = Append(q, Unpublished)
  /\ UNCHANGED last

Publish(i, v) ==
  /\ q[i] = Unpublished
  /\ q' = [q EXCEPT ![i] = v]
  /\ UNCHANGED last

Take ==
  /\ q # <<>>
  /\ Head(q) \in Val
  /\ last' = Head(q)
  /\ q' = Tail(q)

Next == Reserve \/ Take \/ \E i \in 1..Len(q), v \in Val : Publish(i, v)

Spec == Init /\ [][Next]_<<q, last>>
=============================================================================
