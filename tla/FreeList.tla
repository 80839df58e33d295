------------------------------ MODULE FreeList ------------------------------
(***************************************************************************)
(* The free lists of every heap (freenode.c).  A free piece of memory      *)
(* holds its own node: the length of the piece and the next one.  A list   *)
(* is the sequence of its pieces from the head on, [at, size] each.        *)
(*                                                                         *)
(* Sizes are rounded up to the size of a node, so what is left of a piece  *)
(* always has room for one.                                                *)
(***************************************************************************)
EXTENDS Integers, Sequences

CONSTANT NodeAlign    (* nodeAlign, the size of a node                     *)

ASSUME NodeAlignAssumption == NodeAlign \in Nat /\ NodeAlign >= 1

Round(n) == ((n + NodeAlign - 1) \div NodeAlign) * NodeAlign

Piece(at, n) == [at |-> at, size |-> n]
End(p) == p.at + p.size

(* freeNode_freeSpaceTotal; 0 for an empty list, as the callers have it,   *)
(* who test for one.                                                       *)
SpaceTotal(list) ==
  LET upto[i \in 0..Len(list)] == IF i = 0 THEN 0 ELSE upto[i-1] + list[i].size
  IN  upto[Len(list)]

(* freeNode_allocSpace: the first piece that is long enough, from its      *)
(* front.  The position of the piece in the list, 0 for none.              *)
LongEnough(p, n) == p.size >= n

FirstFit(list, n) ==
  IF \E i \in DOMAIN list : LongEnough(list[i], n)
    THEN CHOOSE i \in DOMAIN list :
           /\ LongEnough(list[i], n)
           /\ \A j \in 1..i-1 : ~ LongEnough(list[j], n)
    ELSE 0

Without(list, i) == SubSeq(list, 1, i - 1) \o SubSeq(list, i + 1, Len(list))

(* freeNode_allocNode, of piece i.                                         *)
AllocNode(list, i, n) ==
  IF list[i].size = n
    THEN Without(list, i)
    ELSE [list EXCEPT ![i] = Piece(@.at + n, @.size - n)]

(* The walk of freeNode_insertNode: the head it stops at has its next      *)
(* above the new piece, or none.  0 is "node before head" of               *)
(* freeNode_deallocSpace.                                                  *)
StopsAt(list, at) ==
  CHOOSE i \in 0..Len(list) :
    /\ \A j \in 1..i : list[j].at < at
    /\ i < Len(list) => at <= list[i+1].at

(* freeNode_deallocSpace: the piece goes in by its address and is joined   *)
(* with the one before and the one behind it.                              *)
JoinsNext_Fault(list, i, p) == FALSE
JoinsNext(list, i, p) == i < Len(list) /\ End(p) = list[i+1].at

PutIn(list, i, new, before) ==
  IF JoinsNext(list, i, new)
    THEN before \o <<Piece(new.at, new.size + list[i+1].size)>>
                \o SubSeq(list, i + 2, Len(list))
    ELSE before \o <<new>> \o SubSeq(list, i + 1, Len(list))

DeallocSpace(list, at, size) ==
  LET n == Round(size)
      In(i) == IF i > 0 /\ End(list[i]) = at
                 THEN PutIn(list, i, Piece(list[i].at, list[i].size + n),
                             SubSeq(list, 1, i - 1))
                 ELSE PutIn(list, i, Piece(at, n), SubSeq(list, 1, i))
  IN  In(StopsAt(list, at))

(* A list as it must be: by address, with something used between any two.  *)
IsFreeList(list) ==
  /\ \A i \in DOMAIN list : list[i].size > 0 /\ list[i].size % NodeAlign = 0
  /\ \A i \in 1..Len(list)-1 : End(list[i]) < list[i+1].at

(* The addresses a list covers.                                            *)
Covers(p) == p.at .. End(p) - 1
Free(list) == UNION {Covers(list[i]) : i \in DOMAIN list}
=============================================================================
