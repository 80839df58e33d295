---------------------------- MODULE MCSASRegion ----------------------------
(* Two processes, one of which clears what it frees; blocks of one page    *)
(* and of a whole segment.                                                 *)
EXTENDS SASRegion
MCSizes == {0, SegmentLog}

(* The operations of the tree, on every tree that five inserts in any      *)
(* order make, against the set of its keys.                                *)
Keys == 1 .. 5
LeastOf(S) == CHOOSE k \in S : \A j \in S : k <= j
KeysOf(t) == {n.key : n \in NodesOf(t)}
FindsLeast(found, S) == IF S = {} THEN found = NoNode
                              ELSE found # NoNode /\ found[1].key = LeastOf(S)
RECURSIVE Inserted(_, _)
Inserted(order, i) == IF i = 0 THEN NoNode ELSE insertNode(Inserted(order, i - 1), order[i], 0)

ASSUME TreeOperations ==
  \A order \in {o \in [Keys -> Keys] : \A i, j \in Keys : i # j => o[i] # o[j]} :
    \A t \in {Inserted(order, 5)} :
      /\ KeysOf(t) = Keys /\ IsSearchTree(t)
      /\ \A k \in Keys : insertNode(t, k, 1) = t
      /\ \A k \in Keys : \A u \in {removeNode(t, k)} :
           /\ KeysOf(u) = Keys \ {k} /\ IsSearchTree(u)
           /\ \A j \in 0 .. 6 :
                /\ FindsLeast(searchEqualOrNextNode(u, j), {i \in KeysOf(u) : i >= j})
                /\ FindsLeast(searchNextNode(u, j), {i \in KeysOf(u) : i > j})
=============================================================================
