--------------------------- MODULE MCSASStringBTree ---------------------------
(* Instances of SASStringBTree for TLC. *)
EXTENDS SASStringBTree

CONSTANTS v1, v2

AllVals == {v1, v2}

\* Every third key is long.
AllSizes == [k \in Keys |-> IF k % 3 = 0 THEN 2 ELSE 1]

Load(puts, removes) == [puts |-> puts, removes |-> removes, val |-> v1, expanding |-> TRUE]

Upward  == [i \in 1..10 |-> i]
Shuffled == <<6, 3, 8, 5, 1, 7, 2, 4>>
LongFirst == <<3, 6, 9, 1, 2, 4, 5, 7, 8, 10>>

\* Empty trees, trees of two and three levels, and trees with few keys in their nodes.
AllLoads ==
    {Load(<<>>, <<>>), [Load(<<>>, <<>>) EXCEPT !.expanding = FALSE],
     Load(Upward, <<>>), Load(Upward, <<6, 3, 9>>), Load(Shuffled, <<5, 2>>), Load(LongFirst, <<>>)}

=============================================================================
