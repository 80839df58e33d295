------------------------------ MODULE MCSASIndex -----------------------------
(* Instances of SASIndex for TLC. *)
EXTENDS SASIndex

CONSTANTS v1, v2

AllVals == {v1, v2}

Load(puts, removes) == [puts |-> puts, removes |-> removes, val |-> v1, expanding |-> TRUE]

Upward == [i \in 1..10 |-> i]
Mixed == <<5, 1, 9, 3, 7, 2, 8, 4, 10, 6>>

\* Empty indexes, trees of two and three levels, and one of three levels with few keys in its nodes.
AllLoads ==
    {Load(<<>>, <<>>), [Load(<<>>, <<>>) EXCEPT !.expanding = FALSE],
     Load(Upward, <<>>), Load(Mixed, <<>>), Load(Upward, <<10, 9, 8>>)}

\* The searches of nodes longer than those of the run find what counting the keys finds.
LongNode(n) == [count |-> n, slot |-> [i \in 1..n |-> Entry(2 * i, v1)]]

ASSUME LongNodesAreSearched ==
    \A n \in 6..34 : \A target \in 1..(2 * n + 2) :
        SearchPosition(LongNode(n), target) = Cardinality({i \in 1..n : 2 * i <= target})

=============================================================================
