------------------------------ MODULE OrderedMap -----------------------------
(* What a B-tree index promises: a map from keys to values, and the answer of
   the last call that changed it.  Put adds a key that is not there and refuses
   one that is, Replace changes the value of a key that is there, Remove takes
   a key out; Replace and Remove return the value the key had, NULL when it had
   none. *)
CONSTANTS Keys, Vals, NULL

VARIABLES map, answer

vars == <<map, answer>>

ValueOf(k) == IF k \in DOMAIN map THEN map[k] ELSE NULL

Init == DOMAIN map \subseteq Keys /\ (\A k \in DOMAIN map : map[k] \in Vals) /\ answer = NULL

Put(k, v) ==
    /\ answer' = (k \notin DOMAIN map)
    /\ map' = [j \in DOMAIN map \cup {k} |-> IF j \in DOMAIN map THEN map[j] ELSE v]

Replace(k, v) ==
    /\ answer' = ValueOf(k)
    /\ map' = [j \in DOMAIN map |-> IF j = k THEN v ELSE map[j]]

Remove(k) ==
    /\ answer' = ValueOf(k)
    /\ map' = [j \in DOMAIN map \ {k} |-> map[j]]

\* The index is destroyed and made anew.
Clear == map' = << >> /\ answer' = NULL

Next == Clear \/ \E k \in Keys : Remove(k) \/ \E v \in Vals : Put(k, v) \/ Replace(k, v)

Spec == Init /\ [][Next]_vars

=============================================================================
