----------------------------- MODULE MCSPHContext ----------------------------
(* Instances of SPHContext for TLC. *)
EXTENDS SPHContext, TLC

CONSTANTS p1, p2, proj, prj2, a, bb, v1, v2

\* Processes differ in what they do only, address values in nothing.
Symmetry == Permutations({p1, p2}) \cup Permutations({v1, v2})

AllLengths == [n \in Names |-> IF n \in {proj, a} THEN 1 ELSE 2]

=============================================================================
