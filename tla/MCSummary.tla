----------------------------- MODULE MCSummary -----------------------------
(* Small instances of Summary for TLC. *)
EXTENDS Summary

\* One floor has a like, another two.
SomeLikes == [f \in Rankings |-> CASE f = 2 -> 1 [] f = 4 -> 2 [] OTHER -> 0]

RequestSymmetry == Permutations(Requests)
=============================================================================
