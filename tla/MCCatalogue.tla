---------------------------- MODULE MCCatalogue ----------------------------
(* Small instances of Catalogue for TLC. *)
EXTENDS Catalogue, TLC

CONSTANTS n1, n2, n3, h1, h2

\* Two tags, and one hole that has the first.
TwoTags == [t \in TagIds |-> CASE t = 1 -> n1 [] t = 2 -> n2 [] OTHER -> None]

OneHole == [h \in Holes |-> IF h = h1 THEN {1} ELSE {}]

RequestSymmetry == Permutations(Handlers)
=============================================================================
