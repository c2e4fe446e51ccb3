--------------------------- MODULE MCSearchIndex ---------------------------
(* Small instances of SearchIndex for TLC. *)
EXTENDS SearchIndex

CONSTANTS f1, f2, h1

\* f1 opens the hole h1, f2 is a reply in it.
OneHole == [f \in Floors |-> h1]
=============================================================================
