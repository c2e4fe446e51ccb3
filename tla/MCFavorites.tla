---------------------------- MODULE MCFavorites ----------------------------
(* Small instances of Favorites for TLC. *)
EXTENDS Favorites, TLC

HandlerSymmetry ==
    Permutations(Requests) \cup Permutations(Deleters) \cup Permutations(Holes)
=============================================================================
