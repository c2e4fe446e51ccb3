--------------------------- MODULE MCFloorHistory ---------------------------
(* Small instances of FloorHistory for TLC. *)
EXTENDS FloorHistory, TLC

CONSTANTS f1, u1, u2, r1, r2, clean, suspect

UsersSymmetry == Permutations(Users) \cup Permutations(Restorers)
=============================================================================
