----------------------------- MODULE MCPosting -----------------------------
(* Small instances of Posting for TLC. *)
EXTENDS Posting, TLC

CONSTANTS u1, u2, d1

\* u2 is banned from division d1.
BanU2 == [u \in Users |-> IF u = u2 THEN {d1} ELSE {}]
=============================================================================
