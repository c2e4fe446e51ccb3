---------------------------- MODULE MCHoleViews ----------------------------
(* Small instances of HoleViews for TLC. *)
EXTENDS HoleViews, TLC
=============================================================================
