--------------------------- MODULE MCOpsSessions ---------------------------
(* A small instance of OpsSessions for TLC. *)
EXTENDS OpsSessions, TLC

MCSymmetry == Permutations(Requests)
=============================================================================
