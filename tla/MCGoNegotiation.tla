--------------------------- MODULE MCGoNegotiation ---------------------------
(* Small instances of GoNegotiation for TLC. *)
EXTENDS GoNegotiation, TLC

Symmetry == Permutations(IDs)
=============================================================================
