--------------------------- MODULE MCTsConnection ---------------------------
(* Small instances of TsConnection for TLC. *)
EXTENDS TsConnection, TLC

\* Calls and requests are interchangeable; only safety runs use the symmetry.
Symmetry == Permutations(Calls) \cup Permutations(Requests)
=============================================================================
