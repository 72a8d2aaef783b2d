--------------------------- MODULE MCGoConnection ---------------------------
(* Small instances of GoConnection for TLC. *)
EXTENDS GoConnection, TLC

\* Calls and requests are interchangeable; only safety runs use the symmetry.
Symmetry == Permutations(Calls) \cup Permutations(Requests) \cup Permutations(WireIDs)
=============================================================================
