-------------------------- MODULE MCWebSocketServer --------------------------
(* Small instances of WebSocketServer for TLC. *)
EXTENDS WebSocketServer, TLC

Symmetry == Permutations(Requests)
=============================================================================
