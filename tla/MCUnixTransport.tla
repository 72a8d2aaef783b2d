--------------------------- MODULE MCUnixTransport ---------------------------
(* Small instances of UnixTransport for TLC. *)
EXTENDS UnixTransport, TLC
=============================================================================
