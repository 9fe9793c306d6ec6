------------------------------ MODULE MCHandshake -------------------------------
(* Constants for model checking Handshake; see README.md for the bounds. *)
EXTENDS Handshake

MCVersions == {1, 2}
===============================================================================
