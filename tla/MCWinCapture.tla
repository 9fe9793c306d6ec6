----------------------------- MODULE MCWinCapture ------------------------------
(* Constants for model checking WinCapture; see README.md for the bounds. *)
EXTENDS WinCapture

CONSTANTS s1, s2

MCSessions == {s1, s2}
===============================================================================
