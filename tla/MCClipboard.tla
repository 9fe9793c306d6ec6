------------------------------ MODULE MCClipboard -------------------------------
(* Constants for model checking Clipboard; see README.md for the bounds. *)
EXTENDS Clipboard

CONSTANTS t1, t2, none

MCTexts == {t1, t2}
===============================================================================
