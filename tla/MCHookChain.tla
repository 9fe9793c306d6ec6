------------------------------ MODULE MCHookChain -------------------------------
(* Constants for model checking HookChain; see README.md for the bounds. *)
EXTENDS HookChain

CONSTANTS s1, s2, m, g, v

MCSessions == {s1, s2}
MCKeys == {m, g}
MCMods == {m}
MCMotions == {v}
===============================================================================
