------------------------------ MODULE MCInputPath ------------------------------
(* Constants for model checking InputPath; see README.md for the bounds. *)
EXTENDS InputPath

\* One modifier stands for the three of the hotkey: the code only asks whether
\* all are down.  `a` is an ordinary key, `x` a button without a
\* Message (Back, Forward), `v` the motion of the mouse.
CONSTANTS m, g, a, x, v

MCKeys == {m, g, a}
MCButtons == {x}
MCMods == {m}
MCMotions == {v}
MCMapped == {m, g, a, v}
===============================================================================
