--------------------------- MODULE MCPopGestures ---------------------------
(* Instances of PopGestures for TLC.                                        *)
EXTENDS PopGestures, TLC

(* The pushed screens that do not hide the bar are interchangeable.         *)
Alike == Permutations(Screens \ PrefersHidden)
=============================================================================
