--------------------------- MODULE MCCheckinService ---------------------------
(* Instances of CheckinService: a daily task whose day has four slices of  *)
(* six hours and whose cooldown is three of them.                          *)
EXTENDS CheckinService, TLC

Symmetry == Permutations(Calls)
================================================================================
