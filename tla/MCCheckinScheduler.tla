-------------------------- MODULE MCCheckinScheduler --------------------------
(* Bounds for CheckinScheduler; which callers exist is chosen by the .cfg. *)
EXTENDS CheckinScheduler, TLC

CONSTANTS u1

(* One success of the current day left by an older release.                *)
LegacyDaily == {<<u1, "daily", 0>>}

(* Two days that share one ISO week.                                       *)
OneWeek == [d \in Days |-> 0]

(* Firings of one kind, and commands of one kind, are interchangeable.     *)
Symmetry == Permutations(Ticks) \cup Permutations(Spcheckins)
================================================================================
