----------------------------- MODULE MCUserStore -----------------------------
(* Instances of UserStore: the accounts' platforms are chosen by the .cfg. *)
EXTENDS UserStore, TLC

CONSTANTS alice, bob, qq, tg

OnePlatform == [a \in Accounts |-> {qq}]
BobOnTwo    == [a \in Accounts |-> IF a = bob THEN {qq, tg} ELSE {qq}]

Interchangeable == Permutations(Uids)
================================================================================
