--------------------------- MODULE MCSubscriptions ---------------------------
(* A small instance of Subscriptions: one session with a global report,    *)
(* one with a session report for one of two accounts.                      *)
EXTENDS Subscriptions, TLC

CONSTANTS admins, friends, alice, qq

GlobalAndAlice == {<<admins, Everyone>>, <<friends, alice>>}
OnePlatform == [a \in Accounts |-> {qq}]

Interchangeable == Permutations(Uids) \cup Permutations(Crons)
================================================================================
