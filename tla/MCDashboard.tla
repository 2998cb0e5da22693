----------------------------- MODULE MCDashboard -----------------------------
(* An instance of the user table with the pages that show it: the ids of   *)
(* the two accounts differ in case only, one is used on two platforms.     *)
EXTENDS Dashboard, TLC

CONSTANTS alice, bob, qq, tg, admins, friends

BobOnTwo == [a \in Accounts |-> IF a = bob THEN {qq, tg} ELSE {qq}]

SameButForCase == [t \in Texts |-> IF t = alice THEN bob ELSE t]

(* Nothing typed, an account, a platform, the name of a kind.              *)
Typed == {Texts, {bob, alice}, {tg}, {"uid"}}

(* No subscription, one in another session or for an account on two        *)
(* platforms, one in each session; exclusions of one session.              *)
SomeBoards ==
  [subs : {{}, {<<friends, alice>>}, {<<friends, alice>>, <<admins, bob>>}},
   excluded : {{umo} \X us : umo \in Umos, us \in SUBSET Uids}]

Interchangeable == Permutations(Uids)
================================================================================
