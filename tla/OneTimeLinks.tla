------------------------------ MODULE OneTimeLinks ------------------------------
(***************************************************************************)
(* What the login links of the plugin promise to the users, whatever       *)
(* tables, locks and threads they are made of.  A user has one link at a   *)
(* time.  A link is good for one login, and gone for good once it is       *)
(* withdrawn (it timed out, was cancelled, or the plugin ended); only a    *)
(* form that the forum had accepted, and that found the link in place just *)
(* before, may still win the race against its withdrawal.                  *)
(***************************************************************************)
CONSTANTS Users, Links, None

VARIABLES
  phase,      \* of a link
  owner,      \* the user it was issued to
  cancelled,  \* links whose page said that the login is cancelled
  timedout    \* links whose user was told that they timed out

vars == <<phase, owner, cancelled, timedout>>

Phases == {"unused", "live", "racing", "accepted", "dead"}

(* What a withdrawal may make of a link.                                   *)
Fates(p) == IF p = "live" THEN {"live", "racing", "dead"}
            ELSE IF p = "racing" THEN {"racing", "dead"} ELSE {p}

Issue(t, u) ==
  /\ phase[t] = "unused"
  /\ \A l \in Links : ~(phase[l] = "live" /\ owner[l] = u)
  /\ phase' = [phase EXCEPT ![t] = "live"]
  /\ owner' = [owner EXCEPT ![t] = u]
  /\ UNCHANGED <<cancelled, timedout>>

(* One link goes, or, with the end of the plugin, all.                     *)
Withdraw ==
  /\ phase' \in [Links -> Phases]
  /\ \A t \in Links : phase'[t] \in Fates(phase[t])
  /\ UNCHANGED <<owner, cancelled, timedout>>

Accept(t) ==
  /\ phase[t] \in {"live", "racing"}
  /\ phase' = [phase EXCEPT ![t] = "accepted"]
  /\ UNCHANGED <<owner, cancelled, timedout>>

(* The page of a link that was accepted before says so all the same.       *)
Cancel(t) ==
  /\ phase[t] # "unused"
  /\ phase' = [phase EXCEPT ![t] = IF @ = "accepted" THEN @ ELSE "dead"]
  /\ cancelled' = cancelled \cup {t}
  /\ UNCHANGED <<owner, timedout>>

TimeOut(t) ==
  /\ phase[t] \in {"racing", "accepted", "dead"}
  /\ timedout' = timedout \cup {t}
  /\ UNCHANGED <<phase, owner, cancelled>>

Init ==
  /\ phase = [t \in Links |-> "unused"]
  /\ owner = [t \in Links |-> None]
  /\ cancelled = {} /\ timedout = {}

Next ==
  \/ \E t \in Links, u \in Users : Issue(t, u)
  \/ \E t \in Links : Accept(t) \/ Cancel(t) \/ TimeOut(t)
  \/ Withdraw

Spec == Init /\ [][Next]_vars
================================================================================
