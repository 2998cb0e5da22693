------------------------------ MODULE ServiceCall ------------------------------
(***************************************************************************)
(* Calls of CheckinService for one task of one user, as their callers see  *)
(* them: ServicePromise put in motion.  The site changes period, the user  *)
(* may sign in elsewhere, and each call takes its two steps.               *)
(***************************************************************************)
EXTENDS ServicePromise

CONSTANTS Calls, MaxPeriod

VARIABLES
  period,      \* the period the site is in
  collected,   \* the periods whose reward was handed out
  began,       \* the period a call began in
  out          \* the outcome of a call

vars == <<period, collected, began, out>>

Init ==
  /\ period = 0
  /\ collected = {}
  /\ began = [c \in Calls |-> 0]
  /\ out = [c \in Calls |-> "none"]

Applies(c) ==
  /\ out[c] = "none"
  /\ \E o \in ApplyOutcomes(collected, period) : out' = [out EXCEPT ![c] = o]
  /\ began' = [began EXCEPT ![c] = period]
  /\ UNCHANGED <<period, collected>>

Collects(c) ==
  /\ out[c] = "applied"
  /\ \E o \in CollectOutcomes(collected, began[c], period) :
       /\ out' = [out EXCEPT ![c] = o[1]]
       /\ collected' = o[2]
  /\ UNCHANGED <<period, began>>

SignedElsewhere ==
  /\ collected' = collected \cup {period}
  /\ UNCHANGED <<period, began, out>>

NextPeriod ==
  /\ period < MaxPeriod
  /\ period' = period + 1
  /\ UNCHANGED <<collected, began, out>>

Next ==
  \/ \E c \in Calls : Applies(c) \/ Collects(c)
  \/ SignedElsewhere \/ NextPeriod

Spec == Init /\ [][Next]_vars
================================================================================
