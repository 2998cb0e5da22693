---------------------------- MODULE CheckinService ----------------------------
(***************************************************************************)
(* run_checkin of src/southplus/checkin_service.py, request by request:    *)
(* apply, collect, and apply again to verify, for one task of one user.    *)
(* Several calls may run at once (a tick and a /spcheckin), and the user   *)
(* may sign in on the website meanwhile.                                   *)
(*                                                                         *)
(* The site is external.  Its task is in state A (not applied for), B      *)
(* (applied, reward not collected) or C (collected), as                    *)
(* docs/dev/southplus-capture.md records, and refuses an application less  *)
(* than Cooldown after the one before.  A reply is a message the capture   *)
(* quotes, abstracted to the keywords of the tables it contains.           *)
(*                                                                         *)
(* Time passes in slices (6 hours in the instances).  A call is a few HTTP *)
(* requests with timeouts, so it meets at most one end of a slice.         *)
(***************************************************************************)
EXTENDS Naturals, ServicePromise

CONSTANTS
  Calls,       \* the calls of CheckinService for this task
  MaxTime,     \* the last time slice of the model
  PeriodLen,   \* slices in one period of the task
  Cooldown,    \* slices in which the site refuses to apply again
  Never        \* no application yet

ASSUME TimesAssumption ==
  /\ MaxTime \in Nat /\ PeriodLen \in Nat \ {0} /\ Cooldown \in Nat
  /\ Cooldown <= PeriodLen
  /\ Never \notin Nat

VARIABLES
  time,        \* the time slice
  stage,       \* the task on the site: A, B or C
  applied,     \* when it was last applied for
  collected,   \* the periods whose reward was handed out
  login,       \* the cookie is valid
  pc,          \* the request a call makes next
  start,       \* when a call began
  terminal,    \* collect_confirmed_terminal
  result,      \* the status a call returned
  disturbed    \* calls that met a fault, or the end of a period

siteVars == <<stage, applied, collected>>
vars == <<time, siteVars, login, pc, start, terminal, result, disturbed>>

Period(t) == t \div PeriodLen
Periods == 0 .. Period(MaxTime)

--------------------------------------------------------------------------------
(* Messages and keyword tables (src/southplus/api/constants.py).           *)

Keywords(m) ==
  CASE m = "log_in"          -> {"not_logged_in", "cannot_use_yet"}
    [] m = "go_finish_it"    -> {"please_hurry", "go_finish"}
    [] m = "no_repeat"       -> {"no_repeat", "is_finished"}
    [] m = "cooling_down"    -> {"refused", "not_yet_over"}
    [] m = "you_finished_it" -> {"has_finished"}
    [] m = "is_collected"    -> {"is_collected", "collect"}
    [] m = "not_applied"     -> {"not_applied"}
    [] m = "reward"          -> {"obtain", "reward"}
    [] m = "garbage"         -> {}

NotLoggedIn            == {"not_logged_in", "cannot_use_yet", "please_log_in"}
ApplyNeedsCollect      == {"please_hurry", "go_finish", "apply_succeeded", "in_progress"}
ApplyAlreadyCollected_NoCooldown ==
  {"no_repeat", "is_collected", "has_collected", "has_finished", "is_finished"}
ApplyAlreadyCollected  ==
  {"no_repeat", "is_collected", "has_collected", "has_finished", "is_finished",
   "refused", "not_yet_over", "week_already", "today_already"}
CollectAlreadyDone_NotAppliedFails ==
  {"no_repeat", "is_collected", "has_collected", "has_finished", "is_finished",
   "refused", "not_yet_over"}
CollectAlreadyDone     ==
  {"no_repeat", "is_collected", "has_collected", "has_finished", "is_finished",
   "not_applied", "refused", "not_yet_over"}
CollectSuccess         == {"obtain", "reward", "success", "collect"}

MatchesAny(m, table) == Keywords(m) \cap table # {}

--------------------------------------------------------------------------------
(* The site.                                                               *)

CoolingDown == applied # Never /\ time < applied + Cooldown

(* An apply request: the message and the site afterwards.                  *)
SiteApply(m) ==
  \/ stage = "C" /\ m \in {"no_repeat", "cooling_down"} /\ UNCHANGED siteVars
  \/ stage = "B" /\ m = "go_finish_it" /\ UNCHANGED siteVars
  \/ stage = "A" /\ CoolingDown /\ m = "cooling_down" /\ UNCHANGED siteVars
  \/ /\ stage = "A" /\ ~CoolingDown /\ m = "go_finish_it"
     /\ stage' = "B" /\ applied' = time
     /\ UNCHANGED collected

(* A collect request.  A finished task may be reported as not applied for. *)
SiteCollect(m) ==
  \/ stage = "A" /\ m = "not_applied" /\ UNCHANGED siteVars
  \/ /\ stage = "C"
     /\ m \in {"you_finished_it", "no_repeat", "is_collected", "not_applied"}
     /\ UNCHANGED siteVars
  \/ /\ stage = "B" /\ m = "reward"
     /\ stage' = "C" /\ collected' = collected \cup {Period(time)}
     /\ UNCHANGED applied

(* The user does it all in a browser.                                      *)
SignedElsewhere ==
  /\ stage = "B" \/ (stage = "A" /\ ~CoolingDown)
  /\ stage' = "C"
  /\ applied' = IF stage = "A" THEN time ELSE applied
  /\ collected' = collected \cup {Period(time)}
  /\ UNCHANGED <<time, login, pc, start, terminal, result, disturbed>>

Busy(c) == pc[c] \in {"collect", "verify"}

(* Time passes; a finished task can be applied for in the next period.     *)
TimePasses ==
  /\ time < MaxTime
  /\ \A c \in Calls : Busy(c) => start[c] = time
  /\ time' = time + 1
  /\ IF Period(time') = Period(time)
       THEN UNCHANGED <<stage, disturbed>>
       ELSE /\ stage' = IF stage = "C" THEN "A" ELSE stage
            /\ disturbed' = disturbed \cup {c \in Calls : Busy(c)}
  /\ UNCHANGED <<applied, collected, login, pc, start, terminal, result>>

CookieExpires ==
  /\ login
  /\ login' = FALSE
  /\ UNCHANGED <<time, siteVars, pc, start, terminal, result, disturbed>>

--------------------------------------------------------------------------------
(* Calls.                                                                  *)

Ends_Stays(c, status) ==
  /\ result' = [result EXCEPT ![c] = status]
  /\ UNCHANGED <<pc, start, terminal>>

Ends(c, status) ==
  /\ pc' = [pc EXCEPT ![c] = "done"]
  /\ result' = [result EXCEPT ![c] = status]
  /\ UNCHANGED <<start, terminal>>

ReadApply_AlreadyIsSuccess(c, m) ==
  /\ start' = [start EXCEPT ![c] = time]
  /\ UNCHANGED terminal
  /\ IF ~MatchesAny(m, NotLoggedIn) /\ MatchesAny(m, ApplyNeedsCollect)
       THEN /\ pc' = [pc EXCEPT ![c] = "collect"]
            /\ UNCHANGED result
       ELSE /\ pc' = [pc EXCEPT ![c] = "done"]
            /\ result' = [result EXCEPT ![c] =
                 IF ~MatchesAny(m, NotLoggedIn) /\ MatchesAny(m, ApplyAlreadyCollected)
                   THEN "success" ELSE "failed"]

(* What run_checkin makes of the reply to its apply request: log in first, *)
(* then state B before state C.                                            *)
ReadApply(c, m) ==
  /\ start' = [start EXCEPT ![c] = time]
  /\ UNCHANGED terminal
  /\ IF ~MatchesAny(m, NotLoggedIn) /\ MatchesAny(m, ApplyNeedsCollect)
       THEN /\ pc' = [pc EXCEPT ![c] = "collect"]
            /\ UNCHANGED result
       ELSE /\ pc' = [pc EXCEPT ![c] = "done"]
            /\ result' = [result EXCEPT ![c] =
                 IF ~MatchesAny(m, NotLoggedIn) /\ MatchesAny(m, ApplyAlreadyCollected)
                   THEN "already_done" ELSE "failed"]

(* Collect: already collected (by whomever) goes on to verify like a       *)
(* reward does, and is looked for first.                                   *)
ReadCollect(c, m) ==
  LET settled == MatchesAny(m, CollectAlreadyDone) IN
  IF ~MatchesAny(m, NotLoggedIn) /\ (settled \/ MatchesAny(m, CollectSuccess))
    THEN /\ pc' = [pc EXCEPT ![c] = "verify"]
         /\ terminal' = [terminal EXCEPT ![c] = settled]
         /\ UNCHANGED <<start, result>>
    ELSE Ends(c, "failed")

ReadVerify_TrustCollect(c, m) == Ends(c, "success")

(* Verify: only state C confirms.                                          *)
ReadVerify(c, m) ==
  Ends(c, IF ~MatchesAny(m, NotLoggedIn) /\ MatchesAny(m, ApplyAlreadyCollected)
            THEN "success" ELSE "failed")

(* One request and what the call makes of the answer.  The cookie may be   *)
(* refused; the site may answer something that is no task message, or      *)
(* claim a reward it did not hand out, which is why there is a verify.     *)
Refused(m) == ~login /\ m = "log_in" /\ UNCHANGED siteVars
Garbled(m) == m = "garbage" /\ UNCHANGED siteVars
Hollow(c, m) ==
  login /\ pc[c] = "collect" /\ stage = "B" /\ m = "reward" /\ UNCHANGED siteVars

Messages == {"log_in", "go_finish_it", "no_repeat", "cooling_down",
             "you_finished_it", "is_collected", "not_applied", "reward", "garbage"}

Request(c, at, Site(_), Read(_, _)) ==
  /\ pc[c] = at
  /\ \E m \in Messages :
       /\ \/ ((login /\ Site(m)) \/ Refused(m)) /\ UNCHANGED disturbed
          \/ (Garbled(m) \/ Hollow(c, m)) /\ disturbed' = disturbed \cup {c}
       /\ Read(c, m)
  /\ UNCHANGED <<time, login>>

Apply(c)   == Request(c, "apply", SiteApply, ReadApply)
Collect(c) == Request(c, "collect", SiteCollect, ReadCollect)
Verify(c)  == Request(c, "verify", SiteApply, ReadVerify)

(* The answer is lost (a timeout, an HTTP error): the request may have had *)
(* its effect, and _safe_run turns the exception into FAILED.              *)
AnswerLost(c) ==
  /\ pc[c] \in {"apply", "collect", "verify"}
  /\ \/ UNCHANGED siteVars
     \/ login /\ \E m \in Messages :
          IF pc[c] = "collect" THEN SiteCollect(m) ELSE SiteApply(m)
  /\ pc' = [pc EXCEPT ![c] = "done"]
  /\ result' = [result EXCEPT ![c] = "failed"]
  /\ start' = [start EXCEPT ![c] = IF pc[c] = "apply" THEN time ELSE @]
  /\ disturbed' = disturbed \cup {c}
  /\ UNCHANGED <<time, login, terminal>>

Init ==
  /\ time = 0 /\ stage = "A" /\ applied = Never /\ collected = {}
  /\ login = TRUE
  /\ pc = [c \in Calls |-> "apply"]
  /\ start = [c \in Calls |-> 0]
  /\ terminal = [c \in Calls |-> FALSE]
  /\ result = [c \in Calls |-> "none"]
  /\ disturbed = {}

Next ==
  \/ \E c \in Calls : Apply(c) \/ Collect(c) \/ Verify(c) \/ AnswerLost(c)
  \/ SignedElsewhere \/ TimePasses \/ CookieExpires

Spec == Init /\ [][Next]_vars

--------------------------------------------------------------------------------
(* Properties.                                                             *)

(* Every variable keeps to its set of values, and a call has a status      *)
(* exactly when it has returned.                                           *)
TypeOK ==
  /\ time \in 0 .. MaxTime
  /\ stage \in {"A", "B", "C"}
  /\ applied \in 0 .. MaxTime \cup {Never}
  /\ collected \subseteq Periods
  /\ login \in BOOLEAN
  /\ pc \in [Calls -> {"apply", "collect", "verify", "done"}]
  /\ start \in [Calls -> 0 .. MaxTime]
  /\ terminal \in [Calls -> BOOLEAN]
  /\ result \in [Calls -> Status \cup {"none"}]
  /\ disturbed \subseteq Calls
  /\ \A c \in Calls : pc[c] = "done" <=> result[c] # "none"

(* run_checkin's docstring: SUCCESS proves that the task reached the       *)
(* finished list.  Whoever collected it, the reward was handed out in a    *)
(* period the call was running in.                                         *)
SuccessMeansCollected ==
  \A c \in Calls : result[c] = "success" =>
    \E p \in collected : p \in {Period(start[c]), Period(start[c] + 1)}

(* Concurrent calls and a user on the website never turn a working cookie  *)
(* on a working site into FAILED: the side replies of a task that somebody *)
(* else has just finished are recognised.  (The end of a period between    *)
(* collect and verify may: the next application is then accepted.)         *)
NoFalseFailure ==
  \A c \in Calls : result[c] = "failed" => c \in disturbed \/ ~login

(* A call is what its callers are promised (ServicePromise.tla): already   *)
(* done only by the apply request, never by the reply to collect.          *)
Promise == INSTANCE ServiceCall WITH
  MaxPeriod <- Period(MaxTime),
  period <- Period(time),
  began <- [c \in Calls |-> Period(start[c])],
  out <- [c \in Calls |-> IF Busy(c) THEN "applied" ELSE result[c]]

PromiseSpec == Promise!Spec
================================================================================
