------------------------------ MODULE LoginServer ------------------------------
(***************************************************************************)
(* The one-time login links of src/web/auth_server.py and the callbacks    *)
(* main.py hangs on them.                                                  *)
(*                                                                         *)
(* Two kinds of threads share the table of links.  The event loop serves   *)
(* /splogin, lets links time out and, at the end, terminates the plugin;   *)
(* it does one of these at a time and blocks on a lock like any thread.    *)
(* Each HTTP request of the login page has a worker thread of its own.     *)
(*                                                                         *)
(* The server lock (self._lock) is held across a wait only by              *)
(* get_or_create_session, which takes entry locks under it; an entry lock  *)
(* (entry.lock) is held across a wait only by handle_captcha, which        *)
(* fetches an image under it.  Every other critical section is one step,   *)
(* guarded by the lock being free.                                         *)
(***************************************************************************)
EXTENDS FiniteSets

CONSTANTS
  Users,      \* (user_key, platform) pairs that send /splogin
  Tokens,     \* tokens generate_token may draw: bounds the links created
  Requests,   \* HTTP requests: bounds the worker threads
  None        \* no token, no user

ASSUME NoneIsOther == None \notin Tokens /\ None \notin Users

VARIABLES
  entries,    \* self._entries: the links in the table
  state,      \* entry.state, "unused" before the link exists
  owner,      \* session.user_key and platform
  jar,        \* entry.attempt: "none", or the cookies of its HTTP session
  lapsed,     \* links that somebody found past their expires_at
  timer,      \* main.py: the _expire_login_later task of a link
  tasks,      \* main.py: the keys of _expiry_tasks
  loop,       \* what the event loop is doing
  who,        \* get_or_create_session: the user,
  rest,       \*   the entries it has yet to look at,
  taken,      \*   and those it took out and has yet to close
  watched,    \* terminate: _expiry_tasks when it began to iterate
  pc,         \* where the thread of a request is
  tok,        \* the token in the path of a request
  active,     \* handle_submit: the local `active'
  signed,     \* requests whose form the forum accepted, unless answered "no"
  timedout,   \* links whose user was sent the time-out message
  bound,      \* links whose login was saved to the user table
  down,       \* terminate was called
  shut        \* the form server was shut down

linkVars == <<entries, state, owner, jar, lapsed>>
loopVars == <<timer, tasks, loop, who, rest, taken, watched>>
reqVars  == <<pc, tok, active, signed>>
endVars  == <<timedout, bound, down, shut>>
vars == <<linkVars, loopVars, reqVars, endVars>>

Live == {"awaiting", "submitting"}
Fresh == {t \in Tokens : state[t] = "unused"}

ServerLockFree == loop # "scan"
EntryFree(t) == \A r \in Requests : ~(pc[r] = "fetch" /\ tok[r] = t)

(* entry.attempt: an HTTP session with cookies of its own.                 *)
Open(t) == jar[t] # "none"
EnsureAttempt(t) == jar' = [jar EXCEPT ![t] = IF @ = "none" THEN "open" ELSE @]
CloseAttempt_Never(t) == UNCHANGED jar

CloseAttempt(t) == jar' = [jar EXCEPT ![t] = "none"]

(* What is done under the lock of an entry that was taken.                 *)
Expired(t) == [state EXCEPT ![t] = IF @ = "awaiting" THEN "expired" ELSE @]

--------------------------------------------------------------------------------
(* The event loop: /splogin.                                               *)

(* get_or_create_session has the server lock: expired entries leave the    *)
(* table, those of the user are to be looked at.                           *)
SpLogin(u) ==
  /\ loop = "idle" /\ ~down
  /\ Fresh # {}
  /\ \E late \in SUBSET entries :
       /\ entries \cap lapsed \subseteq late
       /\ lapsed' = lapsed \cup late
       /\ entries' = entries \ late
       /\ taken' = late
       /\ rest' = {t \in entries \ late : owner[t] = u}
  /\ who' = u
  /\ loop' = "scan"
  /\ UNCHANGED <<state, owner, jar, timer, tasks, watched, reqVars, endVars>>

(* Under both locks: a live entry is reused, any other is passed over.     *)
Reusable_Awaiting(t) == state[t] = "awaiting"

Reusable(t) == state[t] \in Live

ScanEntry ==
  /\ loop = "scan"
  /\ \E t \in rest :
       /\ EntryFree(t)
       /\ IF Reusable(t) THEN loop' = "bury" /\ rest' = {}
                         ELSE loop' = loop /\ rest' = rest \ {t}
  /\ UNCHANGED <<linkVars, timer, tasks, who, taken, watched, reqVars, endVars>>

(* No live entry: _create_entry_unlocked, and sp_login arms the expiry.    *)
CreateEntry ==
  /\ loop = "scan" /\ rest = {}
  /\ \E t \in Fresh :
       /\ entries' = entries \cup {t}
       /\ state' = [state EXCEPT ![t] = "awaiting"]
       /\ owner' = [owner EXCEPT ![t] = who]
       /\ timer' = [timer EXCEPT ![t] = "armed"]
       /\ tasks' = tasks \cup {t}
  /\ loop' = "bury"
  /\ UNCHANGED <<jar, lapsed, who, rest, taken, watched, reqVars, endVars>>

(* The server lock released, the expired entries are closed one by one,    *)
(* then sp_login answers with the link, or that a login is in progress.    *)
BuryEntry ==
  /\ loop = "bury"
  /\ \E t \in taken :
       /\ EntryFree(t)
       /\ state' = Expired(t)
       /\ CloseAttempt(t)
       /\ taken' = taken \ {t}
  /\ UNCHANGED <<entries, owner, lapsed, timer, tasks, loop, who, rest, watched, reqVars, endVars>>

SpLoginAnswers_BeforeClosing ==
  /\ loop = "bury"
  /\ loop' = "idle" /\ who' = None
  /\ UNCHANGED <<linkVars, timer, tasks, rest, taken, watched, reqVars, endVars>>

SpLoginAnswers ==
  /\ loop = "bury" /\ taken = {}
  /\ loop' = "idle" /\ who' = None
  /\ UNCHANGED <<linkVars, timer, tasks, rest, taken, watched, reqVars, endVars>>

--------------------------------------------------------------------------------
(* The event loop: expiry and the end.                                     *)

(* _expire_login_later wakes, possibly up to a second before expires_at    *)
(* (the delay is truncated), and expire_session takes the entry.           *)
TimerFires(t) ==
  /\ loop = "idle" /\ timer[t] \in {"armed", "cancelling"}
  /\ timer' = [timer EXCEPT ![t] = "gone"]
  /\ entries' = entries \ {t}
  /\ IF t \in entries THEN loop' = "expire" /\ taken' = {t}
                      ELSE UNCHANGED <<loop, taken>>
  /\ UNCHANGED <<state, owner, jar, lapsed, tasks, who, rest, watched, reqVars, endVars>>

ExpireSession ==
  /\ loop = "expire"
  /\ \E t \in taken :
       /\ EntryFree(t)
       /\ state' = Expired(t)
       /\ CloseAttempt(t)
       /\ timedout' = timedout \cup {t}
  /\ loop' = "idle" /\ taken' = {}
  /\ UNCHANGED <<entries, owner, lapsed, timer, tasks, who, rest, watched, reqVars, bound, down, shut>>

(* The cancellation a callback scheduled reaches the task first.           *)
TimerCancelled(t) ==
  /\ loop = "idle" /\ timer[t] = "cancelling"
  /\ timer' = [timer EXCEPT ![t] = "gone"]
  /\ UNCHANGED <<linkVars, tasks, loop, who, rest, taken, watched, reqVars, endVars>>

(* terminate iterates over _expiry_tasks and cancels each task (those that *)
(* ended need no step) ...                                                 *)
Terminate ==
  /\ loop = "idle" /\ ~down
  /\ down' = TRUE
  /\ loop' = "stop"
  /\ rest' = {t \in tasks : timer[t] # "gone"} /\ watched' = tasks
  /\ UNCHANGED <<linkVars, timer, tasks, who, taken, reqVars, timedout, bound, shut>>

CancelTask_Pops ==
  /\ loop = "stop" /\ tasks = watched
  /\ \E t \in rest :
       /\ timer' = [timer EXCEPT ![t] = "gone"]
       /\ rest' = rest \ {t} /\ tasks' = tasks \ {t}
  /\ UNCHANGED <<linkVars, loop, who, taken, watched, reqVars, endVars>>

CancelTask ==
  /\ loop = "stop" /\ tasks = watched
  /\ \E t \in rest :
       /\ timer' = [timer EXCEPT ![t] = "gone"]
       /\ rest' = rest \ {t}
  /\ UNCHANGED <<linkVars, tasks, loop, who, taken, watched, reqVars, endVars>>

(* ... unless a thread took one out meanwhile: the iteration raises, and   *)
(* neither the other tasks are cancelled nor the form server shut down.    *)
IterationBreaks ==
  /\ loop = "stop" /\ tasks # watched
  /\ loop' = "idle" /\ rest' = {} /\ watched' = {}
  /\ UNCHANGED <<linkVars, timer, tasks, who, taken, reqVars, endVars>>

(* Then shutdown: the table is cleared and its attempts are closed,        *)
(* without the locks of the entries and leaving their states alone.        *)
(* Threads of earlier requests run on.                                     *)
Shutdown ==
  /\ loop = "stop" /\ tasks = watched /\ rest = {}
  /\ tasks' = {} /\ watched' = {}
  /\ entries' = {}
  /\ jar' = [t \in Tokens |-> IF t \in entries THEN "none" ELSE jar[t]]
  /\ shut' = TRUE
  /\ loop' = "idle"
  /\ UNCHANGED <<state, owner, lapsed, timer, who, rest, taken, reqVars, timedout, bound, down>>

--------------------------------------------------------------------------------
(* Requests: do_GET, do_POST, and what they have in common.                *)

Starts(r, t, to) == pc' = [pc EXCEPT ![r] = to] /\ tok' = [tok EXCEPT ![r] = t]
Goes(r, to) == pc' = [pc EXCEPT ![r] = to] /\ UNCHANGED tok
Answer(r) == Starts(r, None, "answered")
Forget(r) == active' = [active EXCEPT ![r] = FALSE] /\ signed' = signed \ {r}

(* _peek_entry on behalf of the login page (then it is answered), the      *)
(* captcha or the form: the entry is read under the server lock, and then  *)
(* the clock, which may have passed expires_at since anybody last looked.  *)
Peek(r, t, next) ==
  /\ pc[r] = "new" /\ ~shut /\ state[t] # "unused"
  /\ ServerLockFree
  /\ \/ /\ t \notin entries
        /\ Answer(r) /\ UNCHANGED lapsed
     \/ /\ t \in entries \ lapsed
        /\ IF next = "answered" THEN Answer(r) ELSE Starts(r, t, next)
        /\ UNCHANGED lapsed
     \/ /\ t \in entries
        /\ Starts(r, t, "late") /\ lapsed' = lapsed \cup {t}
  /\ UNCHANGED <<entries, state, owner, jar, loopVars, active, signed, endVars>>

(* The clock is read a step after the entry (for the page this changes     *)
(* what a late captcha changes, so a page is answered at once).            *)
PeekLate(r) ==
  /\ pc[r] \in {"captcha", "submit"}
  /\ Goes(r, "late") /\ lapsed' = lapsed \cup {tok[r]}
  /\ UNCHANGED <<entries, state, owner, jar, loopVars, active, signed, endVars>>

(* A lapsed link is taken out of the table, if it still is in it ...       *)
PeekTakes(r) ==
  /\ pc[r] = "late" /\ ServerLockFree
  /\ entries' = entries \ {tok[r]}
  /\ Goes(r, "lapsed")
  /\ UNCHANGED <<state, owner, jar, lapsed, loopVars, active, signed, endVars>>

(* ... and marked and closed, whatever its state.                          *)
PeekExpires(r) ==
  LET t == tok[r] IN
  /\ pc[r] = "lapsed" /\ EntryFree(t)
  /\ state' = [state EXCEPT ![t] = "expired"]
  /\ CloseAttempt(t)
  /\ Answer(r)
  /\ UNCHANGED <<entries, owner, lapsed, loopVars, active, signed, endVars>>

(* handle_captcha holds the lock of the entry while it fetches.            *)
FetchCaptcha(r) ==
  LET t == tok[r] IN
  /\ pc[r] = "captcha" /\ EntryFree(t)
  /\ IF state[t] = "awaiting"
       THEN EnsureAttempt(t) /\ Goes(r, "fetch")
       ELSE Answer(r) /\ UNCHANGED jar
  /\ UNCHANGED <<entries, state, owner, lapsed, loopVars, active, signed, endVars>>

CaptchaFetched_TakesEntry(r) ==
  /\ pc[r] = "fetch" /\ ServerLockFree
  /\ entries' = entries \ {tok[r]}
  /\ Answer(r)
  /\ UNCHANGED <<state, owner, jar, lapsed, loopVars, active, signed, endVars>>

CaptchaFetched(r) ==
  /\ pc[r] = "fetch"
  /\ Answer(r)
  /\ UNCHANGED <<linkVars, loopVars, active, signed, endVars>>

(* POST /cancel: cancel_session.                                           *)
CancelTake(r, t) ==
  /\ pc[r] = "new" /\ ~shut /\ state[t] # "unused"
  /\ ServerLockFree
  /\ entries' = entries \ {t}
  /\ IF t \in entries THEN Starts(r, t, "cancel") ELSE Answer(r)
  /\ UNCHANGED <<state, owner, jar, lapsed, loopVars, active, signed, endVars>>

CancelSession(r) ==
  LET t == tok[r] IN
  /\ pc[r] = "cancel" /\ EntryFree(t)
  /\ state' = [state EXCEPT ![t] = "cancelled"]
  /\ CloseAttempt(t)
  /\ Goes(r, "cancelled")
  /\ UNCHANGED <<entries, owner, lapsed, loopVars, active, signed, endVars>>

--------------------------------------------------------------------------------
(* Requests: handle_submit.                                                *)

Submittable_Unchecked(t) == TRUE

Submittable(t) == state[t] = "awaiting"

Submit(r) ==
  LET t == tok[r] IN
  /\ pc[r] = "submit" /\ EntryFree(t)
  /\ IF Submittable(t)
       THEN /\ state' = [state EXCEPT ![t] = "submitting"]
            /\ EnsureAttempt(t)
            /\ Goes(r, "network")
       ELSE Answer(r) /\ UNCHANGED <<state, jar>>
  /\ UNCHANGED <<entries, owner, lapsed, loopVars, active, signed, endVars>>

(* SouthPlusLoginAttempt.submit: the forum takes the form and sends login  *)
(* cookies, which the jar of the attempt keeps also when the rest of the   *)
(* answer is lost.                                                         *)
SiteAccepts(r) ==
  LET t == tok[r] IN
  /\ pc[r] = "network"
  /\ signed' = signed \cup {r}
  /\ jar' = [jar EXCEPT ![t] = IF @ = "none" THEN @ ELSE "signed"]
  /\ Goes(r, "posted")
  /\ UNCHANGED <<entries, state, owner, lapsed, loopVars, active, endVars>>

(* The attempt raised (refused, or the answer lost): the form may be sent  *)
(* again, with the same attempt.                                           *)
SubmitFails(r) ==
  LET t == tok[r] IN
  /\ pc[r] \in {"network", "posted"} /\ EntryFree(t)
  /\ state' = [state EXCEPT ![t] = IF @ = "submitting" THEN "awaiting" ELSE @]
  /\ Forget(r) /\ Answer(r)
  /\ UNCHANGED <<entries, owner, jar, lapsed, loopVars, endVars>>

(* _has_phpwind_login_cookie looks into the jar, not at the answer.  (When *)
(* an attempt is closed under a request, its link has left the table:      *)
(* earlier cookies, still in the jar, would not get it accepted.)          *)
HasLoginCookie(r) == pc[r] = "posted" \/ jar[tok[r]] = "signed"

(* The attempt returned: is the entry still in the table?  What is found   *)
(* is used after the server lock was released.                             *)
SubmitReturns(r) ==
  /\ pc[r] \in {"network", "posted"} /\ ServerLockFree
  /\ HasLoginCookie(r)
  /\ active' = [active EXCEPT ![r] = tok[r] \in entries]
  /\ Goes(r, "returned")
  /\ UNCHANGED <<linkVars, loopVars, signed, endVars>>

Acceptable_ActiveOnly(r) == active[r]
Acceptable_StateOnly(r)  == state[tok[r]] = "submitting"

Acceptable(r) == active[r] /\ state[tok[r]] = "submitting"

Accept(r) ==
  LET t == tok[r] IN
  /\ pc[r] = "returned" /\ EntryFree(t)
  /\ IF Acceptable(r)
       THEN /\ state' = [state EXCEPT ![t] = "done"]
            /\ Goes(r, "accepted") /\ UNCHANGED <<jar, active, signed>>
       ELSE CloseAttempt(t) /\ Forget(r) /\ Answer(r) /\ UNCHANGED state
  /\ UNCHANGED <<entries, owner, lapsed, loopVars, endVars>>

(* _handle_login_success, in this thread: the expiry task is asked to      *)
(* cancel, then the profile is fetched and the login saved.                *)
CancelExpiryTask(r) ==
  LET t == tok[r] IN
  /\ pc[r] = "accepted"
  /\ tasks' = tasks \ {t}
  /\ timer' = [timer EXCEPT ![t] = IF t \in tasks /\ @ = "armed" THEN "cancelling" ELSE @]
  /\ Goes(r, "profile")
  /\ UNCHANGED <<linkVars, loop, who, rest, taken, watched, active, signed, endVars>>

(* It may also fail, or raise; the finally block runs in each case.        *)
HandleLoginSuccess(r) ==
  /\ pc[r] = "profile"
  /\ \/ bound' = bound \cup {tok[r]}
     \/ UNCHANGED bound
  /\ Goes(r, "finally")
  /\ UNCHANGED <<linkVars, loopVars, active, signed, timedout, down, shut>>

TakeEntry_NotOnFailure(r) ==
  /\ pc[r] = "finally" /\ ServerLockFree
  /\ entries' = IF tok[r] \in bound THEN entries \ {tok[r]} ELSE entries
  /\ Goes(r, "close")
  /\ UNCHANGED <<state, owner, jar, lapsed, loopVars, active, signed, endVars>>

TakeEntry(r) ==
  /\ pc[r] = "finally" /\ ServerLockFree
  /\ entries' = entries \ {tok[r]}
  /\ Goes(r, "close")
  /\ UNCHANGED <<state, owner, jar, lapsed, loopVars, active, signed, endVars>>

CloseEntry(r) ==
  /\ pc[r] = "close" /\ EntryFree(tok[r])
  /\ CloseAttempt(tok[r])
  /\ Goes(r, "loggedin")
  /\ UNCHANGED <<entries, state, owner, lapsed, loopVars, active, signed, endVars>>

--------------------------------------------------------------------------------
Init ==
  /\ entries = {} /\ lapsed = {}
  /\ state = [t \in Tokens |-> "unused"]
  /\ owner = [t \in Tokens |-> None]
  /\ jar = [t \in Tokens |-> "none"]
  /\ timer = [t \in Tokens |-> "none"] /\ tasks = {}
  /\ loop = "idle" /\ who = None /\ rest = {} /\ taken = {} /\ watched = {}
  /\ pc = [r \in Requests |-> "new"]
  /\ tok = [r \in Requests |-> None]
  /\ active = [r \in Requests |-> FALSE]
  /\ signed = {} /\ timedout = {} /\ bound = {}
  /\ down = FALSE /\ shut = FALSE

LoopStep ==
  \/ ScanEntry \/ CreateEntry \/ BuryEntry \/ SpLoginAnswers
  \/ ExpireSession
  \/ CancelTask \/ IterationBreaks \/ Shutdown

RequestStep(r) ==
  \/ PeekLate(r) \/ PeekTakes(r) \/ PeekExpires(r) \/ FetchCaptcha(r)
  \/ CaptchaFetched(r) \/ CancelSession(r)
  \/ Submit(r) \/ SiteAccepts(r) \/ SubmitFails(r) \/ SubmitReturns(r) \/ Accept(r)
  \/ CancelExpiryTask(r) \/ HandleLoginSuccess(r) \/ TakeEntry(r) \/ CloseEntry(r)

Next ==
  \/ \E u \in Users : SpLogin(u)
  \/ LoopStep \/ Terminate
  \/ \E t \in Tokens : TimerFires(t) \/ TimerCancelled(t)
  \/ \E r \in Requests, t \in Tokens :
       CancelTake(r, t) \/ \E next \in {"answered", "captcha", "submit"} : Peek(r, t, next)
  \/ \E r \in Requests : RequestStep(r)

(* Threads run, locks are handed on, and requests to the forum end (httpx  *)
(* times out).  asyncio runs ready handles in the order they became ready, *)
(* so a timer that is due is not overtaken for ever: strong fairness.      *)
Fairness ==
  /\ WF_vars(LoopStep)
  /\ \A t \in Tokens : SF_vars(TimerFires(t) \/ TimerCancelled(t))
  /\ \A r \in Requests : WF_vars(RequestStep(r))

Spec == Init /\ [][Next]_vars
FairSpec == Spec /\ Fairness

--------------------------------------------------------------------------------
(* Properties.                                                             *)

(* Every variable keeps to its set of values, and the locals of the event  *)
(* loop are unset when it is idle.                                         *)
LinksOK ==
  /\ entries \subseteq Tokens /\ lapsed \subseteq Tokens
  /\ state \in [Tokens -> Live \cup {"unused", "done", "expired", "cancelled"}]
  /\ owner \in [Tokens -> Users \cup {None}]
  /\ jar \in [Tokens -> {"none", "open", "signed"}]

LoopOK ==
  /\ timer \in [Tokens -> {"none", "armed", "cancelling", "gone"}]
  /\ tasks \subseteq Tokens /\ watched \subseteq Tokens
  /\ loop \in {"idle", "scan", "bury", "expire", "stop"}
  /\ who \in Users \cup {None} /\ rest \subseteq Tokens /\ taken \subseteq Tokens
  /\ loop \notin {"scan", "bury"} => who = None
  /\ loop \in {"idle", "stop"} => taken = {}
  /\ loop = "scan" => rest \subseteq entries
  /\ loop \notin {"scan", "stop"} => rest = {}
  /\ loop # "stop" => watched = {}

RequestsOK ==
  /\ pc \in [Requests -> {"new", "late", "lapsed", "captcha", "fetch", "cancel", "submit",
                          "network", "posted", "returned", "accepted", "profile", "finally",
                          "close", "answered", "cancelled", "loggedin"}]
  /\ tok \in [Requests -> Tokens \cup {None}]
  /\ \A r \in Requests : tok[r] = None <=> pc[r] \in {"new", "answered"}
  /\ signed \subseteq Requests

TypeOK ==
  /\ LinksOK /\ LoopOK /\ RequestsOK
  /\ active \in [Requests -> BOOLEAN]
  /\ timedout \subseteq Tokens /\ bound \subseteq Tokens
  /\ down \in BOOLEAN /\ shut \in BOOLEAN

InFlight(r) == pc[r] \in {"network", "posted", "returned"}
Accepted(r) == pc[r] \in {"accepted", "profile", "finally", "close", "loggedin"}
AcceptedFor(t) == \E r \in Requests : tok[r] = t /\ Accepted(r)
CancelledFor(t) == \E r \in Requests : tok[r] = t /\ pc[r] = "cancelled"

(* A user on one platform never has two links that can be logged in with.  *)
OneLiveLink ==
  \A t, u \in entries :
    state[t] \in Live /\ state[u] \in Live /\ owner[t] = owner[u] => t = u

(* The form of a link is sent to the forum by one thread at a time, and a  *)
(* link is accepted once: two clicks never log in twice.  No captcha is    *)
(* fetched meanwhile: the attempt is used by one thread at a time.         *)
OneSubmission ==
  \A q, r \in Requests :
    /\ q # r /\ tok[q] = tok[r]
    /\ InFlight(q) \/ Accepted(q)
    => ~InFlight(r) /\ ~Accepted(r) /\ pc[r] # "fetch"

(* The links keep the promise of OneTimeLinks: in the table and live, or   *)
(* out of it while the submission that found it there has yet to look at   *)
(* its state, or accepted for good, or dead for good.                      *)
InPlay(t) == t \in entries /\ state[t] \in Live
Racing(t) == /\ state[t] = "submitting"
             /\ \E r \in Requests : tok[r] = t /\ pc[r] = "returned" /\ active[r]

Phase(t) ==
  IF AcceptedFor(t) THEN "accepted"
  ELSE IF InPlay(t) THEN "live"
  ELSE IF Racing(t) THEN "racing"
  ELSE IF state[t] = "unused" THEN "unused" ELSE "dead"

Links == INSTANCE OneTimeLinks
           WITH Links <- Tokens, phase <- [t \in Tokens |-> Phase(t)],
                cancelled <- {t \in Tokens : CancelledFor(t)}

LinksSpec == Links!Spec

(* Once the user was told that the link timed out, and no submission had   *)
(* found the link in the table before, its login is never accepted.        *)
Doomed(t) ==
  /\ t \in timedout /\ ~AcceptedFor(t)
  /\ \A r \in Requests : ~(tok[r] = t /\ pc[r] = "returned" /\ active[r])

TimeoutStopsSubmission == [][\A t \in Tokens : Doomed(t) => Doomed(t)']_vars

(* Somebody still holds the link and will close its attempt.               *)
Kept(t) ==
  \/ t \in entries \cup taken
  \/ \E r \in Requests :
       /\ tok[r] = t
       /\ pc[r] \in {"late", "lapsed", "cancel", "network", "posted", "returned",
                     "accepted", "profile", "finally", "close"}

(* An HTTP session with the forum is left open only where a request that   *)
(* had seen the link in the table reopens it after the link was taken out  *)
(* and closed by expiry, or by the end, without its state being final.     *)
AttemptsAreKept ==
  \A t \in Tokens :
    Open(t) /\ ~Kept(t) => state[t] = "awaiting" /\ (shut \/ t \in lapsed \cup timedout)

(* Terminating the plugin shuts the form server down and leaves no task    *)
(* armed, unless a login was accepted meanwhile: the worker thread takes a *)
(* task out of the dictionary terminate iterates over.                     *)
StopIsComplete ==
  down /\ loop = "idle"
    => \/ shut /\ \A t \in Tokens : timer[t] # "armed"
       \/ \E r \in Requests : Accepted(r)

(* _conf_schema.json:29, docs/dev/security.md:8: an expired link is dead   *)
(* and the user is told; so no login is saved after the user was told.     *)
ExpiredLinkIsDead == [][\A t \in timedout : t \in bound' => t \in bound]_vars

(* docs/dev/security.md:11: no failure is passed off as a success.  The    *)
(* page says that the login succeeded and is saved only when the forum     *)
(* accepted this form and the login is in the user table.                  *)
NoFailureAsSuccess ==
  \A r \in Requests : pc[r] = "loggedin" => r \in signed /\ tok[r] \in bound

(* Nobody waits for a lock for ever: every request is answered, and the    *)
(* event loop is never stuck in the login server.                          *)
NobodyWaitsForEver ==
  /\ \A r \in Requests : pc[r] # "new" ~> pc[r] \in {"answered", "cancelled", "loggedin"}
  /\ loop # "idle" ~> loop = "idle"

(* Every link leaves the table, by login, cancellation or expiry, also     *)
(* when the callback has cancelled the expiry task and then failed; all    *)
(* but those whose tasks a broken terminate had cancelled.                 *)
Broken == down /\ loop # "stop" /\ ~shut
LinksEnd == \A t \in Tokens : t \in entries ~> t \notin entries \/ Broken
================================================================================
