--------------------------- MODULE CheckinScheduler ---------------------------
(***************************************************************************)
(* Check-in runs of src/core/checkin_scheduler.py: cron ticks and          *)
(* /spallcheckin start one run per user, concurrent callers of one user    *)
(* share a run through _checkin_inflight, an asyncio.Semaphore bounds how  *)
(* many runs are on the network, and each run consults and fills the       *)
(* checkin_record table.  /spcheckin (main.py) does the same work beside   *)
(* the scheduler: no sharing, no semaphore.                                *)
(*                                                                         *)
(* The event loop runs one coroutine segment at a time, so an action is    *)
(* the code between two awaits; the service runs in a worker thread        *)
(* (asyncio.to_thread), whose steps interleave with everything.            *)
(*                                                                         *)
(* A caller is one firing of a job, or one /spallcheckin; it gathers one   *)
(* waiter <<caller, uid>> per user.  The waiter that creates the shared    *)
(* task owns it, and gives it its name: a job is a waiter, or one          *)
(* /spcheckin <<command, uid>>.                                            *)
(***************************************************************************)
EXTENDS Naturals, FiniteSets, ServicePromise

CONSTANTS
  Ticks,         \* firings of APScheduler jobs
  AllCommands,   \* /spallcheckin commands
  Spcheckins,    \* /spcheckin commands
  Uids,          \* bound South Plus accounts
  Tasks,         \* the check-in tasks, both or (in small instances) one
  MaxDay,        \* the last day of the model
  WeekOf,        \* the ISO week of a day
  Concurrency,   \* auto_checkin_concurrency
  MaxCrash,      \* how often the process may die
  Legacy,        \* records whose success an older release wrote wrongly
  None           \* no task in _checkin_inflight, no task awaited

Callers  == Ticks \cup AllCommands
Waiters  == Callers \X Uids
Manuals  == Spcheckins \X Uids
Jobs     == Waiters \cup Manuals
Days     == 0 .. MaxDay
Slots    == Uids \X Tasks \X Days      \* UNIQUE(sp_uid, task_key, period_key)
Keys     == Uids \X Days               \* keys of _checkin_inflight
Outcomes == Status \cup {"none", "applied", "raised"}

ASSUME ConstantsAssumption ==
  /\ MaxDay \in Nat /\ MaxCrash \in Nat
  /\ WeekOf \in [Days -> Days]
  /\ \A d, e \in Days : d <= e => WeekOf[d] <= WeekOf[e]
  /\ Concurrency \in Nat \ {0}
  /\ Tasks \subseteq {"daily", "weekly"} /\ Tasks # {}
  /\ Legacy \subseteq Slots
  /\ Ticks \cap AllCommands = {}
  /\ Spcheckins \cap Callers = {}
  /\ None \notin Waiters
  /\ IsFiniteSet(Callers) /\ IsFiniteSet(Uids)

VARIABLES
  day,         \* the calendar day in UTC+8
  running,     \* the AsyncIOScheduler is started
  cpc,         \* where a caller is
  wpc,         \* where a waiter is
  ride,        \* the shared task a waiter awaits
  kday,        \* the day in the key a waiter computed
  inflight,    \* _checkin_inflight
  st,          \* state of a job
  cancelreq,   \* shared tasks asked to cancel
  today,       \* the day a job computed its period keys for
  plan,        \* the tasks a job sends to the service
  todo,        \* the tasks its worker thread has not finished
  out,         \* the outcome of each task of a job
  permits,     \* free permits of the semaphore
  record,      \* checkin_record: the status of each slot
  collected,   \* the site: slots whose reward was handed out
  crashes      \* how often the process died

callerVars == <<running, cpc>>
waitVars   == <<wpc, ride, kday, inflight>>
jobVars    == <<st, today, plan, todo, out>>
worldVars  == <<day, collected, crashes>>
vars == <<callerVars, waitVars, jobVars, cancelreq, permits, record, worldVars>>

--------------------------------------------------------------------------------
(* Periods and the cache.                                                  *)

Period(t, d) == IF t = "daily" THEN d ELSE WeekOf[d]
Slot(u, t, d) == <<u, t, Period(t, d)>>

Trusted_StaleToo == {"success", "already_done", "stale"}

(* _genuine_cache_status: a success whose message carries a marker of an   *)
(* older release ("stale") is not trusted.                                 *)
Trusted == {"success", "already_done"}
Genuine(s) == record[s] \in Trusted

CollectedPeriods(u, t) == {p \in Days : <<u, t, p>> \in collected}

WaitersOf(c) == {w \in Waiters : w[1] = c /\ wpc[w] # "none"}
Raised(c) == \E w \in WaitersOf(c) : wpc[w] \in {"error", "cancelled"}
Ended == {"result", "error", "cancelled"}      \* of a waiter
Final == {"done", "error", "cancelled"}        \* of a job
Live(j) == st[j] \in {"ready", "calling"}

--------------------------------------------------------------------------------
(* Callers.                                                                *)

(* A set of users is gathered: one coroutine each, none has run yet.       *)
Gather(c, users) ==
  /\ cpc[c] = "idle"
  /\ cpc' = [cpc EXCEPT ![c] = "gather"]
  /\ wpc' = [w \in Waiters |->
               IF w[1] = c /\ w[2] \in users THEN "start" ELSE wpc[w]]

(* _tick_for_key: users are whatever _collect_tick_users returned; with    *)
(* none the tick returns at once.                                          *)
TickForKey(c) ==
  /\ c \in Ticks /\ running
  /\ \E users \in SUBSET Uids \ {{}} : Gather(c, users)
  /\ UNCHANGED <<running, ride, kday, inflight, jobVars, cancelreq, permits,
                 record, worldVars>>

(* run_all_checkins: every bound account.                                  *)
RunAllCheckins(c) ==
  /\ c \in AllCommands
  /\ Gather(c, Uids)
  /\ UNCHANGED <<running, ride, kday, inflight, jobVars, cancelreq, permits,
                 record, worldVars>>

(* asyncio.gather has every result: a tick goes on to push its report,     *)
(* /spallcheckin answers.                                                  *)
GatherDone(c) ==
  /\ cpc[c] = "gather"
  /\ \A w \in WaitersOf(c) : wpc[w] = "result"
  /\ cpc' = [cpc EXCEPT ![c] = IF c \in Ticks THEN "push" ELSE "finished"]
  /\ UNCHANGED <<running, waitVars, jobVars, cancelreq, permits, record, worldVars>>

(* The first waiter that raises ends the gather; the others run on.        *)
GatherRaises(c) ==
  /\ cpc[c] = "gather" /\ Raised(c)
  /\ cpc' = [cpc EXCEPT ![c] = "failed"]
  /\ UNCHANGED <<running, waitVars, jobVars, cancelreq, permits, record, worldVars>>

(* A cancelled gather waits for all its waiters.                           *)
GatherCancelled(c) ==
  /\ cpc[c] = "cancelling"
  /\ \A w \in WaitersOf(c) : wpc[w] \in Ended
  /\ cpc' = [cpc EXCEPT ![c] = "cancelled"]
  /\ UNCHANGED <<running, waitVars, jobVars, cancelreq, permits, record, worldVars>>

(* _push_report: a failed send is logged and swallowed.                    *)
PushReport(c) ==
  /\ cpc[c] = "push"
  /\ cpc' = [cpc EXCEPT ![c] = "finished"]
  /\ UNCHANGED <<running, waitVars, jobVars, cancelreq, permits, record, worldVars>>

(* stop: AsyncIOScheduler.shutdown cancels the ticks that are running.  A  *)
(* cancelled gather cancels its waiters, and a waiter cancelled in         *)
(* `await task' cancels the shared task, whoever else awaits it.  A gather *)
(* that has already raised cancels nobody any more.                        *)
Stop ==
  LET hit == {c \in Ticks : cpc[c] = "gather" /\ ~Raised(c)} IN
  /\ running
  /\ running' = FALSE
  /\ cpc' = [c \in Callers |->
               IF c \in hit THEN "cancelling"
               ELSE IF c \in Ticks /\ cpc[c] = "push" THEN "cancelled"
               ELSE cpc[c]]
  /\ cancelreq' = cancelreq \cup
       {j \in Waiters : Live(j) /\ \E w \in Waiters :
                          w[1] \in hit /\ wpc[w] = "await" /\ ride[w] = j}
  /\ UNCHANGED <<waitVars, jobVars, permits, record, worldVars>>

--------------------------------------------------------------------------------
(* Waiters: _checkin_user.                                                 *)

RunningTask_NotConsulted(key) == None

RunningTask(key) == inflight[key]

(* Under _checkin_inflight_lock, without an await: take the task of the    *)
(* key, or create it and become its owner.                                 *)
CheckinUser(w) ==
  LET key == <<w[2], day>>
      task == RunningTask(key)
  IN
  /\ wpc[w] = "start"
  /\ cpc[w[1]] # "cancelling"
  /\ wpc' = [wpc EXCEPT ![w] = "await"]
  /\ kday' = [kday EXCEPT ![w] = day]
  /\ IF task = None
       THEN /\ inflight' = [inflight EXCEPT ![key] = w]
            /\ ride' = [ride EXCEPT ![w] = w]
            /\ st' = [st EXCEPT ![w] = "ready"]
       ELSE /\ ride' = [ride EXCEPT ![w] = task]
            /\ UNCHANGED <<inflight, st>>
  /\ UNCHANGED <<callerVars, today, plan, todo, out, cancelreq, permits, record,
                 worldVars>>

(* A waiter cancelled before its first step never runs.                    *)
NeverStarted(w) ==
  /\ wpc[w] = "start"
  /\ cpc[w[1]] = "cancelling"
  /\ wpc' = [wpc EXCEPT ![w] = "cancelled"]
  /\ UNCHANGED <<callerVars, ride, kday, inflight, jobVars, cancelreq, permits,
                 record, worldVars>>

(* The finally block: the owner removes the entry if it still is its task. *)
KeyOf(w) == <<w[2], kday[w]>>

Popped_OnlyOnSuccess(w) ==
  IF ride[w] = w /\ inflight[KeyOf(w)] = w /\ st[w] = "done"
    THEN [inflight EXCEPT ![KeyOf(w)] = None] ELSE inflight
Popped_ByAnyWaiter(w) ==
  IF inflight[KeyOf(w)] = ride[w]
    THEN [inflight EXCEPT ![KeyOf(w)] = None] ELSE inflight

Popped(w) ==
  IF ride[w] = w /\ inflight[KeyOf(w)] = w
    THEN [inflight EXCEPT ![KeyOf(w)] = None] ELSE inflight

(* The shared task ended: `await task' returns or raises.                  *)
AwaitEnds(w) ==
  /\ wpc[w] = "await"
  /\ st[ride[w]] \in Final
  /\ wpc' = [wpc EXCEPT ![w] =
               IF cpc[w[1]] = "cancelling" THEN "cancelled"
               ELSE IF st[ride[w]] = "done" THEN "result" ELSE st[ride[w]]]
  /\ inflight' = Popped(w)
  /\ UNCHANGED <<callerVars, ride, kday, jobVars, cancelreq, permits, record,
                 worldVars>>

--------------------------------------------------------------------------------
(* Jobs: _checkin_user_once and _do_checkin_both, and /spcheckin.          *)

Missing_CacheIgnored(j) == Tasks

Missing(j) == {t \in Tasks : ~Genuine(Slot(j[2], t, day))}

Prepare_CachedStatusLost(j) ==
  LET missing == Missing(j) IN
  /\ today' = [today EXCEPT ![j] = IF missing = {} THEN 0 ELSE day]
  /\ plan' = [plan EXCEPT ![j] = missing]
  /\ todo' = [todo EXCEPT ![j] = missing]
  /\ out' = [out EXCEPT ![j] = [t \in Tasks |-> "none"]]
  /\ st' = [st EXCEPT ![j] = IF missing = {} THEN "done" ELSE "calling"]

(* Today's cached statuses decide what to send to the service; the day is  *)
(* read here, not where the key was computed.                              *)
Prepare(j) ==
  LET missing == Missing(j) IN
  /\ today' = [today EXCEPT ![j] = IF missing = {} THEN 0 ELSE day]
  /\ plan' = [plan EXCEPT ![j] = missing]
  /\ todo' = [todo EXCEPT ![j] = missing]
  /\ out' = [out EXCEPT ![j] =
               [t \in Tasks |-> IF t \in missing THEN "none"
                                ELSE record[Slot(j[2], t, day)]]]
  /\ st' = [st EXCEPT ![j] = IF missing = {} THEN "done" ELSE "calling"]

(* The semaphore is taken; a run with nothing to do gives it back at once. *)
DoCheckinBoth(j) ==
  /\ j \in Waiters /\ st[j] = "ready" /\ j \notin cancelreq
  /\ permits > 0
  /\ Prepare(j)
  /\ permits' = IF st'[j] = "calling" THEN permits - 1 ELSE permits
  /\ UNCHANGED <<callerVars, waitVars, cancelreq, record, worldVars>>

(* /spcheckin: the same cache check, straight into its own thread.         *)
SpCheckin(j) ==
  /\ j \in Manuals /\ st[j] = "none"
  /\ Prepare(j)
  /\ UNCHANGED <<callerVars, waitVars, cancelreq, permits, record, worldVars>>

(* CheckinService.checkin runs the daily task first.                       *)
Current(j) == IF "daily" \in todo[j] THEN "daily" ELSE "weekly"

ServiceApply(j) ==
  LET t == Current(j)  u == j[2] IN
  /\ todo[j] # {} /\ out[j][t] = "none"
  /\ \E o \in ApplyOutcomes(CollectedPeriods(u, t), Period(t, day)) :
       /\ out' = [out EXCEPT ![j][t] = o]
       /\ todo' = [todo EXCEPT ![j] = IF o = "applied" THEN @ ELSE @ \ {t}]
  /\ UNCHANGED <<callerVars, waitVars, st, today, plan, cancelreq, permits,
                 record, worldVars>>

ServiceCollect(j) ==
  LET t == Current(j)  u == j[2] IN
  /\ todo[j] # {} /\ out[j][t] = "applied"
  /\ \E o \in CollectOutcomes(CollectedPeriods(u, t), Period(t, today[j]), Period(t, day)) :
       /\ out' = [out EXCEPT ![j][t] = o[1]]
       /\ collected' = collected \cup {<<u, t, p>> : p \in o[2]}
  /\ todo' = [todo EXCEPT ![j] = @ \ {t}]
  /\ UNCHANGED <<callerVars, waitVars, st, today, plan, cancelreq, permits,
                 record, day, crashes>>

(* The call itself raises (an empty cookie): no task was tried.  The       *)
(* /spcheckin command has looked at the cookie before.                     *)
ServiceRaises(j) ==
  /\ j \in Waiters /\ st[j] = "calling" /\ todo[j] = plan[j]
  /\ \A t \in plan[j] : out[j][t] = "none"
  /\ todo' = [todo EXCEPT ![j] = {}]
  /\ out' = [out EXCEPT ![j] =
               [t \in Tasks |-> IF t \in plan[j] THEN "raised" ELSE @[t]]]
  /\ UNCHANGED <<callerVars, waitVars, st, today, plan, cancelreq, permits,
                 record, worldVars>>

(* The thread is back: write a record per task that was run and report.    *)
(* Writing may fail after any prefix; nothing catches it inside a run, nor *)
(* in /spcheckin.                                                          *)
Answered_SuccessOnly(j) == {t \in plan[j] : out[j][t] = "success"}

Answered(j) == {t \in plan[j] : out[j][t] \in Status}

Write_PeriodAtReturn(j, ts) ==
  record' = [s \in Slots |->
               IF \E t \in ts : s = Slot(j[2], t, day)
                 THEN out[j][s[2]] ELSE record[s]]
Write_ResultsSwapped(j, ts) ==
  record' = [s \in Slots |->
               IF \E t \in ts : s = Slot(j[2], t, today[j])
                 THEN out[j][CHOOSE t \in Tasks : t # s[2]] ELSE record[s]]

Write(j, ts) ==
  record' = [s \in Slots |->
               IF \E t \in ts : s = Slot(j[2], t, today[j])
                 THEN out[j][s[2]] ELSE record[s]]

Leave(j, state) ==        \* the locals of the coroutine are gone
  /\ st' = [st EXCEPT ![j] = state]
  /\ today' = [today EXCEPT ![j] = 0]
  /\ plan' = [plan EXCEPT ![j] = {}]

Return(j, state) ==
  /\ Leave(j, state)
  /\ permits' = IF j \in Waiters THEN permits + 1 ELSE permits
  /\ UNCHANGED <<callerVars, waitVars, todo, out, cancelreq, worldVars>>

CanReturn(j) == st[j] = "calling" /\ todo[j] = {} /\ j \notin cancelreq

RecordAndReturn(j) ==
  /\ CanReturn(j)
  /\ Write(j, Answered(j))
  /\ Return(j, "done")

RecordFails(j) ==
  /\ CanReturn(j)
  /\ Answered(j) # {}
  /\ \E ts \in {{}, {"daily"}} :
       /\ ts \subseteq Answered(j) /\ ts # Answered(j)
       /\ Write(j, ts)
  /\ Return(j, "error")

HoldsPermit_Never(j)  == FALSE
HoldsPermit_Always(j) == TRUE

HoldsPermit(j) == st[j] = "calling"

(* A cancelled task gives its permit back; its thread runs on.             *)
TaskCancelled(j) ==
  /\ j \in cancelreq /\ Live(j)
  /\ Leave(j, "cancelled")
  /\ permits' = IF HoldsPermit(j) THEN permits + 1 ELSE permits
  /\ UNCHANGED <<callerVars, waitVars, todo, out, cancelreq, record, worldVars>>

--------------------------------------------------------------------------------
(* Reports.                                                                *)

(* _build_report_stats over the results of a gather: for each task how     *)
(* many accounts signed in, had been signed in, and failed; whoever failed *)
(* in a task is mentioned, the others are counted as completed.            *)
Failures == {"failed", "raised"}
Tally(c, t, os) == Cardinality({w \in WaitersOf(c) : out[ride[w]][t] \in os})

ReportStats(c) ==
  LET failed == {w \in WaitersOf(c) : \E t \in Tasks : out[ride[w]][t] \in Failures}
      other  == Outcomes \ (Failures \cup {"already_done", "none"})
  IN  [total     |-> Cardinality(WaitersOf(c)),
       ok        |-> [t \in Tasks |-> Tally(c, t, other)],
       skip      |-> [t \in Tasks |-> Tally(c, t, {"already_done"})],
       fail      |-> [t \in Tasks |-> Tally(c, t, Failures)],
       failed    |-> failed,
       completed |-> WaitersOf(c) \ failed]

--------------------------------------------------------------------------------
(* The world.                                                              *)

Midnight ==
  /\ day < MaxDay
  /\ day' = day + 1
  /\ UNCHANGED <<callerVars, waitVars, jobVars, cancelreq, permits, record,
                 collected, crashes>>

(* The user signs in on the website.                                       *)
SignedElsewhere(u, t) ==
  /\ Slot(u, t, day) \notin collected
  /\ collected' = collected \cup {Slot(u, t, day)}
  /\ UNCHANGED <<callerVars, waitVars, jobVars, cancelreq, permits, record, day,
                 crashes>>

(* The process dies and is started again: memory and threads are gone, the *)
(* database and the site remain.                                           *)
Crash ==
  /\ crashes < MaxCrash
  /\ crashes' = crashes + 1
  /\ running' = TRUE
  /\ cpc' = [c \in Callers |->
               IF cpc[c] \in {"gather", "cancelling", "push"} THEN "cancelled" ELSE cpc[c]]
  /\ wpc' = [w \in Waiters |->
               IF wpc[w] \in {"start", "await"} THEN "cancelled" ELSE wpc[w]]
  /\ inflight' = [k \in Keys |-> None]
  /\ st' = [j \in Jobs |-> IF Live(j) THEN "cancelled" ELSE st[j]]
  /\ todo' = [j \in Jobs |-> {}]
  /\ today' = [j \in Jobs |-> 0]
  /\ plan' = [j \in Jobs |-> {}]
  /\ permits' = Concurrency
  /\ cancelreq' = {}
  /\ UNCHANGED <<ride, kday, out, record, day, collected>>

--------------------------------------------------------------------------------
Init ==
  /\ day = 0 /\ crashes = 0 /\ running = TRUE
  /\ cpc = [c \in Callers |-> "idle"]
  /\ wpc = [w \in Waiters |-> "none"]
  /\ ride = [w \in Waiters |-> None]
  /\ kday = [w \in Waiters |-> 0]
  /\ inflight = [k \in Keys |-> None]
  /\ st = [j \in Jobs |-> "none"]
  /\ cancelreq = {}
  /\ today = [j \in Jobs |-> 0]
  /\ plan = [j \in Jobs |-> {}]
  /\ todo = [j \in Jobs |-> {}]
  /\ out = [j \in Jobs |-> [t \in Tasks |-> "none"]]
  /\ permits = Concurrency
  /\ record = [s \in Slots |-> IF s \in Legacy THEN "stale" ELSE "none"]
  /\ collected = {}

(* What the event loop and the worker threads do of their own accord.      *)
CallerStep(c) == GatherDone(c) \/ GatherRaises(c) \/ GatherCancelled(c) \/ PushReport(c)
WaiterStep(w) == CheckinUser(w) \/ NeverStarted(w) \/ AwaitEnds(w)
ThreadStep(j) == ServiceApply(j) \/ ServiceCollect(j) \/ ServiceRaises(j)
JobStep(j)    == DoCheckinBoth(j) \/ RecordAndReturn(j) \/ RecordFails(j) \/ TaskCancelled(j)

Next ==
  \/ \E c \in Callers : TickForKey(c) \/ RunAllCheckins(c) \/ CallerStep(c)
  \/ \E w \in Waiters : WaiterStep(w)
  \/ \E j \in Jobs : ThreadStep(j) \/ JobStep(j) \/ SpCheckin(j)
  \/ \E u \in Uids, t \in Tasks : SignedElsewhere(u, t)
  \/ Stop \/ Midnight \/ Crash

(* The loop resumes what is ready, and every request of a thread ends      *)
(* (httpx times out); nothing makes jobs fire or users send commands.      *)
Fairness ==
  /\ \A c \in Callers : WF_vars(CallerStep(c))
  /\ \A w \in Waiters : WF_vars(WaiterStep(w))
  /\ \A j \in Jobs : WF_vars(ThreadStep(j)) /\ WF_vars(JobStep(j))

Spec == Init /\ [][Next]_vars
FairSpec == Spec /\ Fairness

--------------------------------------------------------------------------------
(* Properties.                                                             *)

(* Every variable of the module keeps to its set of values.                *)
CallersOK ==
  /\ cpc \in [Callers -> {"idle", "gather", "push", "cancelling",
                          "finished", "failed", "cancelled"}]
  /\ wpc \in [Waiters -> {"none", "start", "await"} \cup Ended]
  /\ ride \in [Waiters -> Waiters \cup {None}]
  /\ kday \in [Waiters -> Days]
  /\ inflight \in [Keys -> Waiters \cup {None}]

JobsOK ==
  /\ st \in [Jobs -> {"none", "ready", "calling"} \cup Final]
  /\ cancelreq \subseteq Waiters
  /\ today \in [Jobs -> Days]
  /\ plan \in [Jobs -> SUBSET Tasks]
  /\ todo \in [Jobs -> SUBSET Tasks]
  /\ out \in [Jobs -> [Tasks -> Outcomes]]

WorldOK ==
  /\ day \in Days /\ crashes \in 0 .. MaxCrash
  /\ record \in [Slots -> Status \cup {"none", "stale"}]
  /\ collected \subseteq Slots

TypeOK ==
  /\ running \in BOOLEAN /\ permits \in 0 .. Concurrency
  /\ CallersOK /\ JobsOK /\ WorldOK

(* _checkin_inflight never lets two unfinished shared tasks exist for one  *)
(* key, whatever is cancelled, raised or joined late.                      *)
AtMostOneRunPerKey ==
  \A v, w \in Waiters :
    Live(v) /\ Live(w) /\ v[2] = w[2] /\ kday[v] = kday[w] => v = w

(* An entry of _checkin_inflight belongs to a waiter that is still inside  *)
(* _checkin_user and will remove it: no entry is ever left behind for      *)
(* later callers to receive a finished task from.                          *)
EntryHasOwner ==
  \A k \in Keys : inflight[k] # None =>
    LET w == inflight[k] IN wpc[w] = "await" /\ ride[w] = w /\ k = KeyOf(w)

(* The permits of the semaphore and the runs on the network add up to      *)
(* auto_checkin_concurrency, through cache hits, failures and              *)
(* cancellations alike: no permit is lost, none is given back twice.       *)
PermitsConserved ==
  permits + Cardinality({w \in Waiters : st[w] = "calling"}) = Concurrency

(* What the cache trusts is never a phantom, whatever older releases have  *)
(* left: a trusted record has a reward the site handed out in its period   *)
(* or (the run crossed midnight) later, an already_done one a reward that  *)
(* is at most one period older.                                            *)
TrustedIsBacked ==
  \A s \in Slots : Genuine(s) =>
    \E p \in Days :
      /\ <<s[1], s[2], p>> \in collected
      /\ p >= s[3] \/ (record[s] = "already_done" /\ p + 1 >= s[3])

(* Once a trusted record has no call in flight that was planned before it, *)
(* nothing can take it back: neither a later tick, nor /spallcheckin, nor  *)
(* /spcheckin, nor a thread that outlived its cancelled task.              *)
Settled(s) ==
  /\ Genuine(s)
  /\ \A j \in Jobs : st[j] = "calling" /\ s[2] \in plan[j]
                       => s # Slot(j[2], s[2], today[j])

SettledStaysSettled == [][\A s \in Slots : Settled(s) => Settled(s)']_vars

(* The runs of an account, so far, are shared ones, all begun under the    *)
(* key of today: no /spcheckin, which shares nothing, and none that        *)
(* crossed midnight.                                                       *)
Undisturbed(u) ==
  /\ \A m \in Manuals : m[2] = u => st[m] = "none"
  /\ \A v \in Waiters : v[2] = u /\ ride[v] = v => kday[v] = day

(* CHANGELOG.md:8: two pushes of a day never disagree by one saying        *)
(* success and the other already-signed for the same uid and task, also    *)
(* when one comes from the cache and the other from the service.  (Beside  *)
(* an /spcheckin, or past midnight, they may.)                             *)
NoMixedPush ==
  \A v, w \in Waiters :
    /\ wpc[v] = "result" /\ wpc[w] = "result"
    /\ v[2] = w[2] /\ Undisturbed(v[2])
    => \A t \in Tasks : ~ (/\ out[ride[v]][t] = "success"
                           /\ out[ride[w]][t] = "already_done")

(* The lines of a report, task by task, account for every account in it,   *)
(* whatever part of a result came from the cache, from the service, or     *)
(* from an exception.                                                      *)
Reports(c) == cpc[c] \in {"push", "finished"}

ReportAddsUp ==
  \A c \in Callers : Reports(c) =>
    LET s == ReportStats(c) IN \A t \in Tasks : s.ok[t] + s.skip[t] + s.fail[t] = s.total

(* Whoever a report counts as completed has all tasks of the day on record *)
(* with nothing in flight that could take them back: no later run of the   *)
(* day sends them again, also when the report was given a result another   *)
(* caller's run had computed.  (Beside an /spcheckin, or past midnight, a  *)
(* late failure may overwrite what was reported.)                          *)
CompletedIsRecorded ==
  \A c \in Callers : Reports(c) =>
    \A w \in ReportStats(c).completed :
      Undisturbed(w[2]) => \A t \in Tasks : Settled(Slot(w[2], t, day))

(* A tick or an /spallcheckin that has begun comes to an end, even if a    *)
(* stop cancelled a run it shares or writing a record failed.              *)
CallerEnds ==
  \A c \in Callers :
    cpc[c] \in {"gather", "push", "cancelling"} ~> cpc[c] \in {"finished", "failed", "cancelled"}

(* Every entry of _checkin_inflight is removed again.                      *)
InflightDrains == \A k \in Keys : inflight[k] # None ~> inflight[k] = None

(* The sharing of runs is the single-flight protocol of SingleFlight.tla.  *)
Flight == INSTANCE SingleFlight WITH
  Passengers <- Waiters, Destinations <- Keys, NoFlight <- None,
  open <- inflight, aboard <- ride,
  landed <- {w \in Waiters : ride[w] = w /\ st[w] \in Final},
  left <- {w \in Waiters : wpc[w] \in Ended}

FlightSpec == Flight!Spec
================================================================================
