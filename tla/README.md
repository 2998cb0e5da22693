# Formal models of the South Plus plugin

TLA+ modules, TLC runs and TLAPS proofs for the AstrBot plugin in this repository.  The plugin binds
South Plus forum accounts ("uids") to chat accounts, lets users log in through one-time web forms,
signs them in daily and weekly (by command or by cron), records the results and pushes reports to
chat sessions.  Paths below are relative to the repository root; `src/...` is its Python package.

1. [Inventory](#1-inventory) 2. [Modules](#2-modules-and-the-code) 3. [Runs](#3-runs-bounds-and-what-they-show)
4. [Fairness](#4-fairness) 5. [Proofs](#5-proofs) 6. [Findings](#6-where-the-code-and-its-documents-disagree)
7. [Abstractions](#7-abstractions-and-what-is-not-modelled) 8. [Plan](#8-plan)

## 1. Inventory

One process, one asyncio event loop (AstrBot's).  Beside the loop run the worker threads of
`asyncio.to_thread` (every HTTP request to the forum) and the threads of a `ThreadingHTTPServer`
(the login form).  All tables live in one SQLite file; each store method opens its own connection
and commits once, so a store method is atomic with respect to the others.

| Component | State | Operations | Talks to | Hard behaviour | What makes it correct |
|---|---|---|---|---|---|
| `CheckinScheduler`, runs (`src/core/checkin_scheduler.py`) | `_checkin_inflight`, semaphore, APScheduler | cron tick, `/spallcheckin`, `stop` | service (threads), records, users | several callers of one uid share a task that nothing shields; midnight between the steps of a run; stop and crash with a request on the network | at most one run per uid and day, no entry and no permit leaks, every caller ends, records match rewards |
| `CheckinService` (`src/southplus/checkin_service.py`, `api/constants.py`) | none | apply, collect, verify per task | the forum | side replies of a task somebody else finished, lost answers, a second client of the same account, the 18 hour cooldown | a success was collected, what is done is never reported failed |
| `CheckinStore` (`src/core/db/checkin_store.py`) | `checkin_record` | `record`, `get_genuine_status` | scheduler, `/spcheckin` | late writers, wrong successes of older releases | a settled record stays settled and stands for a reward |
| Commands (`main.py`) | `_expiry_tasks` | thirteen chat commands | everything | awaits between a read and the write that uses it | see the components they drive |
| `UserStore` (`src/core/db/user_store.py`) | `user` | bind, switch, delete, toggle, cleanup | commands, Dashboard, login callback | uid is the primary key, activity is per (account, platform); the cleanup deletes against an old list | one active uid, no uid changes hands, only the cleanup strands an account |
| `CredentialFormServer` (`src/web/auth_server.py`) | table of links, one lock per link, one server lock | create or reuse, page, captcha, submit, cancel, expire, shutdown | loop, HTTP threads, login API, the callbacks of `main.py` | a check under one lock used under another; a network call under a link's lock; timers against late answers; `terminate` iterates over `_expiry_tasks` while threads pop from it | one live link per user, one submission per link, cancelled and expired links bind nothing, no lock is held for ever, every HTTP session with the forum is closed, the end is complete |
| `ScheduleStore` and jobs (`src/core/db/schedule_store.py`, `checkin_scheduler.py`) | `schedule` rows, jobs by `(umo, task)` | subscribe, unsubscribe, Dashboard enable/disable/delete, start with a new configuration | APScheduler | rows and jobs are two copies of one fact | a job exists exactly for the keys with an enabled row and fires at its cron |
| Tick selection, exclusions (`checkin_scheduler.py`, `checkin_session_exclusion_store.py`) | exclusions per session | `_collect_tick_users`, exclude/include | user table, rows | global subscription = union of the sessions, or everybody | the global report covers every session's |
| Report statistics (`_build_report_stats`) | none | count outcomes | scheduler | results come from the cache, the service, an exception, or another caller's run | each line adds up, who is completed is on record |
| Migrations (`src/core/db/migrations/`, `setup_db`) | the schema, `sp_migration_record` | run the missing versions, create what a store misses | all stores | a start that dies between two statements, DDL that commits by itself before the version rows do | no version is recorded ahead of its schema, every start can finish |
| Dashboard (`src/pages/`) | none | lists with filters, participants of a schedule, completions; edits of users, rows and exclusions | stores, scheduler | a view that promises to mirror the scheduler; completions that deduplicate, filter and cut in one loop | edits leave jobs and rows in step, a view shows what its tick does, completions miss nothing |
| Login API, profile, client (`src/southplus/api/`, `client.py`) | one HTTP session with a cookie jar per attempt | login, captcha, profile | forum | success is read from the jar, which outlives a refused or lost answer | a form counts as accepted only if the forum accepted it |
| Platform adapter, configuration, rendering, crypto, utilities | none | pure or I/O | - | - | - |

`PROJECT.json` lists the same components with their status, and every hazard with its line.

## 2. Modules and the code

`PROJECT.json` maps each definition to the lines it stands for.  All modules follow one rule about
granularity: on the event loop an action is the code between two awaits; in a thread an action is the
code between two lock operations or network calls.

* **`ServicePromise`** the statuses (`CheckinStatus`) and, as two set-valued operators, which outcomes
  a caller may get from the two steps of one service call, given what the site has handed out.
* **`ServiceCall`** the abstract specification of concurrent calls that keep that promise.
* **`CheckinService`** `run_checkin` request by request: the site (external) acts and answers with a
  message, `ReadApply` / `ReadCollect` / `ReadVerify` read it through the keyword tables in the code's
  order; messages and keywords are small sets, and a message's keywords are those of its real text.
  `Refused`, `Garbled`, `Hollow` and `AnswerLost` are the error paths of `_parse_response`,
  `run_checkin` and `_safe_run`.  Time is in slices of six hours (a daily period has 4, the cooldown
  of 18 hours is 3).
* **`SingleFlight`** the abstract specification of sharing: passengers open a flight for a day or board
  the one that is flying; it lands for all of them.
* **`CheckinScheduler`** the core.  `cpc` is where a caller (a fired job or an `/spallcheckin`) is, `wpc`
  where the coroutine of one of its uids is; a waiter that finds no live task creates one, owns it and
  gives it its name (`inflight`, `ride`).  A job walks through cache (`Missing`), semaphore
  (`DoCheckinBoth`), the worker thread (`ServiceApply`, `ServiceCollect`, `ServiceRaises`) and the two
  records (`RecordAndReturn`, `RecordFails`); `ReportStats` counts the results of a caller.  `/spcheckin` (`SpCheckin`) is a job without sharing and
  without permit, as in `main.py`.  `Stop`, `TaskCancelled`, `Crash`, `Midnight`, `SignedElsewhere` (a browser) disturb it all.
  The outcomes of the service are those of `ServicePromise`.
* **`UserStore`** the table as functions of the uid (`account`, `platform`, `active`, `auto`, times),
  one action per method, and `/spcleanup` as three actions around its awaits.
* **`LoginServer`** links (tokens) with their state and the cookie jar of their attempt (`state`, `jar`), the
  `_expiry_tasks` of `main.py` (`tasks`, `timer`), the loop with the locals of what it is doing (`loop`, `who`,
  `rest`, `taken`, `watched`), and a program counter per HTTP request.  The locks are not variables: the server
  lock is held across a wait only while the loop scans, a link's lock only while a captcha is fetched.
  `_peek_entry` is up to four steps because its clock is read after its lookup; `handle_submit` and the callback it
  calls are eight, one per lock region or request; `terminate` cancels its tasks one by one.  The clock is lazy: whoever looks at a link may find
  it past its `expires_at`, and then everybody after does (`lapsed`).
  The states of a link, the table and the threads together are one of five phases (`Phase`).
* **`OneTimeLinks`** the abstract specification of these links: unused, live, racing (withdrawn while an accepted
  form that had found it in place looks at it again), accepted, dead; issued, withdrawn, accepted, cancelled, timed out.
* **`Dashboard`** the pages over the table of `UserStore`: the account list and its filters, the participants of
  a schedule and beside them what the ticks collect (as sets: no property is about their order): `_collect_tick_users`
  with the union of the session subscriptions for a global tick and its fallback to every bound uid,
  and the completions, over the list `list_all` gives, with their deduplication and limit.  It has no variables of
  its own; its run looks at every table that binding, switching, toggling and deleting reach, with the subscriptions
  and exclusions of `Boards` (how these come about is in `Subscriptions`).
* **`Migrations`** the start on the database file, one action per statement: the missing scripts in order, the version
  rows, the commit, the DDL of the stores.  Python's `sqlite3` opens a transaction at the first INSERT, so
  statements before it are durable one by one and later ones only with the commit.  A start may fail or the process
  die before any statement; the first file is empty or left by an earlier release.  What the scripts and the stores
  create is a parameter; **`PluginSchema`** gives it the values of this release: V1-V3 and the DDL of the six stores.
* **`Subscriptions`** rows, jobs and exclusions, instantiating `UserStore` for the users so that ticks
  select from a real table, `Fire` and `TickForKey` apart because a job's coroutine starts later.
* **`...Proofs`** the proofs about the module they extend; `ReportProofs` extends `CheckinSchedulerProofs`, and
  `DashboardProofs` extends `UserStoreProofs`.  **`MC...`** instances for TLC.

Composition: `CheckinScheduler` rests on `ServicePromise`, which `CheckinService` is shown to keep
(`PromiseSpec`), and implements `SingleFlight` (`FlightSpec`); `LoginServer` implements `OneTimeLinks`
(`LinksSpec`); `Subscriptions` wraps the next-state
relation of `UserStore`.  What a tick selects (`Subscriptions`) is any non-empty set of uids in
`CheckinScheduler`.

## 3. Runs, bounds and what they show

| Run | Question | Result |
|---|---|---|
| `sched_records` | a tick and an `/spcheckin` of one uid, both tasks, across midnight, stop and crash, over a wrong record of an older release | what the cache trusts never invents a reward (`TrustedIsBacked`); the lines of a report add up (`ReportAddsUp`); a trusted record that no call in flight is older than is never changed (`SettledStaysSettled`) |
| `sched_sharing` | two ticks and an `/spallcheckin` on one uid and one permit, fair scheduling | one run per uid and day, entries and permits never leak, reports of one day do not contradict each other (`NoMixedPush`), whoever a report counts as completed is on record for good (`CompletedIsRecorded`), the sharing implements `SingleFlight`, callers end |
| `service_calls` | three calls and a browser on one account, two days, cooldown | what a status means (`SuccessMeansCollected`, `NoFalseFailure`), and the promise the scheduler relies on |
| `user_table` | an account on one platform and one on two, three uids, a cleanup, and the pages over every table so reached | one active uid for the account on one platform; no uid changes hands; only the cleanup leaves an account without an active uid; the pages of session schedules show what the ticks sign in, exactly for accounts on one platform and, for others, more than the one uid the tick takes; a global tick signs in what these pages show together, and follows its own page only if they show nobody (`ParticipantsFollowTick`); completions are all first matches, in order, up to the limit (`SuggestionsComplete`) |
| `user_double_active` | is at most one uid active per (account, platform)? | violated, finding 2 |
| `user_cleanup` | does the cleanup take only who left? | violated, finding 3 |
| `login_links` | one user, two links, two HTTP threads, the loop, timers, shutdown | one live link, one submission; the links implement `OneTimeLinks` (`LinksSpec`): a cancellation confirmed before acceptance is final; so is a time-out; no HTTP session of an attempt is left open but where a request reopens it after its link was taken (`AttemptsAreKept`); `terminate` completes unless a login was accepted (`StopIsComplete`); requests are answered and the loop is freed (`NobodyWaitsForEver`), links end (`LinksEnd`) |
| `login_answers` | is a failed login never shown as a success? | violated, finding 1 |
| `login_expired` | is a link dead once the user is told so? | violated, finding 4 |
| `migrations` | any number of interrupted starts on a new or an older file | `RecordedMeansUpgraded`, no start is refused by what an earlier one left, scripts and stores agree on the schema |
| `subs_jobs` | a global and a session report, two accounts, two starts, a cleanup | jobs follow enabled rows, a tick that fired before an unsubscription reports nothing, a global report counts whoever takes part in any session, and no report that rests on session subscriptions counts an account twice (`ReportsMatchSessions`) |
| `subs_view` | does the Dashboard show who a global report will run? | violated, finding 5 |

Bounds, and why they are enough.

* *Scheduler.*  `_checkin_inflight`, records and requests of different uids meet only in the semaphore;
  one uid with several callers is where they interact, and one permit is the tightest semaphore.
  Three callers are needed for an owner, a waiter, and a latecomer.  `sched_records` has two days (one
  midnight), one crash, one legacy record.  `sched_sharing` stays within one day (`MaxDay = 0`): it is
  the run with fairness; sharing across midnight is in `sched_records` and, for any number of days,
  users and callers, in the theorems.  With one uid the shared run is the only one on the network: no two uids wait
  for one permit in any run, only in the theorem `NoPermitLost`, and `CallerEnds` is not checked with such waiting.
  It has one task, so that a failing write fails before any is made; the second of two writes fails alone in
  `sched_records`.  `NoMixedPush` and `CompletedIsRecorded` speak of accounts that no
  `/spcheckin` and no run across midnight disturbs (`Undisturbed`); the run has neither, the theorems have both.
* *Service.*  Two periods and three concurrent calls: one to apply, one to collect in between, one to
  meet the result; the third period differs in nothing.
* *Users.*  Three uids: the one a step is about, one beside it, one of somebody else.  Two times
  (`MaxTime = 1`) make equal and different `updated_at`.
* *Dashboard.*  Two account ids that differ in case only, so that folding matters; keywords that match all, some
  accounts, one platform or one kind; no session subscription, one, or one in each of two sessions, and any exclusions
  of one of them; limits 0 (which the code raises to 1), 2 (cut) and 12 (more than there is).
* *Login.*  Two links: the one replaced and its replacement.  Two threads: every hazard is a pair (submit
  and cancel, submit and submit, captcha and anything); users share no link.  The theorems hold for any numbers.
  The two violation runs need one link.
* *Migrations.*  Nothing is bounded: with the scripts and stores of `PluginSchema` the model has finitely many states.
* *Subscriptions.*  Two sessions, one subscribed globally, one for itself; two starts are one restart with
  another cron.

`CHECK_DEADLOCK FALSE` is set where the bounded instance really stops (all users have acted, time is up).

## 4. Fairness

`CheckinScheduler!Fairness` is weak fairness of every step the event loop or a worker thread takes by
itself: asyncio runs what is ready, and every request carries a timeout (`client.py`), so a
thread ends.  Nothing makes a job fire, a user send a command, the day pass, or the process stop.

`LoginServer!Fairness` is weak fairness of what the loop has begun and of each thread (a lock is handed on,
and every request to the forum times out), and strong fairness of the timers: the ready queue of asyncio is first in, first out, so a timer that is due is not overtaken
for ever, although the loop is busy in between.  Nothing makes users open pages or submit.

The other modules state no liveness: their operations end by themselves.

## 5. Proofs

All are for every value of the constants under the named assumptions
(`ConstantsAssumption`; `TimesAssumption`; `NobodyAssumption`, `TimeAssumption`; `SubsAssumption`,
`OnePlatformAssumption`, `UsersAssumption`; `NoneIsOther`; `SchemaAssumption`; `QueryAssumption`).  Each is
checked by TLC on its instance.  Most only say that numbers are numbers and that model values differ; two say more.
`OnePlatformAssumption` is an abstraction (section 7).  `SchemaAssumption` states what a release must get right for its
scripts to work: a statement needs only what earlier statements and scripts make (an index or a column its table), the
first script makes the table of the version rows, and the stores want nothing that no script makes.  The run checks
that the scripts and stores of this release, in `PluginSchema`, satisfy it.

**`CheckinSchedulerProofs`** (any callers, uids, days, permits, crashes).  The invariant is
built in layers, each proved from the ones before.

1. `Types`: `CallersOK`, `JobsOK`, `WorldOK`; beyond types they say which fields of a job are set in which
   state (an ended job has no task left to send, a calling job has a plan, its day is not in the future).
2. `Sharing`: idle callers have no waiters (`IdleCallersHaveNoWaiters`), each entry of
   `_checkin_inflight` is owned by a waiter still in its `finally` (`EntryHasOwner`), and a live
   shared task is the entry of its key (`LiveTaskIsEntered`).  Without the last, "one run per key" is not
   inductive: a caller would not find the running task.  This gives `EntriesOwned` and `OneRunPerKey`.
3. `PermitsConserved` needs the cardinality of the finite set of running jobs and that a job holds
   exactly one permit while it is in that set: `NoPermitLost`, and from it the bounds of `TypeCorrect`.
4. `SettledForGood` is a step property: a job that writes was calling before, and a settled slot has no
   job in flight that could write it, so no write reaches it.
5. `Backed` adds to `TrustedIsBacked` that the outcomes a thread already holds are backed
   (`CallsBacked`): the record is written later, possibly on another day.  `NoPhantomRecord`.

6. `SharingIsSingleFlight`: the scheduler implements `SingleFlight`.  Beside the layers above it needs `RidesOK`:
   whoever awaits a task awaits one whose owner awaits it too.  `CheckinUser` maps to opening or boarding a flight,
   `AwaitEnds` to leaving it, `NeverStarted` to staying at home, the end of a shared task, by result, exception or
   cancellation, to landing, `Crash` to the shutdown, and all other steps to a stutter.

**`ReportProofs`** (what a report says).  `Followed` follows each run from its cache check to its end:
`RunsOK` (a run keeps to its key and to the order of days), `OutcomesOK` (each task a run has behind it has an
outcome, what is ahead of it was planned), `ResultsOK` (who has a result rides a task that is done; who reports has
all results).  `ReportsAddUp` follows with the cardinalities of three disjoint sets of users.  For the other two, `KeptOK`: what an
undisturbed run of today found on record or has put there is there and *settled*, that is, trusted and with
no older call in flight that could overwrite it.  It is inductive because an undisturbed account has one run at a
time.  `CompletedOnRecord` is immediate from it, and so is `PushesAgree`: two results that both stand on record cannot differ.
`Undisturbed` is needed: see the remarks in section 6.

**`CheckinServiceProofs`**: `TypeCorrect`, `SuccessIsReal`, `FailureIsReal`, and `KeepsPromise`, that three
requests in a row implement the two steps of `ServiceCall`.  The invariant is `SiteOK` (how the state of the task on
the site, the last application and the rewards handed out hang together), `BusyOK` (a call spans at most one
change of the slice; the task it applied for is in progress or was handed out meanwhile)
and `FaultlessOK` (a call that met no fault sees the task in the state it left it in, or collected by somebody else).

**`LoginServerProofs`** (any users, links and HTTP threads), in layers: `SubInv` (one thread per link submits, was
accepted or fetches: `OneSubmissionAtATime`); `LinkInv`, where `ScanOK` says that an entry the search has passed over is
not live and never will be, since only a submission that was live can reopen a link (`LinksAreSingle`); `TakenOK`, that an entry
taken out of the table stays out, for `TimedOutIsDoomed`; `ExcusedOK` and `AttemptOK`, why a live link may be
outside the table and which thread answers for an open HTTP session (`AttemptsAreClosed`);
`StopInv`, that while `terminate` iterates each armed timer is still ahead of it unless an accepted login took a
task out (`StopCompletes`).  `KeepsPromise` is the refinement of `OneTimeLinks`: creating a link, accepting a form, the
end of a cancellation and the message of a time-out map to its steps of that name, every other step either changes no phase
or only withdraws links (`Receding`: what leaves the table, or changes state, may only go from live to racing or dead).
Issuing needs `ScanOK`: when the search has passed over all entries, the user has no live link.  `CancellationIsFinal`
follows from the refinement, because dead is final in `OneTimeLinks` (`DeadStaysDead`).

**`UserStoreProofs`**: `TypeCorrect`; `WithinAccount`; `OneActive` by the invariant that two active uids of an
account on one platform are equal; `OnlyCleanupStrands`, where the fallback of a deletion exists because a
set of rows with bounded times has a newest one (`NewestExists`).

**`DashboardProofs`** (any table that is reached, any subscriptions, exclusions, keywords and limits).  `PagesFollowTicks`:
the page lists all active uids of an account and the tick takes the newest (`AnswerIs`), which is the same on one platform
because of `OneActive`; an answer exists because of `NewestExists`.  So what a subscription contributes to a tick is what
its page shows (`SubscriptionIs`), or part of it on several platforms; the unions over the subscriptions of one session,
or of all, follow (`SessionsAre`), and so does that nobody is taken twice (`TickCountsOnce`).
`CompletionsMissNothing` is about a loop, so its proof is an induction over the turns, in the form
that a smallest turn after which the invariant fails cannot exist (`AllTurns`; the induction theorems of the library are out of
reach).  The invariant, `LoopOK`: after `n` turns the items are the first matches among `n` suggestions, each at its rank, up to the
limit, and until the limit is met `seen` holds the folded values of all matches so far.  It also takes that a table is
finite however many uids there are (`TableFinite`).

**`SubscriptionsProofs`**: `JobsFollow` with the inductive `Inv`: every row carries the configured cron
(`RowsOK`) and `JobsFollowRows`.  `_ensure_job_for` takes the cron of whichever row is newest, which is right only
because all agree.  `ReportsWanted` follows from the check at the top of `_tick_for_key`.  `TypeCorrect` covers the user
table inside the module: its part of every step is a step of `UserStore` or none (`UsersRefined`), so the theorems of
`UserStoreProofs` are instantiated instead of proved again.  By them `_get_active_for_account` has one answer at most
(`OneAnswerPerAccount`), and so has the union over the sessions for each account; `ReportsMatch` compares a report with
the rows and users of the step that collected it, which only reads them (`CollectionReads`).

**`MigrationsProofs`** (any scripts, stores and first file that `SchemaAssumption` allows, any number of interrupted starts).
The properties speak of the file and of the end of a start; the invariant adds the middle of one: every version recorded in
the file or in the view of the connection is complete there (`Upgraded`), the versions behind `version` are applied
(`Behind`), of the script at hand the statements before `step` have been executed (`Done`), and a transaction is open only while
migrating (`Progress`).  From it, a statement finds all it needs and is never refused (`StartsAreSafe`), recording comes
after the script (`RecordedIsComplete`), the last commit leaves the whole schema (`ReadyIsComplete`), and the stores find
everything there (`StoresAgree`).

Every invariant and action property of the passing runs, and every refinement, is a theorem.  Only model-checked is
liveness (`CallerEnds`, `InflightDrains`, `NobodyWaitsForEver`, `LinksEnd`): fairness and ENABLED are out of this prover's
reach.  No module declares a RECURSIVE operator.

## 6. Where the code and its documents disagree

1. *Failure shown as success* (`auth_server.py:360`).  The page says that the login succeeded and is saved whatever
   the callback did: it may find no profile, or a uid another account holds, and save nothing.  And the attempt takes a
   login cookie in its jar for success (`login.py:129`), which an earlier form may have left whose answer was lost.
2. *Two active uids* (`user_store.py:171`).  `switch_active` deactivates by platform and activates by uid:
   an account used on two platforms ends with two active uids on one.
3. *Cleanup* (`main.py:564`).  A uid bound while `/spcleanup` awaits the friend list is deleted.
4. *Expired link* (`auth_server.py:349`).  Whether the link is still in the table is read under the server's
   lock, the login accepted later: the user is told that the link expired and is bound anyway.
5. *Dashboard view* (`queries.py:143`).  The participants of a global subscription are listed "as the
   scheduler collects them", but the view takes every bound account and the exclusions of the session that
   gets the report, the tick the union of the session subscriptions and their exclusions.  The promise fails for session
   subscriptions too, where an account has an active uid on each of two platforms: the page shows both, the tick
   (`checkin_scheduler.py:532`) takes one.  `ParticipantsFollowTick` says how far the pages can be relied on.

Five remarks, modelled as the code has them.

* `README.md:90` has `/splogin` reuse a link in progress; while the callback of a submitted form runs, its entry
  is DONE and a second link can be opened.
* `README.md:50` and `CHANGELOG.md:7` differ on when the global subscription falls back to every account; the code does
  whenever the sessions select nobody.
* The forum refuses to hand out a task within 18 hours of the last application, and the code reads that as already
  done (`checkin_service.py:227`): who signs in late and early next day skips the day.  `ServicePromise` allows it.
* The docstring of `run_checkin` (`checkin_service.py:204`) says that a state C reply at any stage, that of the collect
  request and of the verification included, converges to ALREADY_DONE.  The code does so for the apply request alone: once it
  has applied, a state C reply to collect goes on to the verification and ends as SUCCESS, and so it is in `PromiseSpec`,
  which allows `already_done` in no other step than the first.  The docstring of the module (22-24), `CHANGELOG.md:23`,
  `docs/dev/southplus-capture.md:314` and `tests/test_checkin_client.py:241` agree with the code; the sentence is out of date.
* `/spcheckin` shares no run, and a run that waited past midnight signs in for a day it is not keyed by.  Beside either,
  two pushes of a day can say success and already-signed of the same task, and a late failure can overwrite what a report
  called completed.  `NoMixedPush` and `CompletedIsRecorded` say that nothing else can.

## 7. Abstractions and what is not modelled

* Tokens are never drawn twice; the text of pages, answers and reports is left out.
* A tick reads the tables at once, although it reads them one after the other on the loop: another
  coroutine cannot come between, but the thread of a login callback could bind a uid there.
* `Subscriptions` assumes each account uses one platform (`OnePlatformAssumption`); `UserStore` does not.
* The site of `CheckinService` is inferred from the keyword tables and their comments: external.
* `Migrations` leaves out scripts that cannot be imported and two processes on one file.
* A crash loses everything in memory at once and keeps the last commits; SQLite is atomic.
* A form that is refused at the very moment its attempt is closed counts as refused, although an earlier form may
  have left a login cookie in the jar; either way its link is out of the table and binds nothing.
* A request that is answered forgets its link, and the HTTP server is not restarted after `shutdown`.
* A keyword of the Dashboard is the set of texts it occurs in; paging, sorting of equal times and JSON are left out.
* Not modelled: the generic path of `TASK_REGISTRY` (no such key is ever subscribed), `group` and
  `user_group` (never written), rendering and HTML, the parsing of the profile page and the wording of refused logins,
  configuration, crypto, the overview of the Dashboard and its lists of schedules and records (plain filters and
  conversions), and `src/core/auth_server.py`, a copy nothing imports.

## 8. Plan

Done, in this order: scheduler with its records and sharing; the service and its promise; users and the
cleanup; login links; subscriptions and jobs; migrations; proofs of scheduler, users, subscriptions; the HTTP sessions
of login attempts and the stepwise end of the plugin; the Dashboard's views of the user table; proofs of the login
server, the service, both refinements and the reports; types of subscriptions and their users; migrations for any
scripts; what reports count; login links as `OneTimeLinks`; the pages and the completions of the Dashboard.

Left, most useful first:

1. `Subscriptions` with accounts on two platforms: there, what a session report covers depends on `updated_at`.
2. The order of the actions in the liveness arguments as ranking invariants, the part of `CallerEnds` and `LinksEnd` that is
   within reach of the prover.
3. Exclusions that outlive their binding: no document says whether a uid that is bound anew should still be
   excluded, so there is nothing to check yet.
4. A tick that reads its tables one after the other while the thread of a login callback binds a uid.
5. The lists of schedules and records of the Dashboard, and the generic task path once a task outside check-in
   is subscribed.
