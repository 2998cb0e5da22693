----------------------------- MODULE Subscriptions -----------------------------
(***************************************************************************)
(* Subscriptions to check-in reports: the rows of the schedule table       *)
(* (src/core/db/schedule_store.py), the APScheduler jobs that shadow them  *)
(* (src/core/checkin_scheduler.py), the exclusions the Dashboard keeps per *)
(* session, and which users a tick collects from these and from the user   *)
(* table, which changes as UserStore says.                                 *)
(*                                                                         *)
(* Commands, Dashboard handlers and the collection of a tick's users run   *)
(* on the event loop without an await in between, so each is one action.   *)
(* Between the moment a job fires and the moment its coroutine runs, any   *)
(* of them may run.                                                        *)
(***************************************************************************)
EXTENDS Naturals

CONSTANTS
  Umos,        \* chat sessions (unified_msg_origin)
  Subs,        \* the subscriptions that may be made: <<umo, params>>
  Everyone,    \* params {"mode": "all"}; otherwise params are an account
  Crons,       \* values of auto_checkin_time
  MaxBoots,    \* how often the process is started
  None,        \* no row, no job, no report
  Uids, Accounts, PlatformsOf, MaxTime, Nobody     \* of UserStore

VARIABLES
  cron,        \* config_snapshot.auto_checkin_cron
  up,          \* the plugin is loaded
  started,     \* CheckinScheduler._scheduler is not None
  boots,       \* how often it was loaded
  cronOf,      \* the schedule table: the cron of a row, None without a row
  enabled,     \* the rows with enabled = 1
  jobs,        \* the jobs of APScheduler: the cron of a job, or None
  pending,     \* jobs that fired and whose coroutine has not run
  excluded,    \* checkin_session_exclusion: pairs <<umo, uid>>
  reported,    \* what the last step reported: [key, users], or None
  account, platform, active, auto, updated, now,   \* of UserStore
  checking, listed, unchecked, stale

Users == INSTANCE UserStore

KeyOf(s) == <<s[1], IF s[2] = Everyone THEN "all" ELSE "session">>
Keys == {KeyOf(s) : s \in Subs}          \* (umo, task_key)

ASSUME SubsAssumption ==
  /\ Everyone \notin Accounts
  /\ Subs \subseteq Umos \X (Accounts \cup {Everyone})
  /\ None \notin Crons /\ MaxBoots \in Nat

(* An account id is used on one platform; UserStore says what happens to   *)
(* the others.                                                             *)
ASSUME OnePlatformAssumption == 
  \A a \in Accounts : \E p \in Users!Platforms : PlatformsOf[a] = {p}

ASSUME UsersAssumption ==
  /\ Nobody \notin Accounts /\ Nobody \notin Users!Platforms
  /\ MaxTime \in Nat

userVars == <<account, platform, active, auto, updated, now,
              checking, listed, unchecked, stale>>
process == <<cron, up, started, boots>>
rows    == <<cronOf, enabled>>
vars    == <<process, rows, jobs, pending, excluded, reported, userVars>>

Rows == {s \in Subs : cronOf[s] # None}

--------------------------------------------------------------------------------
(* Jobs.                                                                   *)

(* The enabled rows of a key, of which _ensure_job_for takes the newest.   *)
Matching(k) == {s \in enabled : KeyOf(s) = k}

(* _ensure_job_for, after the table was changed, for each of the keys.     *)
EnsureJobFor(ks) ==
  IF ~started THEN UNCHANGED jobs
  ELSE jobs' \in {f \in [Keys -> Crons \cup {None}] : \A k \in Keys :
         f[k] \in IF k \notin ks THEN {jobs[k]}
                  ELSE IF Matching(k)' = {} THEN {None}
                  ELSE {cronOf'[s] : s \in Matching(k)'}}

(* The statements of ScheduleStore that write one row.                     *)
Upsert(s, c) ==
  /\ cronOf' = [cronOf EXCEPT ![s] = c]
  /\ enabled' = enabled \cup {s}

DeleteRow(s) ==
  /\ cronOf' = [cronOf EXCEPT ![s] = None]
  /\ enabled' = enabled \ {s}

SetEnabled(s, on) ==
  /\ enabled' = IF on THEN enabled \cup {s} ELSE enabled \ {s}
  /\ UNCHANGED cronOf

IsSubscribed(s) == s \in enabled

(* batch_update_cron writes the configured cron into every row.            *)
BatchUpdateCron_EnabledOnly(c) ==
  cronOf' = [s \in Subs |-> IF s \in enabled THEN c ELSE cronOf[s]]

BatchUpdateCron(c) ==
  cronOf' = [s \in Subs |-> IF s \in Rows THEN c ELSE None]

(* reload_config, which the plugin calls before it starts the scheduler.   *)
ReloadConfig(c) == cron' = c /\ BatchUpdateCron(c)

(* _restore_on_boot: one job for each key among the enabled rows.          *)
RestoreOnBoot(c) ==
  jobs' = [k \in Keys |-> IF Matching(k) # {} THEN c ELSE None]

NoJobs == jobs' = [k \in Keys |-> None]

(* The process starts, the first time or again after it was killed or      *)
(* terminated, with the configured cron and the scheduler switched on or   *)
(* off.                                                                    *)
Boot(c, on) ==
  /\ boots < MaxBoots
  /\ boots' = boots + 1
  /\ up' = TRUE /\ started' = on
  /\ ReloadConfig(c)
  /\ IF on THEN RestoreOnBoot(c) ELSE NoJobs
  /\ pending' = {} /\ reported' = None
  /\ UNCHANGED <<enabled, excluded, userVars>>

(* terminate: stop.                                                        *)
Terminate_WithoutStop ==
  /\ up
  /\ up' = FALSE /\ reported' = None
  /\ UNCHANGED <<cron, started, boots, rows, jobs, pending, excluded, userVars>>

Terminate ==
  /\ up
  /\ up' = FALSE /\ started' = FALSE
  /\ NoJobs
  /\ pending' = {} /\ reported' = None
  /\ UNCHANGED <<cron, boots, rows, excluded, userVars>>

--------------------------------------------------------------------------------
(* Commands and the Dashboard.                                             *)

Edits == up /\ reported' = None /\ UNCHANGED <<process, pending, userVars>>

(* CheckinScheduler.subscribe and unsubscribe: the row, then its job.      *)
SubscribeKey(s) == Upsert(s, cron) /\ EnsureJobFor({KeyOf(s)})
UnsubscribeKey(s) == DeleteRow(s) /\ EnsureJobFor({KeyOf(s)})

(* /spsubcheckin, or /spcheckinallsub when it is off.                      *)
Subscribe(s) ==
  /\ Edits
  /\ s[2] = Everyone => ~IsSubscribed(s)
  /\ SubscribeKey(s)
  /\ UNCHANGED excluded

(* /spunsubcheckin, or /spcheckinallsub when it is on.                     *)
Unsubscribe(s) ==
  /\ Edits
  /\ IsSubscribed(s)
  /\ UnsubscribeKey(s)
  /\ UNCHANGED excluded

(* api_set_schedule_enabled: any row, by its id.                           *)
SetScheduleEnabled(s, on) ==
  /\ Edits
  /\ s \in Rows
  /\ SetEnabled(s, on)
  /\ EnsureJobFor({KeyOf(s)})
  /\ UNCHANGED excluded

(* api_delete_schedule.                                                    *)
DeleteSchedule(s) ==
  /\ Edits
  /\ s \in Rows
  /\ DeleteRow(s)
  /\ EnsureJobFor({KeyOf(s)})
  /\ UNCHANGED excluded

(* CheckinSessionExclusionStore.                                           *)
Exclude(umo, u) == excluded' = excluded \cup {<<umo, u>>}
Restore(umo, u) == excluded' = excluded \ {<<umo, u>>}

SessionKeys(umo) == {k \in Keys : k[1] = umo}      \* refresh_checkin_jobs

(* api_set_schedule_participant_excluded: by a row of the session, for a   *)
(* uid that is bound.                                                      *)
SetParticipantExcluded(s, u, on) ==
  /\ Edits
  /\ s \in Rows /\ u \in Users!Bound
  /\ IF on THEN Exclude(s[1], u) ELSE Restore(s[1], u)
  /\ UNCHANGED rows
  /\ EnsureJobFor(SessionKeys(s[1]))

(* The user table changes: logins, commands, the Dashboard, a cleanup.     *)
UserStep ==
  /\ up /\ Users!Next
  /\ reported' = None
  /\ UNCHANGED <<process, rows, jobs, pending, excluded>>

--------------------------------------------------------------------------------
(* Ticks.                                                                  *)

(* _append_checkin_user.                                                   *)
ExcludedUids(umo) == {u \in Uids : <<umo, u>> \in excluded}
MayRun(umo, u) == u \in auto /\ u \notin ExcludedUids(umo)

(* _get_active_for_account.                                                *)
ActiveFor(a) == {u \in active : account[u] = a}

(* The users of the enabled session subscriptions of a session.            *)
SessionUsers(umo) ==
  {u \in UNION {ActiveFor(s[2]) : s \in Matching(<<umo, "session">>)} : MayRun(umo, u)}

(* _collect_global_subscription_users: the union over all sessions, or     *)
(* every bound uid when the union is empty.                                *)
Union == UNION {SessionUsers(umo) : umo \in Umos}

GlobalUsers_OwnExclusions(umo) ==
  LET here == {u \in Union : <<umo, u>> \notin excluded}
  IN  IF here # {} THEN here ELSE {u \in Users!Bound : MayRun(umo, u)}

GlobalUsers(umo) == IF Union # {} THEN Union ELSE {u \in Users!Bound : MayRun(umo, u)}

CollectTickUsers(k) == IF k[2] = "all" THEN GlobalUsers(k[1]) ELSE SessionUsers(k[1])

(* build_schedule_participants: the Dashboard's view of one subscription,  *)
(* who takes part in it and who of them will run.                          *)
Participants(s) ==
  IF s[2] = Everyone THEN Users!Bound ELSE ActiveFor(s[2])

WillRun(s) == {u \in Participants(s) : MayRun(s[1], u)}

(* A job fires: its coroutine is scheduled.                                *)
Fire(k) ==
  /\ jobs[k] # None
  /\ pending' = pending \cup {k}
  /\ reported' = None
  /\ UNCHANGED <<process, rows, jobs, excluded, userVars>>

(* _tick_for_key: the rows are looked up again before users are collected. *)
Wanted_Unchecked(k) == TRUE

Wanted(k) == Matching(k) # {}

TickForKey(k) ==
  /\ k \in pending
  /\ pending' = pending \ {k}
  /\ reported' = IF Wanted(k) /\ CollectTickUsers(k) # {}
                   THEN [key |-> k, users |-> CollectTickUsers(k)] ELSE None
  /\ UNCHANGED <<process, rows, jobs, excluded, userVars>>

--------------------------------------------------------------------------------
Init ==
  /\ cron \in Crons /\ up = FALSE /\ started = FALSE /\ boots = 0
  /\ cronOf = [s \in Subs |-> None] /\ enabled = {}
  /\ jobs = [k \in Keys |-> None] /\ pending = {}
  /\ excluded = {} /\ reported = None
  /\ Users!Init

Next ==
  \/ \E c \in Crons, on \in BOOLEAN : Boot(c, on)
  \/ Terminate
  \/ \E s \in Subs : Subscribe(s) \/ Unsubscribe(s) \/ DeleteSchedule(s)
  \/ \E s \in Subs, on \in BOOLEAN : SetScheduleEnabled(s, on)
  \/ \E s \in Subs, u \in Uids, on \in BOOLEAN : SetParticipantExcluded(s, u, on)
  \/ \E k \in Keys : Fire(k) \/ TickForKey(k)
  \/ UserStep

Spec == Init /\ [][Next]_vars

--------------------------------------------------------------------------------
(* Properties.                                                             *)

(* Every variable keeps to its set of values; only existing rows are       *)
(* enabled, and only a loaded plugin has a scheduler.                      *)
TypeOK ==
  /\ cron \in Crons /\ up \in BOOLEAN /\ started \in BOOLEAN /\ boots \in 0 .. MaxBoots
  /\ started => up
  /\ cronOf \in [Subs -> Crons \cup {None}] /\ enabled \subseteq Rows
  /\ jobs \in [Keys -> Crons \cup {None}] /\ pending \subseteq Keys
  /\ excluded \subseteq Umos \X Uids
  /\ reported \in [key : Keys, users : SUBSET Uids] \cup {None}
  /\ Users!TypeOK

(* While the scheduler runs, a session has a job for a task exactly when a *)
(* subscription to it is enabled, and the job fires at the configured      *)
(* time; without a scheduler nothing fires.                                *)
JobsFollowRows ==
  \A k \in Keys : jobs[k] = IF started /\ Matching(k) # {} THEN cron ELSE None

(* A session gets no report once its last subscription is gone, not even   *)
(* from a job that had fired before.                                       *)
ReportsAreWanted == reported # None => Matching(reported.key) # {}

(* README.md:50: a global report counts whoever takes part in any session, *)
(* also those excluded in the session that gets the report.  And whatever  *)
(* logins, switches and deletions came before, a report that rests on      *)
(* session subscriptions has one uid of an account at most; only the one   *)
(* that falls back to all users may have more.                             *)
ReportsMatchSessions ==
  reported # None =>
    /\ reported.key[2] = "all" => \A umo \in Umos : SessionUsers(umo) \subseteq reported.users
    /\ reported.key[2] = "session" \/ Union # {} =>
         \A u, v \in reported.users : account[u] = account[v] => u = v

(* queries.py:138: the Dashboard lists the participants of a subscription  *)
(* as the scheduler collects them; so those it says will run are the ones  *)
(* a tick would report.                                                    *)
ViewFollowsTick ==
  \A s \in enabled : s[2] = Everyone => WillRun(s) = CollectTickUsers(KeyOf(s))
================================================================================
