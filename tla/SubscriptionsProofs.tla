-------------------------- MODULE SubscriptionsProofs --------------------------
(***************************************************************************)
(* Proofs about Subscriptions: for any sessions, subscriptions, uids and   *)
(* any number of restarts with changed configurations, the jobs of the     *)
(* scheduler follow the enabled rows, and a report has a subscription.     *)
(***************************************************************************)
EXTENDS Subscriptions, TLAPS

(* Every row carries the configured cron, enabled or not: the row that     *)
(* _ensure_job_for happens to pick does not matter.                        *)
RowsOK ==
  /\ cron \in Crons
  /\ cronOf \in [Subs -> Crons \cup {None}]
  /\ enabled \subseteq Rows
  /\ \A s \in Rows : cronOf[s] = cron

Inv == RowsOK /\ JobsFollowRows

(* A missing cron is not a cron.                                           *)
LEMMA NoneIsNoCron == ASSUME NEW c \in Crons PROVE c # None
BY SubsAssumption

(* _ensure_job_for restores the agreement for the keys it is called with,  *)
(* provided that the rows are right after the change and that no other key *)
(* was touched.                                                            *)
LEMMA EnsureJobForWorks ==
  ASSUME Inv, RowsOK', cron' = cron, started' = started,
         NEW ks, EnsureJobFor(ks),
         \A k \in Keys \ ks : Matching(k)' = Matching(k)
  PROVE  JobsFollowRows'
<1> USE DEF Inv, JobsFollowRows
<1>1. CASE ~started
  BY <1>1 DEF EnsureJobFor
<1>2. CASE started
  <2> SUFFICES ASSUME NEW k \in Keys
               PROVE  jobs'[k] = IF started' /\ Matching(k)' # {} THEN cron' ELSE None
    OBVIOUS
  <2>1. jobs'[k] \in IF k \notin ks THEN {jobs[k]}
                     ELSE IF Matching(k)' = {} THEN {None}
                     ELSE {cronOf'[s] : s \in Matching(k)'}
    BY <1>2 DEF EnsureJobFor
  <2>2. CASE k \notin ks
    BY <1>2, <2>1, <2>2
  <2>3. CASE k \in ks /\ Matching(k)' = {}
    BY <1>2, <2>1, <2>3
  <2>4. CASE k \in ks /\ Matching(k)' # {}
    <3>1. PICK s \in Matching(k)' : jobs'[k] = cronOf'[s]
      BY <2>1, <2>4
    <3>2. cronOf'[s] = cron'
      BY <3>1 DEF RowsOK, Matching
    <3> QED
      BY <1>2, <2>4, <3>1, <3>2
  <2> QED
    BY <2>2, <2>3, <2>4
<1> QED
  BY <1>1, <1>2

(* An edit of one row concerns the key of that row only.                   *)
LEMMA OtherKeysUntouched ==
  ASSUME NEW s \in Subs, NEW k, k # KeyOf(s),
         enabled' \in {enabled \cup {s}, enabled \ {s}}
  PROVE  Matching(k)' = Matching(k)
BY DEF Matching

(* A start writes the configured cron to every row and builds the jobs     *)
(* anew.                                                                   *)
LEMMA BootStep ==
  ASSUME Inv, NEW c \in Crons, NEW on \in BOOLEAN, Boot(c, on)
  PROVE  Inv'
<1>1. RowsOK'
  BY NoneIsNoCron DEF Inv, Boot, ReloadConfig, BatchUpdateCron, RowsOK, Rows
<1>2. JobsFollowRows'
  BY DEF Inv, Boot, ReloadConfig, RestoreOnBoot, NoJobs, JobsFollowRows, Matching
<1> QED
  BY <1>1, <1>2 DEF Inv

(* The handlers that write one row and refresh its job.                    *)
LEMMA RowEditStep ==
  ASSUME Inv, NEW s \in Subs,
         \/ Subscribe(s) \/ Unsubscribe(s) \/ DeleteSchedule(s)
         \/ \E on \in BOOLEAN : SetScheduleEnabled(s, on)
  PROVE  Inv'
<1>1. /\ cron' = cron /\ started' = started /\ EnsureJobFor({KeyOf(s)})
      /\ enabled' \in {enabled \cup {s}, enabled \ {s}}
  BY DEF Subscribe, Unsubscribe, DeleteSchedule, SetScheduleEnabled,
     SubscribeKey, UnsubscribeKey, Upsert, DeleteRow, SetEnabled, Edits, process
<1>2. RowsOK'
  <2>1. CASE Subscribe(s)
    BY <2>1, NoneIsNoCron DEF Inv, RowsOK, Rows, Subscribe, SubscribeKey, Upsert, Edits, process
  <2>2. CASE Unsubscribe(s) \/ DeleteSchedule(s)
    BY <2>2 DEF Inv, RowsOK, Rows, Unsubscribe, DeleteSchedule, UnsubscribeKey, DeleteRow, Edits, process
  <2>3. CASE \E on \in BOOLEAN : SetScheduleEnabled(s, on)
    BY <2>3 DEF Inv, RowsOK, Rows, SetScheduleEnabled, SetEnabled, Edits, process
  <2> QED
    BY <2>1, <2>2, <2>3
<1>3. \A k \in Keys \ {KeyOf(s)} : Matching(k)' = Matching(k)
  BY <1>1, OtherKeysUntouched
<1> QED
  BY <1>1, <1>2, <1>3, EnsureJobForWorks DEF Inv

(* An edit of the participants looks at the jobs of the session again.     *)
LEMMA ExclusionStep ==
  ASSUME Inv, NEW s \in Subs, NEW u \in Uids, NEW on \in BOOLEAN,
         SetParticipantExcluded(s, u, on)
  PROVE  Inv'
<1>1. /\ cron' = cron /\ started' = started /\ UNCHANGED rows
      /\ EnsureJobFor(SessionKeys(s[1]))
  BY DEF SetParticipantExcluded, Edits, process
<1>2. RowsOK'
  BY <1>1 DEF Inv, RowsOK, Rows, rows
<1>3. \A k \in Keys : Matching(k)' = Matching(k)
  BY <1>1 DEF Matching, rows
<1> QED
  BY <1>1, <1>2, <1>3, EnsureJobForWorks DEF Inv

(* Whatever leaves rows, jobs and process alone.                           *)
LEMMA QuietStep ==
  ASSUME Inv, UNCHANGED <<process, rows, jobs>>
  PROVE  Inv'
BY DEF Inv, RowsOK, Rows, JobsFollowRows, Matching, process, rows

(* Every step keeps rows and jobs in agreement.                            *)
LEMMA InvStep == Inv /\ [Next]_vars => Inv'
<1> SUFFICES ASSUME Inv, [Next]_vars PROVE Inv'
  OBVIOUS
<1>1. ASSUME NEW c \in Crons, NEW on \in BOOLEAN, Boot(c, on) PROVE Inv'
  BY <1>1, BootStep
<1>2. CASE Terminate
  BY <1>2 DEF Terminate, NoJobs, Inv, RowsOK, Rows, JobsFollowRows, Matching, rows
<1>3. ASSUME NEW s \in Subs,
             \/ Subscribe(s) \/ Unsubscribe(s) \/ DeleteSchedule(s)
             \/ \E on \in BOOLEAN : SetScheduleEnabled(s, on)
      PROVE  Inv'
  BY <1>3, RowEditStep
<1>4. ASSUME NEW s \in Subs, NEW u \in Uids, NEW on \in BOOLEAN, SetParticipantExcluded(s, u, on)
      PROVE  Inv'
  BY <1>4, ExclusionStep
<1>5. ASSUME NEW k \in Keys, Fire(k) \/ TickForKey(k) PROVE Inv'
  BY <1>5, QuietStep DEF Fire, TickForKey
<1>6. CASE UserStep
  BY <1>6, QuietStep DEF UserStep
<1>7. CASE UNCHANGED vars
  BY <1>7, QuietStep DEF vars
<1> QED
  BY <1>1, <1>2, <1>3, <1>4, <1>5, <1>6, <1>7 DEF Next

(* While the scheduler runs, exactly the sessions and tasks with an        *)
(* enabled subscription have a job, at the configured time, through every  *)
(* command, Dashboard edit, restart and change of the configuration.       *)
THEOREM JobsFollow == Spec => []JobsFollowRows
<1>1. Init => Inv
  BY DEF Init, Inv, RowsOK, Rows, JobsFollowRows, Matching
<1>2. Inv => JobsFollowRows
  BY DEF Inv
<1> QED
  BY <1>1, <1>2, InvStep, PTL DEF Spec

(* No session gets a report after its last subscription to it is gone,     *)
(* though the job may have fired before.                                   *)
THEOREM ReportsWanted == Spec => []ReportsAreWanted
<1>1. Init => ReportsAreWanted
  BY DEF Init, ReportsAreWanted
<1>2. ReportsAreWanted /\ [Next]_vars => ReportsAreWanted'
  <2> SUFFICES ASSUME ReportsAreWanted, [Next]_vars PROVE ReportsAreWanted'
    OBVIOUS
  <2>1. ASSUME NEW k \in Keys, TickForKey(k) PROVE ReportsAreWanted'
    <3>1. UNCHANGED enabled
      BY <2>1 DEF TickForKey, rows
    <3>2. CASE Wanted(k) /\ CollectTickUsers(k) # {}
      <4>1. reported'.key = k /\ Matching(k) # {}
        BY <2>1, <3>2 DEF TickForKey, Wanted
      <4> QED
        BY <3>1, <4>1 DEF ReportsAreWanted, Matching
    <3>3. CASE ~(Wanted(k) /\ CollectTickUsers(k) # {})
      BY <2>1, <3>3 DEF TickForKey, ReportsAreWanted
    <3> QED
      BY <3>2, <3>3
  <2>2. CASE UNCHANGED vars
    BY <2>2 DEF vars, rows, ReportsAreWanted, Matching
  <2>3. CASE reported' = None
    BY <2>3 DEF ReportsAreWanted
  <2> QED
    BY <2>1, <2>2, <2>3 DEF Next, Boot, Terminate, Subscribe, Unsubscribe, DeleteSchedule,
       SetScheduleEnabled, SetParticipantExcluded, Edits, Fire, UserStep
<1> QED
  BY <1>1, <1>2, PTL DEF Spec

--------------------------------------------------------------------------------
(* The user table does what UserStore says, whatever becomes of the rows,  *)
(* the jobs and the process; so its types are those UserStore proves.      *)
UserTable == INSTANCE UserStoreProofs

(* Every behaviour of this module is one of the user table.                *)
LEMMA UsersRefined == Spec => UserTable!Spec
<1>1. Init => UserTable!Init
  BY DEF Init, Users!Init, UserTable!Init
<1>2. [Next]_vars => [UserTable!Next]_UserTable!vars
  <2>1. Users!Next => UserTable!Next
    BY Zenon
       DEF Users!Next, UserTable!Next,
           Users!AddOrUpdate, UserTable!AddOrUpdate,
           Users!HeldByOther, UserTable!HeldByOther,
           Users!Deactivated, UserTable!Deactivated,
           Users!RowsAt, UserTable!RowsAt, Users!RowsOf, UserTable!RowsOf,
           Users!Bound, UserTable!Bound,
           Users!SwitchActive, UserTable!SwitchActive,
           Users!Activate, UserTable!Activate, Users!Drop, UserTable!Drop,
           Users!Fallbacks, UserTable!Fallbacks, Users!Remove, UserTable!Remove,
           Users!DeleteAccount, UserTable!DeleteAccount,
           Users!SetAuto, UserTable!SetAuto,
           Users!SetAutoCheckin, UserTable!SetAutoCheckin,
           Users!BeginCleanup, UserTable!BeginCleanup,
           Users!IsFriend, UserTable!IsFriend,
           Users!CheckFriend, UserTable!CheckFriend,
           Users!FinishCleanup, UserTable!FinishCleanup,
           Users!Clock, UserTable!Clock, Users!columns, UserTable!columns,
           Users!cleanup, UserTable!cleanup
  <2>2. UNCHANGED userVars => UNCHANGED UserTable!vars
    BY DEF userVars, UserTable!vars, UserTable!columns, UserTable!cleanup
  <2>3. [Next]_vars => Users!Next \/ UNCHANGED userVars
    BY DEF Next, Boot, Terminate, Subscribe, Unsubscribe, DeleteSchedule, SetScheduleEnabled,
       SetParticipantExcluded, Edits, Fire, TickForKey, UserStep, vars
  <2> QED
    BY <2>1, <2>2, <2>3
<1> QED
  BY <1>1, <1>2, PTL DEF Spec, UserTable!Spec

(* What UserStore asks of its constants.                                   *)
LEMMA UserConstants == UserTable!NobodyAssumption /\ UserTable!TimeAssumption
BY UsersAssumption
   DEF UserTable!NobodyAssumption, UserTable!TimeAssumption, Users!Platforms,
       UserTable!Platforms

(* The instance of the user table inside this module is typed.             *)
LEMMA UsersTyped == Spec => []Users!TypeOK
<1>1. UserTable!Spec => []UserTable!TypeOK
  BY UserConstants, UserTable!TypeCorrect
<1>2. UserTable!TypeOK => Users!TypeOK
  BY DEF Users!TypeOK, UserTable!TypeOK, Users!TableOK, UserTable!TableOK,
         Users!CleanupOK, UserTable!CleanupOK, Users!Bound, UserTable!Bound,
         Users!Platforms, UserTable!Platforms
<1> QED
  BY <1>1, <1>2, UsersRefined, PTL

(* _get_active_for_account has one answer at most: the accounts here are   *)
(* used on one platform, and of such UserStore proves it.                  *)
OneActiveEach == \A u, v \in active : account[u] = account[v] => u = v

THEOREM OneAnswerPerAccount == Spec => []OneActiveEach
<1>1. UserTable!Spec => []UserTable!OneActiveOnOnePlatform
  BY UserConstants, UserTable!OneActive
<1>2. UserTable!OneActiveOnOnePlatform /\ Users!TypeOK => OneActiveEach
  <2> SUFFICES ASSUME UserTable!OneActiveOnOnePlatform, Users!TypeOK,
                      NEW u \in active, NEW v \in active, account[u] = account[v]
               PROVE  u = v
    BY DEF OneActiveEach
  <2> DEFINE a == account[u]
  <2>1. u \in Uids /\ v \in Uids /\ a # Nobody /\ a \in Accounts
    BY DEF Users!TypeOK, Users!TableOK, Users!Bound
  <2>2. u \in UserTable!RowsOf(a) /\ v \in UserTable!RowsOf(a)
    BY <2>1 DEF UserTable!RowsOf, UserTable!Bound
  <2> HIDE DEF a
  <2>3. PICK p \in Users!Platforms : PlatformsOf[a] = {p}
    BY <2>1, OnePlatformAssumption
  <2>4. p \in UserTable!Platforms
    BY DEF Users!Platforms, UserTable!Platforms
  <2> QED
    BY <2>1, <2>2, <2>3, <2>4 DEF UserTable!OneActiveOnOnePlatform
<1> QED
  BY <1>1, <1>2, UsersRefined, UsersTyped, PTL

--------------------------------------------------------------------------------
(* Reports.                                                                *)

(* A tick only reads what it collects from.                                *)
LEMMA CollectionReads ==
  ASSUME UNCHANGED <<rows, excluded, userVars>>
  PROVE  /\ \A umo : SessionUsers(umo)' = SessionUsers(umo)
         /\ Union' = Union
<1>1. \A umo : SessionUsers(umo)' = SessionUsers(umo)
  <2> SUFFICES ASSUME NEW umo PROVE SessionUsers(umo)' = SessionUsers(umo)
    OBVIOUS
  <2> DEFINE S == Matching(<<umo, "session">>)
             M == UNION {ActiveFor(s[2]) : s \in S}
  <2>1. S' = S
    BY DEF Matching, rows
  <2>2. \A a : ActiveFor(a)' = ActiveFor(a)
    BY DEF ActiveFor, userVars
  <2>3. M' = M
    BY <2>1, <2>2
  <2>4. \A u : MayRun(umo, u)' <=> MayRun(umo, u)
    BY DEF MayRun, ExcludedUids, userVars
  <2>5. \A u : u \in SessionUsers(umo) <=> u \in M /\ MayRun(umo, u)
    BY DEF SessionUsers
  <2>6. \A u : u \in SessionUsers(umo)' <=> u \in M' /\ MayRun(umo, u)'
    BY DEF SessionUsers
  <2> HIDE DEF M
  <2> QED
    BY <2>3, <2>4, <2>5, <2>6
<1> QED
  BY <1>1 DEF Union

(* Any two users that take part in sessions have different accounts.       *)
LEMMA SessionsAreSingle ==
  ASSUME OneActiveEach, NEW u \in Union, NEW v \in Union, account[u] = account[v]
  PROVE  u = v
<1>1. Union \subseteq active
  <2>1. \A umo : SessionUsers(umo) \subseteq active
    BY DEF SessionUsers, ActiveFor
  <2> QED
    BY <2>1 DEF Union
<1> QED
  BY <1>1 DEF OneActiveEach

(* README.md:50: a report of a session is about its subscriptions and a    *)
(* global one about those of all sessions, no account counted twice,       *)
(* whatever became of the users before.                                    *)
THEOREM ReportsMatch == Spec => []ReportsMatchSessions
<1>1. Init => ReportsMatchSessions
  BY DEF Init, ReportsMatchSessions
<1>2. ASSUME OneActiveEach, ReportsMatchSessions, [Next]_vars
      PROVE  ReportsMatchSessions'
  <2>1. ASSUME NEW k \in Keys, TickForKey(k)
        PROVE  ReportsMatchSessions'
    <3>1. UNCHANGED <<rows, excluded, userVars>> /\ account' = account
      BY <2>1 DEF TickForKey, userVars
    <3>2. CASE Wanted(k) /\ CollectTickUsers(k) # {}
      <4>1. reported' = [key |-> k, users |-> CollectTickUsers(k)]
        BY <2>1, <3>2 DEF TickForKey
      <4>2. ASSUME k[2] = "all"
            PROVE  \A umo \in Umos : SessionUsers(umo) \subseteq CollectTickUsers(k)
        BY <4>2 DEF CollectTickUsers, GlobalUsers, Union
      <4>3. ASSUME k[2] = "session" \/ Union # {}
            PROVE  CollectTickUsers(k) \subseteq Union
        <5>1. k[1] \in Umos
          BY SubsAssumption DEF Keys, KeyOf
        <5> QED
          BY <4>3, <5>1 DEF CollectTickUsers, GlobalUsers, Union
      <4>4. ASSUME k[2] = "session" \/ Union # {}
            PROVE  \A u, v \in CollectTickUsers(k) : account[u] = account[v] => u = v
        BY <1>2, <4>3, <4>4, SessionsAreSingle
      <4> QED
        BY <3>1, <4>1, <4>2, <4>4, CollectionReads DEF ReportsMatchSessions
    <3> QED
      BY <2>1, <3>2 DEF TickForKey, ReportsMatchSessions
  <2>2. CASE UNCHANGED vars
    <3>1. UNCHANGED <<rows, excluded, userVars>> /\ account' = account /\ reported' = reported
      BY <2>2 DEF vars, userVars
    <3> QED
      BY <1>2, <3>1, CollectionReads DEF ReportsMatchSessions
  <2>3. CASE reported' = None
    BY <2>3 DEF ReportsMatchSessions
  <2> QED
    BY <1>2, <2>1, <2>2, <2>3
       DEF Next, Boot, Terminate, Subscribe, Unsubscribe, DeleteSchedule, SetScheduleEnabled,
           SetParticipantExcluded, Edits, Fire, UserStep
<1> QED
  BY <1>1, <1>2, OneAnswerPerAccount, PTL DEF Spec

--------------------------------------------------------------------------------
(* The rest of TypeOK.                                                     *)
ProcessOK ==
  /\ up \in BOOLEAN /\ started \in BOOLEAN /\ boots \in 0 .. MaxBoots
  /\ started => up

JobsOK == jobs \in [Keys -> Crons \cup {None}] /\ pending \subseteq Keys

TicksOK ==
  /\ excluded \subseteq Umos \X Uids
  /\ reported \in [key : Keys, users : SUBSET Uids] \cup {None}

OwnTypes == ProcessOK /\ JobsOK /\ TicksOK

(* A tick collects bound accounts.                                         *)
LEMMA TicksTyped ==
  ASSUME Users!TypeOK, NEW k \in Keys
  PROVE  CollectTickUsers(k) \subseteq Uids
<1>1. active \subseteq Uids /\ Users!Bound \subseteq Uids
  BY DEF Users!TypeOK, Users!TableOK, Users!Bound
<1>2. \A umo : SessionUsers(umo) \subseteq Uids
  BY <1>1 DEF SessionUsers, ActiveFor
<1>3. \A umo : GlobalUsers(umo) \subseteq Uids
  BY <1>1, <1>2 DEF GlobalUsers, Union
<1> QED
  BY <1>2, <1>3 DEF CollectTickUsers

(* Every step keeps the types of rows, jobs and exclusions.                *)
LEMMA OwnTypesStep ==
  ASSUME Inv, OwnTypes, Users!TypeOK, [Next]_vars
  PROVE  OwnTypes'
<1>1. ProcessOK'
  <2>1. ASSUME NEW c \in Crons, NEW on \in BOOLEAN, Boot(c, on)
        PROVE  ProcessOK'
    <3>1. up' \in BOOLEAN /\ started' \in BOOLEAN /\ (started' => up')
      BY <2>1, Zenon DEF Boot
    <3>2. boots' \in 0 .. MaxBoots
      BY <2>1, SubsAssumption DEF Boot, OwnTypes, ProcessOK
    <3> QED
      BY <3>1, <3>2, Zenon DEF ProcessOK
  <2>2. CASE Terminate
    <3>1. up' \in BOOLEAN /\ started' \in BOOLEAN /\ (started' => up') /\ boots' = boots
      BY <2>2, Zenon DEF Terminate
    <3> QED
      BY <3>1, Zenon DEF OwnTypes, ProcessOK
  <2>3. CASE UNCHANGED process
    BY <2>3, Zenon DEF OwnTypes, ProcessOK, process
  <2> QED
    BY <2>1, <2>2, <2>3
       DEF Next, Subscribe, Unsubscribe, DeleteSchedule, SetScheduleEnabled,
           SetParticipantExcluded, Edits, Fire, TickForKey, UserStep, vars
<1>2. JobsOK'
  <2>1. jobs' \in [Keys -> Crons \cup {None}]
    <3>1. ASSUME NEW ks, EnsureJobFor(ks)
          PROVE  jobs' \in [Keys -> Crons \cup {None}]
      BY <3>1 DEF EnsureJobFor, OwnTypes, JobsOK
    <3>2. ASSUME NEW c \in Crons, NEW on \in BOOLEAN, Boot(c, on)
          PROVE  jobs' \in [Keys -> Crons \cup {None}]
      BY <3>2 DEF Boot, RestoreOnBoot, NoJobs
    <3>3. CASE Terminate
      BY <3>3 DEF Terminate, NoJobs
    <3>4. CASE UNCHANGED jobs
      BY <3>4 DEF OwnTypes, JobsOK
    <3> QED
      BY <3>1, <3>2, <3>3, <3>4
         DEF Next, Subscribe, SubscribeKey, Unsubscribe, UnsubscribeKey, DeleteSchedule,
             SetScheduleEnabled, SetParticipantExcluded, Fire, TickForKey, UserStep, vars
  <2>2. pending' \subseteq Keys
    BY DEF OwnTypes, JobsOK, Next, Boot, Terminate, Subscribe, Unsubscribe, DeleteSchedule,
       SetScheduleEnabled, SetParticipantExcluded, Edits, Fire, TickForKey, UserStep, vars
  <2> QED
    BY <2>1, <2>2 DEF JobsOK
<1>3. TicksOK'
  <2> USE DEF OwnTypes, TicksOK
  <2>1. ASSUME NEW s \in Subs, NEW u \in Uids, NEW on \in BOOLEAN, SetParticipantExcluded(s, u, on)
        PROVE  TicksOK'
    <3>1. s[1] \in Umos
      BY SubsAssumption
    <3> QED
      BY <2>1, <3>1 DEF SetParticipantExcluded, Edits, Exclude, Restore
  <2>2. ASSUME NEW k \in Keys, TickForKey(k)
        PROVE  TicksOK'
    BY <2>2, TicksTyped DEF TickForKey
  <2>3. CASE UNCHANGED excluded /\ (UNCHANGED reported \/ reported' = None)
    BY <2>3
  <2> QED
    BY <2>1, <2>2, <2>3
       DEF Next, Boot, Terminate, Subscribe, Unsubscribe, DeleteSchedule, SetScheduleEnabled,
           Edits, Fire, UserStep, vars
<1> QED
  BY <1>1, <1>2, <1>3 DEF OwnTypes

(* Type correctness: the subscriptions keep their types, and so does the   *)
(* user table they share the event loop with.                              *)
THEOREM TypeCorrect == Spec => []TypeOK
<1>1. Init => OwnTypes
  <2> SUFFICES ASSUME Init PROVE OwnTypes
    OBVIOUS
  <2>1. up = FALSE /\ started = FALSE /\ boots \in 0 .. MaxBoots
    BY SubsAssumption DEF Init
  <2>2. ProcessOK
    BY <2>1, Zenon DEF ProcessOK
  <2>3. JobsOK /\ TicksOK
    BY DEF Init, JobsOK, TicksOK
  <2> QED
    BY <2>2, <2>3 DEF OwnTypes
<1>2. Inv /\ OwnTypes /\ Users!TypeOK /\ [Next]_vars => OwnTypes'
  BY OwnTypesStep
<1>3. Inv /\ OwnTypes /\ Users!TypeOK => TypeOK
  BY Zenon DEF Inv, RowsOK, OwnTypes, ProcessOK, JobsOK, TicksOK, TypeOK
<1>4. Init => Inv
  BY DEF Init, Inv, RowsOK, Rows, JobsFollowRows, Matching
<1> QED
  BY <1>1, <1>2, <1>3, <1>4, InvStep, UsersTyped, PTL DEF Spec
================================================================================
