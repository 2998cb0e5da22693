------------------------ MODULE CheckinSchedulerProofs ------------------------
(***************************************************************************)
(* Proofs about CheckinScheduler for any number of callers, uids, days and *)
(* permits.  Types come first, in the three groups of TypeOK; then the     *)
(* sharing of runs, the permits, what the records are worth, and the       *)
(* refinement of SingleFlight.                                             *)
(***************************************************************************)
EXTENDS CheckinScheduler, TLAPS, FiniteSetTheorems

USE DEF Jobs

(* Facts about the constants that every proof below needs.                 *)
LEMMA Constants ==
  /\ MaxDay \in Nat /\ MaxCrash \in Nat /\ Concurrency \in Nat \ {0}
  /\ Waiters \cap Manuals = {}
  /\ None \notin Waiters
  /\ \A w \in Waiters : w[1] \in Callers /\ w[2] \in Uids
  /\ \A j \in Jobs : j[2] \in Uids
BY ConstantsAssumption DEF Waiters, Manuals, Callers

(* A period is named by a day.                                             *)
LEMMA PeriodsAreDays ==
  ASSUME NEW t \in Tasks, NEW d \in Days
  PROVE  Period(t, d) \in Days
BY ConstantsAssumption DEF Period

(* A later day is not in an earlier period.                                *)
LEMMA PeriodsAdvance ==
  ASSUME NEW t \in Tasks, NEW d \in Days, NEW e \in Days, d <= e
  PROVE  Period(t, d) <= Period(t, e)
BY ConstantsAssumption DEF Period

--------------------------------------------------------------------------------
(* The steps of the specification, and what each group leaves alone.       *)
LEMMA StepCases ==
  ASSUME [Next]_vars
  PROVE  \/ \E c \in Callers, users \in SUBSET Uids :
              Gather(c, users) /\ UNCHANGED <<running, ride, kday, inflight, jobVars,
                                   cancelreq, permits, record, worldVars>>
         \/ \E c \in Callers : CallerStep(c)
         \/ Stop
         \/ \E w \in Waiters : CheckinUser(w) \/ NeverStarted(w) \/ AwaitEnds(w)
         \/ \E j \in Jobs : DoCheckinBoth(j) \/ SpCheckin(j)
         \/ \E j \in Jobs : ThreadStep(j)
         \/ \E j \in Jobs : RecordAndReturn(j) \/ RecordFails(j) \/ TaskCancelled(j)
         \/ \E u \in Uids, t \in Tasks : SignedElsewhere(u, t)
         \/ Midnight \/ Crash
         \/ UNCHANGED vars
<1>1. ASSUME NEW c \in Callers, TickForKey(c) \/ RunAllCheckins(c)
      PROVE  \E users \in SUBSET Uids :
               Gather(c, users) /\ UNCHANGED <<running, ride, kday, inflight, jobVars,
                                    cancelreq, permits, record, worldVars>>
  BY <1>1 DEF TickForKey, RunAllCheckins
<1> QED
  BY <1>1, Zenon DEF Next, WaiterStep, JobStep

(* What a step of a caller leaves alone.                                   *)
LEMMA CallersFrame ==
  ASSUME NEW c \in Callers, CallerStep(c)
  PROVE  /\ cpc' \in {[cpc EXCEPT ![c] = s] : s \in {"push", "finished", "failed", "cancelled"}}
         /\ cpc[c] \in {"gather", "push", "cancelling"}
         /\ UNCHANGED <<running, waitVars, jobVars, cancelreq, permits, record, worldVars>>
BY DEF CallerStep, GatherDone, GatherRaises, GatherCancelled, PushReport

(* What a step of _checkin_user leaves alone.                              *)
LEMMA WaitersFrame ==
  ASSUME NEW w \in Waiters, CheckinUser(w) \/ NeverStarted(w) \/ AwaitEnds(w)
  PROVE  UNCHANGED <<callerVars, today, plan, todo, out, cancelreq, permits, record, worldVars>>
BY DEF CheckinUser, NeverStarted, AwaitEnds, jobVars

(* What a step of a run leaves alone.                                      *)
LEMMA JobsFrame ==
  ASSUME NEW j \in Jobs,
         \/ DoCheckinBoth(j) \/ SpCheckin(j) \/ ThreadStep(j)
         \/ RecordAndReturn(j) \/ RecordFails(j) \/ TaskCancelled(j)
  PROVE  UNCHANGED <<callerVars, waitVars, cancelreq, day, crashes>>
BY DEF DoCheckinBoth, SpCheckin, ThreadStep, ServiceApply, ServiceCollect, ServiceRaises,
       RecordAndReturn, RecordFails, Return, TaskCancelled, worldVars

--------------------------------------------------------------------------------
(* Types.  Permits are bounded by their conservation, further down.        *)
Types == running \in BOOLEAN /\ CallersOK /\ JobsOK /\ WorldOK

(* Every step keeps the types of callers and waiters.                      *)
LEMMA CallersTyped ==
  ASSUME CallersOK, WorldOK, [Next]_vars
  PROVE  CallersOK'
<1> USE DEF CallersOK, Ended
<1>1. ASSUME NEW c \in Callers, NEW users \in SUBSET Uids, Gather(c, users),
             UNCHANGED <<ride, kday, inflight>>
      PROVE  CallersOK'
  BY <1>1 DEF Gather
<1>2. ASSUME NEW c \in Callers, CallerStep(c)
      PROVE  CallersOK'
  BY <1>2, CallersFrame DEF waitVars
<1>3. CASE Stop
  BY <1>3 DEF Stop, waitVars
<1>4. ASSUME NEW w \in Waiters, CheckinUser(w)
      PROVE  CallersOK'
  <2>1. day \in Days /\ <<w[2], day>> \in Keys
    BY Constants DEF WorldOK, Keys
  <2> QED
    BY <1>4, <2>1 DEF CheckinUser, RunningTask, callerVars
<1>5. ASSUME NEW w \in Waiters, NeverStarted(w)
      PROVE  CallersOK'
  BY <1>5 DEF NeverStarted, callerVars
<1>6. ASSUME NEW w \in Waiters, AwaitEnds(w)
      PROVE  CallersOK'
  <2>1. wpc' \in [Waiters -> {"none", "start", "await"} \cup Ended]
    BY <1>6 DEF AwaitEnds, Final
  <2>2. inflight' \in [Keys -> Waiters \cup {None}]
    BY <1>6 DEF AwaitEnds, Popped
  <2> QED
    BY <1>6, <2>1, <2>2 DEF AwaitEnds, callerVars
<1>7. CASE Crash
  BY <1>7 DEF Crash
<1>8. CASE UNCHANGED <<callerVars, waitVars>>
  BY <1>8 DEF callerVars, waitVars
<1>9. CASE Midnight \/ (\E u \in Uids, t \in Tasks : SignedElsewhere(u, t)) \/ UNCHANGED vars
  BY <1>8, <1>9 DEF Midnight, SignedElsewhere, vars
<1> HIDE DEF CallersOK, Ended
<1> QED
  BY StepCases, JobsFrame, <1>1, <1>2, <1>3, <1>4, <1>5, <1>6, <1>7, <1>8, <1>9

(* What the service answers, and what it does to the site.                 *)
LEMMA ApplyTyped ==
  ASSUME NEW S, NEW p
  PROVE  ApplyOutcomes(S, p) \subseteq Outcomes
BY DEF ApplyOutcomes, Outcomes, Status

(* A collect call is answered by success or failed, and hands out at most  *)
(* the reward of the present period.                                       *)
LEMMA CollectTyped ==
  ASSUME NEW S, NEW p, NEW q
  PROVE  \A o \in CollectOutcomes(S, q, p) :
           o[1] \in {"success", "failed"} /\ o[2] \subseteq S \cup {p}
BY DEF CollectOutcomes

(* The task a thread works at is one it has yet to do.                     *)
LEMMA CurrentIsTodo ==
  ASSUME JobsOK, NEW j \in Jobs, todo[j] # {}
  PROVE  Current(j) \in todo[j] /\ Current(j) \in Tasks
<1>1. Tasks \subseteq {"daily", "weekly"}
  BY ConstantsAssumption
<1>2. todo[j] \subseteq Tasks
  BY DEF JobsOK
<1>3. Current(j) \in todo[j]
  BY <1>1, <1>2 DEF Current
<1> QED
  BY <1>2, <1>3

(* A record that a run looks up or writes is one of the table.             *)
LEMMA SlotTyped ==
  ASSUME NEW j \in Jobs, NEW t \in Tasks, NEW d \in Days
  PROVE  Slot(j[2], t, d) \in Slots
BY Constants, PeriodsAreDays DEF Slot, Slots

(* The cache check of a run keeps the types.                               *)
LEMMA PrepareTyped ==
  ASSUME JobsOK, WorldOK, NEW j \in Jobs, Prepare(j)
  PROVE  /\ st' \in [Jobs -> {"none", "ready", "calling"} \cup Final]
         /\ today' \in [Jobs -> Days]
         /\ plan' \in [Jobs -> SUBSET Tasks]
         /\ todo' \in [Jobs -> SUBSET Tasks]
         /\ out' \in [Jobs -> [Tasks -> Outcomes]]
<1>1. Missing(j) \subseteq Tasks
  BY DEF Missing
<1>2. \A t \in Tasks \ Missing(j) : record[Slot(j[2], t, day)] \in Outcomes
  BY DEF Missing, Genuine, Trusted, Outcomes, Status
<1>3. 0 \in Days /\ day \in Days
  BY Constants DEF Days, WorldOK
<1>4. [t \in Tasks |-> IF t \in Missing(j) THEN "none" ELSE record[Slot(j[2], t, day)]]
        \in [Tasks -> Outcomes]
  BY <1>2 DEF Outcomes
<1> QED
  BY <1>1, <1>3, <1>4 DEF Prepare, JobsOK, Final

(* Every step keeps the types of the runs.                                 *)
LEMMA JobsTyped ==
  ASSUME JobsOK, WorldOK, [Next]_vars
  PROVE  JobsOK'
<1> USE DEF JobsOK
<1>1. ASSUME UNCHANGED <<jobVars, cancelreq>>
      PROVE  JobsOK'
  BY <1>1 DEF jobVars
<1>2. CASE Stop
  BY <1>2 DEF Stop, jobVars
<1>3. ASSUME NEW w \in Waiters, CheckinUser(w) \/ NeverStarted(w) \/ AwaitEnds(w)
      PROVE  JobsOK'
  <2>1. st' \in [Jobs -> {"none", "ready", "calling"} \cup Final]
    BY <1>3 DEF CheckinUser, NeverStarted, AwaitEnds, jobVars
  <2> QED
    BY <1>3, <2>1, WaitersFrame
<1>4. ASSUME NEW j \in Jobs, DoCheckinBoth(j) \/ SpCheckin(j)
      PROVE  JobsOK'
  BY <1>4, PrepareTyped, JobsFrame DEF DoCheckinBoth, SpCheckin
<1>5. ASSUME NEW j \in Jobs, ThreadStep(j)
      PROVE  JobsOK'
  <2>1. CASE ServiceApply(j)
    <3> DEFINE t == Current(j)
    <3>1. t \in Tasks
      BY <2>1, CurrentIsTodo DEF ServiceApply
    <3>2. Period(t, day) \in Days
      BY <3>1, PeriodsAreDays DEF WorldOK
    <3>3. PICK o \in Outcomes :
               /\ out' = [out EXCEPT ![j][t] = o]
               /\ todo' = [todo EXCEPT ![j] = IF o = "applied" THEN @ ELSE @ \ {t}]
      <4>1. ApplyOutcomes(CollectedPeriods(j[2], t), Period(t, day)) \subseteq Outcomes
        BY ApplyTyped
      <4> QED
        BY <2>1, <4>1 DEF ServiceApply
    <3> HIDE DEF t
    <3> QED
      BY <2>1, <3>1, <3>3 DEF ServiceApply
  <2>2. CASE ServiceCollect(j)
    <3> DEFINE t == Current(j)
    <3>1. t \in Tasks
      BY <2>2, CurrentIsTodo DEF ServiceCollect
    <3>2. Period(t, day) \in Days
      BY <3>1, PeriodsAreDays DEF WorldOK
    <3>3. PICK o \in Outcomes : out' = [out EXCEPT ![j][t] = o]
      <4>1. PICK o \in CollectOutcomes(CollectedPeriods(j[2], t), Period(t, today[j]), Period(t, day)) :
                 out' = [out EXCEPT ![j][t] = o[1]]
        BY <2>2 DEF ServiceCollect
      <4>2. o[1] \in Outcomes
        BY <4>1, CollectTyped DEF Outcomes, Status
      <4> QED
        BY <4>1, <4>2
    <3>4. todo' = [todo EXCEPT ![j] = @ \ {t}]
      BY <2>2 DEF ServiceCollect
    <3> HIDE DEF t
    <3> QED
      BY <2>2, <3>1, <3>3, <3>4 DEF ServiceCollect
  <2>3. CASE ServiceRaises(j)
    BY <2>3 DEF ServiceRaises, Outcomes
  <2> QED
    BY <1>5, <2>1, <2>2, <2>3 DEF ThreadStep
<1>6. ASSUME NEW j \in Jobs, RecordAndReturn(j) \/ RecordFails(j) \/ TaskCancelled(j)
      PROVE  JobsOK'
  <2>1. 0 \in Days
    BY Constants DEF Days
  <2>2. PICK state \in Final : Leave(j, state)
    BY <1>6 DEF RecordAndReturn, RecordFails, TaskCancelled, Return, Final
  <2>3. UNCHANGED <<todo, out, cancelreq>>
    BY <1>6 DEF RecordAndReturn, RecordFails, TaskCancelled, Return
  <2> QED
    BY <2>1, <2>2, <2>3 DEF Leave
<1>7. CASE Crash
  <2>1. 0 \in Days
    BY Constants DEF Days
  <2> QED
    BY <1>7, <2>1 DEF Crash, Final
<1>8. CASE Midnight \/ (\E u \in Uids, t \in Tasks : SignedElsewhere(u, t)) \/ UNCHANGED vars
  BY <1>1, <1>8 DEF Midnight, SignedElsewhere, vars
<1> HIDE DEF JobsOK
<1> QED
  BY StepCases, CallersFrame, <1>1, <1>2, <1>3, <1>4, <1>5, <1>6, <1>7, <1>8

(* Writing a prefix of the answered tasks keeps the table's types.         *)
LEMMA WriteTyped ==
  ASSUME JobsOK, WorldOK, NEW j \in Jobs, NEW ts, ts \subseteq Answered(j), Write(j, ts)
  PROVE  record' \in [Slots -> Status \cup {"none", "stale"}]
<1>1. \A s \in Slots, t \in ts : s = Slot(j[2], t, today[j]) => s[2] = t
  BY DEF Slot
<1>2. \A t \in ts : out[j][t] \in Status
  BY DEF Answered
<1> QED
  BY <1>1, <1>2 DEF Write, WorldOK

(* Every step keeps the types of the records, the clock and the site.      *)
LEMMA WorldTyped ==
  ASSUME JobsOK, WorldOK, [Next]_vars
  PROVE  WorldOK'
<1> USE DEF WorldOK
<1>1. ASSUME UNCHANGED <<record, worldVars>>
      PROVE  WorldOK'
  BY <1>1 DEF worldVars
<1>2. ASSUME NEW j \in Jobs, DoCheckinBoth(j) \/ SpCheckin(j)
      PROVE  WorldOK'
  BY <1>1, <1>2 DEF DoCheckinBoth, SpCheckin
<1>3. ASSUME NEW j \in Jobs, ThreadStep(j)
      PROVE  WorldOK'
  <2>1. CASE ServiceCollect(j)
    <3> DEFINE t == Current(j)
               u == j[2]
    <3>1. t \in Tasks /\ u \in Uids
      BY <2>1, CurrentIsTodo, Constants DEF ServiceCollect
    <3>2. Period(t, day) \in Days
      BY <3>1, PeriodsAreDays
    <3>4. collected' \subseteq Slots
      <4>1. PICK o \in CollectOutcomes(CollectedPeriods(u, t), Period(t, today[j]), Period(t, day)) :
                 collected' = collected \cup {<<u, t, p>> : p \in o[2]}
        BY <2>1 DEF ServiceCollect
      <4>2. o[2] \subseteq CollectedPeriods(u, t) \cup {Period(t, day)}
        BY <4>1, CollectTyped
      <4>3. o[2] \subseteq Days
        BY <3>2, <4>2 DEF CollectedPeriods
      <4> HIDE DEF t, u
      <4> QED
        BY <3>1, <4>1, <4>3 DEF Slots
    <3> QED
      BY <2>1, <3>4 DEF ServiceCollect
  <2>2. CASE ServiceApply(j) \/ ServiceRaises(j)
    BY <1>1, <2>2 DEF ServiceApply, ServiceRaises
  <2> QED
    BY <1>3, <2>1, <2>2 DEF ThreadStep
<1>4. ASSUME NEW j \in Jobs, RecordAndReturn(j) \/ RecordFails(j) \/ TaskCancelled(j)
      PROVE  WorldOK'
  <2>1. CASE TaskCancelled(j)
    BY <1>1, <2>1 DEF TaskCancelled
  <2>2. CASE RecordAndReturn(j) \/ RecordFails(j)
    <3>1. PICK ts : ts \subseteq Answered(j) /\ Write(j, ts)
      BY <2>2 DEF RecordAndReturn, RecordFails
    <3> QED
      BY <2>2, <3>1, WriteTyped DEF RecordAndReturn, RecordFails, Return, worldVars
  <2> QED
    BY <1>4, <2>1, <2>2
<1>5. ASSUME NEW u \in Uids, NEW t \in Tasks, SignedElsewhere(u, t)
      PROVE  WorldOK'
  BY <1>5, PeriodsAreDays DEF SignedElsewhere, Slot, Slots
<1>6. CASE Midnight
  BY <1>6, Constants DEF Midnight, Days
<1>7. CASE Crash
  BY <1>7, Constants DEF Crash
<1>8. CASE Stop \/ UNCHANGED vars
  BY <1>1, <1>8 DEF Stop, vars
<1> HIDE DEF WorldOK
<1> QED
  BY StepCases, CallersFrame, WaitersFrame, <1>1, <1>2, <1>3, <1>4, <1>5, <1>6, <1>7, <1>8

(* Type correctness but for the range of the permits.                      *)
LEMMA Typed == Spec => []Types
<1>1. Init => Types
  <2> SUFFICES ASSUME Init PROVE Types
    OBVIOUS
  <2>1. 0 \in Days /\ 0 \in 0 .. MaxCrash
    BY Constants DEF Days
  <2>2. CallersOK
    BY <2>1 DEF Init, CallersOK
  <2>3. JobsOK
    BY <2>1 DEF Init, JobsOK, Outcomes
  <2>4. WorldOK
    BY <2>1 DEF Init, WorldOK
  <2>5. running \in BOOLEAN
    BY Zenon DEF Init
  <2> QED
    BY <2>2, <2>3, <2>4, <2>5 DEF Types
<1>2. Types /\ [Next]_vars => Types'
  <2> SUFFICES ASSUME Types, [Next]_vars PROVE Types'
    OBVIOUS
  <2>1. CASE UNCHANGED running
    BY <2>1, CallersTyped, JobsTyped, WorldTyped DEF Types
  <2>2. CASE running' = TRUE \/ running' = FALSE
    BY <2>2, CallersTyped, JobsTyped, WorldTyped DEF Types
  <2>3. \/ UNCHANGED running
        \/ running' = TRUE \/ running' = FALSE
    BY StepCases, CallersFrame, WaitersFrame, JobsFrame
       DEF Stop, Crash, Midnight, SignedElsewhere, vars, callerVars
  <2> QED
    BY <2>1, <2>2, <2>3
<1> QED
  BY <1>1, <1>2, PTL DEF Spec

--------------------------------------------------------------------------------
(* Sharing.  EntryHasOwner and AtMostOneRunPerKey are inductive together   *)
(* with the converse of the former, every unfinished shared task is in     *)
(* _checkin_inflight under its key, and with waiters being unused as long  *)
(* as their caller is idle.                                                *)
IdleCallersHaveNoWaiters ==
  \A w \in Waiters : cpc[w[1]] = "idle" => wpc[w] = "none"

LiveTaskIsEntered ==
  \A w \in Waiters : Live(w) => inflight[KeyOf(w)] = w

Sharing == IdleCallersHaveNoWaiters /\ EntryHasOwner /\ LiveTaskIsEntered

(* A waiter that has not begun owns no task yet.                           *)
LEMMA StartingOwnsNothing ==
  ASSUME CallersOK, Sharing, NEW w \in Waiters, wpc[w] = "start"
  PROVE  ~Live(w) /\ \A k \in Keys : inflight[k] # w
<1>1. \A k \in Keys : inflight[k] # w
  BY Constants DEF Sharing, EntryHasOwner
<1>2. KeyOf(w) \in Keys
  BY Constants DEF CallersOK, Keys, KeyOf
<1> QED
  BY <1>1, <1>2 DEF Sharing, LiveTaskIsEntered

(* Every step keeps the agreement of tasks, entries and waiters.           *)
LEMMA SharingStep ==
  ASSUME CallersOK, JobsOK, WorldOK, Sharing, [Next]_vars
  PROVE  Sharing'
<1> USE DEF Sharing, IdleCallersHaveNoWaiters, EntryHasOwner, LiveTaskIsEntered,
            Live, KeyOf
<1>a. \A w \in Waiters : w[1] \in Callers /\ w[2] \in Uids
  BY DEF Waiters
<1>1. ASSUME NEW c \in Callers, NEW users \in SUBSET Uids, Gather(c, users),
             UNCHANGED <<ride, kday, inflight, st>>
      PROVE  Sharing'
  BY <1>1 DEF Gather, CallersOK
<1>2. ASSUME NEW c \in Callers, CallerStep(c)
      PROVE  Sharing'
  <2>1. UNCHANGED <<waitVars, jobVars>>
    BY <1>2, CallersFrame
  <2>2. \A e \in Callers : cpc'[e] = "idle" => cpc[e] = "idle"
    BY <1>2 DEF CallerStep, GatherDone, GatherRaises, GatherCancelled, PushReport, CallersOK
  <2> QED
    BY <1>a, <2>1, <2>2 DEF waitVars, jobVars
<1>3. CASE Stop
  <2>1. IdleCallersHaveNoWaiters'
    <3>1. \A e \in Callers : cpc'[e] = "idle" => cpc[e] = "idle"
      BY <1>3 DEF Stop, CallersOK
    <3> QED
      BY <1>3, <1>a, <3>1 DEF Stop, waitVars
  <2>2. EntryHasOwner' /\ LiveTaskIsEntered'
    BY <1>3 DEF Stop, waitVars, jobVars
  <2> QED
    BY <2>1, <2>2
<1>4. ASSUME NEW w \in Waiters, CheckinUser(w)
      PROVE  Sharing'
  <2>1. day \in Days /\ <<w[2], day>> \in Keys
    BY Constants DEF WorldOK, Keys
  <2>2. ~Live(w) /\ \A k \in Keys : inflight[k] # w
    BY <1>4, StartingOwnsNothing DEF CheckinUser
  <2>3. IdleCallersHaveNoWaiters'
    BY <1>4 DEF CheckinUser, CallersOK, callerVars
  <2>4. CASE inflight[<<w[2], day>>] = None
    <3>1. /\ inflight' = [inflight EXCEPT ![<<w[2], day>>] = w]
          /\ wpc' = [wpc EXCEPT ![w] = "await"]
          /\ kday' = [kday EXCEPT ![w] = day]
          /\ ride' = [ride EXCEPT ![w] = w]
          /\ st' = [st EXCEPT ![w] = "ready"]
      BY <1>4, <2>4 DEF CheckinUser, RunningTask
    <3>2. EntryHasOwner'
      BY <2>1, <2>2, <3>1, Constants DEF CallersOK
    <3>3. LiveTaskIsEntered'
      BY <2>1, <2>2, <2>4, <3>1, Constants DEF CallersOK, JobsOK, Keys
    <3> QED
      BY <2>3, <3>2, <3>3
  <2>5. CASE inflight[<<w[2], day>>] # None
    <3>1. /\ UNCHANGED <<inflight, st>>
          /\ wpc' = [wpc EXCEPT ![w] = "await"]
          /\ kday' = [kday EXCEPT ![w] = day]
          /\ ride' = [ride EXCEPT ![w] = inflight[<<w[2], day>>]]
      BY <1>4, <2>5 DEF CheckinUser, RunningTask
    <3>2. EntryHasOwner'
      BY <2>1, <2>2, <3>1, Constants DEF CallersOK
    <3>3. LiveTaskIsEntered'
      BY <2>2, <3>1, Constants DEF CallersOK
    <3> QED
      BY <2>3, <3>2, <3>3
  <2> QED
    BY <2>4, <2>5
<1>5. ASSUME NEW w \in Waiters, NeverStarted(w)
      PROVE  Sharing'
  BY <1>5, Constants DEF NeverStarted, CallersOK, callerVars, jobVars
<1>6. ASSUME NEW w \in Waiters, AwaitEnds(w)
      PROVE  Sharing'
  <2>1. ride[w] = w => ~Live(w)
    BY <1>6 DEF AwaitEnds, Final
  <2>2. \A k \in Keys : inflight[k] = w => k = KeyOf(w) /\ ride[w] = w
    BY Constants
  <2>3. \A k \in Keys : inflight'[k] # w /\ (inflight'[k] # None => inflight'[k] = inflight[k])
    BY <1>6, <2>2, Constants DEF AwaitEnds, Popped, CallersOK
  <2>4. EntryHasOwner'
    BY <1>6, <2>3 DEF AwaitEnds, CallersOK
  <2>5. LiveTaskIsEntered'
    BY <1>6, <2>1, Constants DEF AwaitEnds, Popped, CallersOK, jobVars
  <2>6. IdleCallersHaveNoWaiters'
    BY <1>6 DEF AwaitEnds, CallersOK, callerVars
  <2> QED
    BY <2>4, <2>5, <2>6
<1>7. ASSUME NEW j \in Jobs,
             \/ DoCheckinBoth(j) \/ SpCheckin(j) \/ ThreadStep(j)
             \/ RecordAndReturn(j) \/ RecordFails(j) \/ TaskCancelled(j)
      PROVE  Sharing'
  <2>1. \A w \in Waiters : Live(w)' => Live(w)
    BY <1>7, Constants
       DEF DoCheckinBoth, SpCheckin, Prepare, ThreadStep, ServiceApply, ServiceCollect,
           ServiceRaises, RecordAndReturn, RecordFails, TaskCancelled, Return, Leave, JobsOK
  <2> QED
    BY <1>7, <2>1, JobsFrame DEF callerVars, waitVars
<1>8. CASE Crash
  <2>1. /\ \A e \in Callers : cpc'[e] = "idle" => cpc[e] = "idle"
        /\ \A w \in Waiters : wpc[w] = "none" => wpc'[w] = "none"
    BY <1>8 DEF Crash, CallersOK
  <2>2. /\ \A k \in Keys : inflight'[k] = None
        /\ \A j \in Jobs : st'[j] \notin {"ready", "calling"}
    BY <1>8 DEF Crash, JobsOK
  <2>3. IdleCallersHaveNoWaiters'
    BY <1>a, <2>1
  <2>4. EntryHasOwner' /\ LiveTaskIsEntered'
    BY <2>2, Constants
  <2> QED
    BY <2>3, <2>4
<1>9. CASE Midnight \/ (\E u \in Uids, t \in Tasks : SignedElsewhere(u, t)) \/ UNCHANGED vars
  BY <1>9 DEF Midnight, SignedElsewhere, vars, callerVars, waitVars, jobVars
<1> HIDE DEF Sharing
<1> QED
  BY StepCases, <1>1, <1>2, <1>3, <1>4, <1>5, <1>6, <1>7, <1>8, <1>9 DEF jobVars

(* That agreement holds in every reachable state.                          *)
LEMMA Shared == Spec => []Sharing
<1>1. Init => Sharing
  BY DEF Init, Sharing, IdleCallersHaveNoWaiters, EntryHasOwner, LiveTaskIsEntered, Live
<1> QED
  BY <1>1, SharingStep, Typed, PTL DEF Spec, Types

(* An entry of _checkin_inflight always belongs to a waiter that is still  *)
(* in _checkin_user and will remove it.                                    *)
THEOREM EntriesOwned == Spec => []EntryHasOwner
<1>1. Sharing => EntryHasOwner
  BY DEF Sharing
<1> QED
  BY <1>1, Shared, PTL

(* Never two unfinished shared tasks for one uid and day: both would be    *)
(* the task of the same entry.                                             *)
THEOREM OneRunPerKey == Spec => []AtMostOneRunPerKey
<1>1. Sharing => AtMostOneRunPerKey
  BY DEF Sharing, LiveTaskIsEntered, AtMostOneRunPerKey, KeyOf
<1> QED
  BY <1>1, Shared, PTL

--------------------------------------------------------------------------------
(* Permits.  PermitsConserved is inductive once tasks are shared: a step   *)
(* adds a waiter to the running ones and takes a permit, removes one and   *)
(* gives it back, or changes neither.                                      *)
Running == {w \in Waiters : st[w] = "calling"}

(* The runs that hold a permit can be counted.                             *)
LEMMA RunningIsFinite == IsFiniteSet(Running)
<1>1. IsFiniteSet(Waiters)
  BY ConstantsAssumption, FS_Product DEF Waiters
<1> QED
  BY <1>1, FS_Subset DEF Running

(* How a step changes the set of runs on the network, and the permits with *)
(* it.                                                                     *)
LEMMA RunningSteps ==
  ASSUME CallersOK, JobsOK, WorldOK, Sharing, [Next]_vars
  PROVE  \/ Running' = Running /\ permits' = permits
         \/ \E w \in Waiters \ Running : /\ Running' = Running \cup {w}
                                         /\ permits > 0 /\ permits' = permits - 1
         \/ \E w \in Running : Running' = Running \ {w} /\ permits' = permits + 1
         \/ Running' = {} /\ permits' = Concurrency
<1> DEFINE Same == Running' = Running /\ permits' = permits
<1> USE DEF Running
<1>1. CASE UNCHANGED <<st, permits>>
  BY <1>1
<1>2. ASSUME NEW w \in Waiters, CheckinUser(w) \/ NeverStarted(w) \/ AwaitEnds(w)
      PROVE  Same
  <2>1. st' = st \/ (CheckinUser(w) /\ st' = [st EXCEPT ![w] = "ready"])
    BY <1>2 DEF CheckinUser, NeverStarted, AwaitEnds, jobVars
  <2>2. CheckinUser(w) => w \notin Running
    BY StartingOwnsNothing DEF CheckinUser, Live
  <2>3. permits' = permits
    BY <1>2, WaitersFrame
  <2> QED
    BY <2>1, <2>2, <2>3 DEF JobsOK
<1>3. ASSUME NEW j \in Jobs, DoCheckinBoth(j)
      PROVE  \/ Same
             \/ \E w \in Waiters \ Running : /\ Running' = Running \cup {w}
                                             /\ permits > 0 /\ permits' = permits - 1
  <2>1. /\ j \in Waiters \ Running /\ permits > 0
        /\ permits' = IF st'[j] = "calling" THEN permits - 1 ELSE permits
    BY <1>3 DEF DoCheckinBoth
  <2>2. st' = [st EXCEPT ![j] = "done"] \/ st' = [st EXCEPT ![j] = "calling"]
    BY <1>3 DEF DoCheckinBoth, Prepare
  <2>3. CASE st' = [st EXCEPT ![j] = "done"]
    BY <1>3, <2>1, <2>3 DEF JobsOK
  <2>4. CASE st' = [st EXCEPT ![j] = "calling"]
    <3>1. st'[j] = "calling" /\ \A w \in Waiters : w # j => st'[w] = st[w]
      BY <1>3, <2>4 DEF JobsOK, Jobs
    <3>2. Running' = Running \cup {j}
      BY <2>1, <3>1
    <3> QED
      BY <2>1, <3>1, <3>2
  <2> QED
    BY <2>2, <2>3, <2>4
<1>4. ASSUME NEW j \in Jobs, SpCheckin(j)
      PROVE  Same
  <2>1. j \notin Waiters /\ permits' = permits
    BY <1>4, Constants DEF SpCheckin
  <2>2. \A w \in Waiters : st'[w] = st[w]
    BY <1>4, <2>1 DEF SpCheckin, Prepare, JobsOK, Jobs
  <2> QED
    BY <2>1, <2>2
<1>5. ASSUME NEW j \in Jobs, RecordAndReturn(j) \/ RecordFails(j) \/ TaskCancelled(j)
      PROVE  \/ Same
             \/ \E w \in Running : Running' = Running \ {w} /\ permits' = permits + 1
  <2>1. PICK state \in {"done", "error", "cancelled"} : st' = [st EXCEPT ![j] = state]
    BY <1>5 DEF RecordAndReturn, RecordFails, TaskCancelled, Return, Leave
  <2>2. permits' = IF j \in Running THEN permits + 1 ELSE permits
    BY <1>5
       DEF RecordAndReturn, RecordFails, TaskCancelled, Return, CanReturn, HoldsPermit, JobsOK
  <2>3. Running' = Running \ {j}
    BY <1>5, <2>1 DEF JobsOK, Jobs
  <2> QED
    BY <2>2, <2>3
<1>6. CASE Crash
  BY <1>6 DEF Crash, Live, JobsOK, Jobs
<1>7. \/ UNCHANGED <<st, permits>>
      \/ \E w \in Waiters : CheckinUser(w) \/ NeverStarted(w) \/ AwaitEnds(w)
      \/ \E j \in Jobs : DoCheckinBoth(j) \/ SpCheckin(j)
      \/ \E j \in Jobs : RecordAndReturn(j) \/ RecordFails(j) \/ TaskCancelled(j)
      \/ Crash
  BY StepCases, CallersFrame
     DEF Stop, ThreadStep, ServiceApply, ServiceCollect, ServiceRaises, SignedElsewhere,
         Midnight, jobVars, vars
<1> QED
  BY <1>1, <1>2, <1>3, <1>4, <1>5, <1>6, <1>7

(* So no step loses or invents a permit.                                   *)
LEMMA PermitsStep ==
  ASSUME CallersOK, JobsOK, WorldOK, Sharing, permits \in Nat, PermitsConserved, [Next]_vars
  PROVE  permits' \in Nat /\ PermitsConserved'
<1>1. Cardinality(Running) \in Nat /\ permits + Cardinality(Running) = Concurrency
  BY RunningIsFinite, FS_CardinalityType DEF PermitsConserved, Running
<1>2. CASE Running' = Running /\ permits' = permits
  BY <1>1, <1>2 DEF PermitsConserved, Running
<1>3. ASSUME NEW w \in Waiters \ Running, Running' = Running \cup {w},
             permits > 0, permits' = permits - 1
      PROVE  permits' \in Nat /\ PermitsConserved'
  <2>1. Cardinality(Running') = Cardinality(Running) + 1
    BY <1>3, RunningIsFinite, FS_AddElement
  <2> QED
    BY <1>1, <1>3, <2>1 DEF PermitsConserved, Running
<1>4. ASSUME NEW w \in Running, Running' = Running \ {w}, permits' = permits + 1
      PROVE  permits' \in Nat /\ PermitsConserved'
  <2>1. Cardinality(Running') = Cardinality(Running) - 1
    BY <1>4, RunningIsFinite, FS_RemoveElement
  <2> QED
    BY <1>1, <1>4, <2>1 DEF PermitsConserved, Running
<1>5. CASE Running' = {} /\ permits' = Concurrency
  <2>1. Cardinality(Running') = 0
    BY <1>5, FS_EmptySet
  <2> QED
    BY <1>5, <2>1, Constants DEF PermitsConserved, Running
<1> QED
  BY RunningSteps, <1>2, <1>3, <1>4, <1>5

(* No permit of the semaphore is lost and none is given back twice.        *)
THEOREM NoPermitLost == Spec => [](permits \in Nat /\ PermitsConserved)
<1>1. Init => permits \in Nat /\ PermitsConserved
  <2> SUFFICES ASSUME Init PROVE permits \in Nat /\ PermitsConserved
    OBVIOUS
  <2>1. {w \in Waiters : st[w] = "calling"} = {}
    BY DEF Init, Jobs
  <2>2. permits = Concurrency
    BY DEF Init
  <2> QED
    BY <2>1, <2>2, FS_EmptySet, Constants DEF PermitsConserved
<1>2. CallersOK /\ JobsOK /\ WorldOK /\ Sharing /\ (permits \in Nat /\ PermitsConserved)
        /\ [Next]_vars
      => (permits \in Nat /\ PermitsConserved)'
  BY PermitsStep
<1> QED
  BY <1>1, <1>2, Typed, Shared, PTL DEF Spec, Types

(* Every variable keeps to its set of values; for the permits this is      *)
(* their conservation.                                                     *)
THEOREM TypeCorrect == Spec => []TypeOK
<1>1. Types /\ (permits \in Nat /\ PermitsConserved) => TypeOK
  <2> SUFFICES ASSUME Types, permits \in Nat, PermitsConserved PROVE TypeOK
    OBVIOUS
  <2>1. Cardinality(Running) \in Nat /\ permits + Cardinality(Running) = Concurrency
    BY RunningIsFinite, FS_CardinalityType DEF PermitsConserved, Running
  <2>2. permits \in 0 .. Concurrency
    BY <2>1, Constants
  <2> QED
    BY <2>2, Zenon DEF TypeOK, Types
<1> QED
  BY <1>1, NoPermitLost, Typed, PTL

--------------------------------------------------------------------------------
(* Records.  A step writes at most what one run on the network answered.   *)
LEMMA Writes ==
  ASSUME JobsOK, WorldOK, [Next]_vars
  PROVE  \/ record' = record
         \/ \E j \in Jobs :
              /\ st[j] = "calling" /\ UNCHANGED <<day, collected>>
              /\ \A s \in Slots :
                   \/ record'[s] = record[s]
                   \/ /\ s[2] \in plan[j] /\ s = Slot(j[2], s[2], today[j])
                      /\ record'[s] = out[j][s[2]]
<1>1. ASSUME NEW j \in Jobs, RecordAndReturn(j) \/ RecordFails(j)
      PROVE  /\ st[j] = "calling" /\ UNCHANGED <<day, collected>>
             /\ \A s \in Slots :
                  \/ record'[s] = record[s]
                  \/ /\ s[2] \in plan[j] /\ s = Slot(j[2], s[2], today[j])
                     /\ record'[s] = out[j][s[2]]
  <2>1. PICK ts : ts \subseteq Answered(j) /\ Write(j, ts)
    BY <1>1 DEF RecordAndReturn, RecordFails
  <2>2. st[j] = "calling" /\ UNCHANGED <<day, collected>>
    BY <1>1 DEF RecordAndReturn, RecordFails, CanReturn, Return, worldVars
  <2>3. ASSUME NEW s \in Slots, NEW t \in ts, s = Slot(j[2], t, today[j])
        PROVE  s[2] = t /\ t \in plan[j]
    BY <2>1, <2>3 DEF Slot, Answered
  <2>4. \A s \in Slots : record'[s] =
          IF \E t \in ts : s = Slot(j[2], t, today[j]) THEN out[j][s[2]] ELSE record[s]
    BY <2>1 DEF Write
  <2> QED
    BY <2>2, <2>3, <2>4
<1>2. \/ record' = record
      \/ \E j \in Jobs : RecordAndReturn(j) \/ RecordFails(j)
  BY StepCases, CallersFrame, WaitersFrame
     DEF Stop, DoCheckinBoth, SpCheckin, ThreadStep, ServiceApply, ServiceCollect,
         ServiceRaises, TaskCancelled, SignedElsewhere, Midnight, Crash, vars
<1> QED
  BY <1>1, <1>2

(* A run on the network was there before the step, with the same plan, or  *)
(* has just consulted the records.                                         *)
LEMMA Callings ==
  ASSUME CallersOK, JobsOK, WorldOK, [Next]_vars, NEW j \in Jobs, st'[j] = "calling"
  PROVE  \/ st[j] = "calling" /\ plan'[j] = plan[j] /\ today'[j] = today[j]
         \/ /\ plan'[j] = Missing(j) /\ today'[j] = day
            /\ \A t \in plan'[j] : out'[j][t] = "none"
            /\ UNCHANGED <<record, day, collected>>
<1>1. ASSUME UNCHANGED <<st, plan, today>>
      PROVE  st[j] = "calling" /\ plan'[j] = plan[j] /\ today'[j] = today[j]
  BY <1>1
<1>2. ASSUME NEW w \in Waiters, CheckinUser(w) \/ NeverStarted(w) \/ AwaitEnds(w)
      PROVE  st[j] = "calling" /\ plan'[j] = plan[j] /\ today'[j] = today[j]
  <2>1. st' = st \/ st' = [st EXCEPT ![w] = "ready"]
    BY <1>2 DEF CheckinUser, NeverStarted, AwaitEnds, jobVars
  <2> QED
    BY <1>2, <2>1, WaitersFrame DEF JobsOK
<1>3. ASSUME NEW i \in Jobs, DoCheckinBoth(i) \/ SpCheckin(i), i # j
      PROVE  st[j] = "calling" /\ plan'[j] = plan[j] /\ today'[j] = today[j]
  BY <1>3 DEF DoCheckinBoth, SpCheckin, Prepare, JobsOK
<1>4. ASSUME DoCheckinBoth(j) \/ SpCheckin(j)
      PROVE  /\ plan'[j] = Missing(j) /\ today'[j] = day
             /\ \A t \in plan'[j] : out'[j][t] = "none"
             /\ UNCHANGED <<record, day, collected>>
  <2>1. Prepare(j) /\ UNCHANGED <<record, day, collected>>
    BY <1>4 DEF DoCheckinBoth, SpCheckin, worldVars
  <2>2. st'[j] = IF Missing(j) = {} THEN "done" ELSE "calling"
    BY <2>1 DEF Prepare, JobsOK
  <2>3. plan'[j] = Missing(j) /\ today'[j] = day
    BY <2>1, <2>2 DEF Prepare, JobsOK
  <2>4. \A t \in Tasks : t \in Missing(j) => out'[j][t] = "none"
    BY <2>1 DEF Prepare, JobsOK
  <2> QED
    BY <2>1, <2>3, <2>4 DEF Missing
<1>5. ASSUME NEW i \in Jobs, RecordAndReturn(i) \/ RecordFails(i) \/ TaskCancelled(i)
      PROVE  st[j] = "calling" /\ plan'[j] = plan[j] /\ today'[j] = today[j]
  <2>1. PICK state \in {"done", "error", "cancelled"} : Leave(i, state)
    BY <1>5 DEF RecordAndReturn, RecordFails, TaskCancelled, Return
  <2> QED
    BY <2>1 DEF Leave, JobsOK
<1>6. ~Crash
  BY DEF Crash, Live, JobsOK
<1>7. \/ UNCHANGED <<st, plan, today>>
      \/ \E w \in Waiters : CheckinUser(w) \/ NeverStarted(w) \/ AwaitEnds(w)
      \/ \E i \in Jobs : DoCheckinBoth(i) \/ SpCheckin(i)
      \/ \E i \in Jobs : RecordAndReturn(i) \/ RecordFails(i) \/ TaskCancelled(i)
  BY StepCases, CallersFrame, <1>6
     DEF Stop, ThreadStep, ServiceApply, ServiceCollect, ServiceRaises, SignedElsewhere,
         Midnight, jobVars, vars
<1> QED
  BY <1>1, <1>2, <1>3, <1>4, <1>5, <1>7

(* Nothing writes a settled slot, and nothing unsettles it.                *)
LEMMA SettledStep ==
  ASSUME CallersOK, JobsOK, WorldOK, [Next]_vars, NEW s \in Slots, Settled(s)
  PROVE  Settled(s)'
<1>1. record'[s] = record[s]
  BY Writes DEF Settled
<1>2. ASSUME NEW j \in Jobs, st'[j] = "calling", s[2] \in plan'[j]
      PROVE  s # Slot(j[2], s[2], today'[j])
  <2>1. CASE st[j] = "calling" /\ plan'[j] = plan[j] /\ today'[j] = today[j]
    BY <1>2, <2>1 DEF Settled
  <2>2. CASE plan'[j] = Missing(j) /\ today'[j] = day
    BY <1>2, <2>2 DEF Settled, Missing
  <2> QED
    BY <1>2, <2>1, <2>2, Callings
<1>3. Genuine(s)'
  BY <1>1 DEF Settled, Genuine
<1> QED
  BY <1>2, <1>3 DEF Settled, Slot, Period

(* A trusted record with no call in flight that was planned before it is   *)
(* never taken back.                                                       *)
THEOREM SettledForGood == Spec => SettledStaysSettled
<1>1. Types /\ [Next]_vars => [\A s \in Slots : Settled(s) => Settled(s)']_vars
  BY SettledStep DEF Types
<1> QED
  BY <1>1, Typed, PTL DEF Spec, SettledStaysSettled

--------------------------------------------------------------------------------
(* Backed records.  What a record claims of the site was claimed before by *)
(* a run on the network, so the strengthening says of the outcomes of a    *)
(* running job what TrustedIsBacked says of records.                       *)
HandedOutSince(u, t, p)  == \E q \in Days : q >= p /\ <<u, t, q>> \in collected
HandedOutAround(u, t, p) == \E q \in Days : q + 1 >= p /\ <<u, t, q>> \in collected

OutcomeBacked(j, t) ==
  /\ out[j][t] = "success" => HandedOutSince(j[2], t, Period(t, today[j]))
  /\ out[j][t] = "already_done" => HandedOutAround(j[2], t, Period(t, today[j]))

CallsBacked ==
  \A j \in Jobs : st[j] = "calling" =>
    today[j] <= day /\ \A t \in plan[j] : OutcomeBacked(j, t)

RecordsBacked ==
  \A s \in Slots :
    /\ record[s] = "success" => HandedOutSince(s[1], s[2], s[3])
    /\ record[s] = "already_done" => HandedOutAround(s[1], s[2], s[3])

Backed == RecordsBacked /\ CallsBacked

(* Time only advances and the site never takes a reward back.              *)
LEMMA WorldGrows ==
  ASSUME JobsOK, WorldOK, [Next]_vars
  PROVE  day \in Nat /\ day' \in Nat /\ day <= day' /\ collected \subseteq collected'
<1>1. day \in Nat
  BY Constants DEF WorldOK, Days
<1>2. day' = day \/ day' = day + 1
  BY StepCases, CallersFrame, WaitersFrame, JobsFrame
     DEF Stop, SignedElsewhere, Midnight, Crash, vars, worldVars
<1>3. collected \subseteq collected'
  <2>1. ASSUME NEW j \in Jobs, ThreadStep(j)
        PROVE  collected \subseteq collected'
    BY <2>1 DEF ThreadStep, ServiceApply, ServiceCollect, ServiceRaises, worldVars
  <2>2. ASSUME NEW j \in Jobs, \/ DoCheckinBoth(j) \/ SpCheckin(j)
                               \/ RecordAndReturn(j) \/ RecordFails(j) \/ TaskCancelled(j)
        PROVE  collected \subseteq collected'
    BY <2>2 DEF DoCheckinBoth, SpCheckin, RecordAndReturn, RecordFails, Return, TaskCancelled,
                worldVars
  <2> QED
    BY StepCases, CallersFrame, WaitersFrame, <2>1, <2>2
       DEF Stop, SignedElsewhere, Midnight, Crash, vars, worldVars
<1> QED
  BY <1>1, <1>2, <1>3

(* What a worker thread adds to the outcomes of a job is backed.           *)
LEMMA ApplyBacked ==
  ASSUME JobsOK, WorldOK, NEW j \in Jobs, NEW t \in Tasks, today[j] <= day,
         "already_done" \in ApplyOutcomes(CollectedPeriods(j[2], t), Period(t, day))
  PROVE  HandedOutAround(j[2], t, Period(t, today[j]))
<1> DEFINE p == Period(t, day)
<1>1. today[j] \in Days /\ day \in Days
  BY DEF JobsOK, WorldOK
<1>2. p \in Days /\ Period(t, today[j]) \in Days /\ Period(t, today[j]) <= p
  BY <1>1, PeriodsAreDays, PeriodsAdvance
<1>3. RepliesAlready(CollectedPeriods(j[2], t), p)
  BY DEF ApplyOutcomes
<1>4. PICK q \in CollectedPeriods(j[2], t) : q = p \/ q = p - 1
  BY <1>3 DEF RepliesAlready
<1>5. q \in Days /\ <<j[2], t, q>> \in collected
  BY <1>4 DEF CollectedPeriods
<1> HIDE DEF p
<1>6. q + 1 >= Period(t, today[j])
  BY <1>2, <1>4, <1>5, Constants DEF Days
<1> QED
  BY <1>5, <1>6 DEF HandedOutAround

(* A success of a collect call stands for a reward of its period, or of    *)
(* the one midnight has led to.                                            *)
LEMMA CollectBacked ==
  ASSUME JobsOK, WorldOK, NEW j \in Jobs, NEW t \in Tasks, today[j] <= day,
         NEW o \in CollectOutcomes(CollectedPeriods(j[2], t),
                                   Period(t, today[j]), Period(t, day)),
         o[1] = "success",
         collected' = collected \cup {<<j[2], t, p>> : p \in o[2]}
  PROVE  \E q \in Days : q >= Period(t, today[j]) /\ <<j[2], t, q>> \in collected'
<1>1. today[j] \in Days /\ day \in Days
  BY DEF JobsOK, WorldOK
<1>2. /\ Period(t, day) \in Days /\ Period(t, today[j]) \in Days
      /\ Period(t, today[j]) <= Period(t, day)
  BY <1>1, PeriodsAreDays, PeriodsAdvance
<1>3. \/ Period(t, day) \in o[2]
      \/ \E q \in Period(t, today[j]) .. Period(t, day) : q \in CollectedPeriods(j[2], t)
  BY DEF CollectOutcomes
<1>4. CASE Period(t, day) \in o[2]
  BY <1>2, <1>4, Constants DEF Days
<1>5. CASE \E q \in Period(t, today[j]) .. Period(t, day) : q \in CollectedPeriods(j[2], t)
  BY <1>2, <1>5, Constants DEF CollectedPeriods, Days
<1> QED
  BY <1>3, <1>4, <1>5

(* The outcome of a task that a running job planned changes only by its    *)
(* own thread, and to a backed one.                                        *)
LEMMA OutcomeStaysBacked ==
  ASSUME CallersOK, JobsOK, WorldOK, Sharing, [Next]_vars, NEW j \in Jobs, NEW t \in plan[j],
         st[j] = "calling", st'[j] = "calling", today'[j] = today[j],
         today[j] <= day, OutcomeBacked(j, t)
  PROVE  OutcomeBacked(j, t)'
<1>1. t \in Tasks
  BY DEF JobsOK
<1>2. collected \subseteq collected'
  BY WorldGrows
<1>3. Period(t, today[j])' = Period(t, today[j])
  BY DEF Period
<1>4. CASE out'[j][t] = out[j][t] \/ out'[j][t] \notin {"success", "already_done"}
  BY <1>2, <1>3, <1>4 DEF OutcomeBacked, HandedOutSince, HandedOutAround
<1>5. ASSUME ServiceApply(j), out'[j][t] # out[j][t], out'[j][t] \in {"success", "already_done"}
      PROVE  OutcomeBacked(j, t)'
  <2>1. PICK o \in ApplyOutcomes(CollectedPeriods(j[2], Current(j)), Period(Current(j), day)) :
             out' = [out EXCEPT ![j][Current(j)] = o]
    BY <1>5 DEF ServiceApply
  <2>2. t = Current(j) /\ out'[j][t] = o
    BY <1>1, <1>5, <2>1 DEF JobsOK
  <2>3. o = "already_done"
    BY <1>5, <2>1, <2>2 DEF ApplyOutcomes
  <2>4. HandedOutAround(j[2], t, Period(t, today[j]))
    BY <1>1, <2>1, <2>2, <2>3, ApplyBacked
  <2> QED
    BY <1>2, <1>3, <2>2, <2>3, <2>4 DEF OutcomeBacked, HandedOutAround
<1>6. ASSUME ServiceCollect(j), out'[j][t] # out[j][t], out'[j][t] \in {"success", "already_done"}
      PROVE  OutcomeBacked(j, t)'
  <2> DEFINE c == Current(j)
  <2>1. PICK o \in CollectOutcomes(CollectedPeriods(j[2], c), Period(c, today[j]), Period(c, day)) :
             /\ out' = [out EXCEPT ![j][c] = o[1]]
             /\ collected' = collected \cup {<<j[2], c, p>> : p \in o[2]}
    BY <1>6 DEF ServiceCollect
  <2> HIDE DEF c
  <2>2. t = c /\ out'[j][t] = o[1]
    BY <1>1, <1>6, <2>1 DEF JobsOK
  <2>3. o[1] = "success"
    BY <1>6, <2>1, <2>2, CollectTyped
  <2>4. \E q \in Days : q >= Period(t, today[j]) /\ <<j[2], t, q>> \in collected'
    BY <1>1, <2>1, <2>2, <2>3, CollectBacked
  <2> QED
    BY <1>3, <2>2, <2>3, <2>4 DEF OutcomeBacked, HandedOutSince
<1>7. ASSUME NEW i \in Jobs, ThreadStep(i), i # j \/ ServiceRaises(i)
      PROVE  out'[j][t] = out[j][t] \/ out'[j][t] \notin {"success", "already_done"}
  BY <1>1, <1>7 DEF ThreadStep, ServiceApply, ServiceCollect, ServiceRaises, JobsOK
<1>8. ASSUME NEW i \in Jobs, DoCheckinBoth(i) \/ SpCheckin(i)
      PROVE  out'[j][t] = out[j][t]
  BY <1>8 DEF DoCheckinBoth, SpCheckin, Prepare, JobsOK
<1>9. \/ out' = out
      \/ \E i \in Jobs : ThreadStep(i) \/ DoCheckinBoth(i) \/ SpCheckin(i)
  BY StepCases, CallersFrame, WaitersFrame
     DEF Stop, RecordAndReturn, RecordFails, Return, TaskCancelled, SignedElsewhere, Midnight,
         Crash, jobVars, vars
<1> QED
  BY <1>4, <1>5, <1>6, <1>7, <1>8, <1>9 DEF ThreadStep

(* Every step keeps records and outcomes in hand backed by rewards.        *)
LEMMA BackedStep ==
  ASSUME CallersOK, JobsOK, WorldOK, Sharing, Backed, [Next]_vars
  PROVE  Backed'
<1>1. day \in Nat /\ day' \in Nat /\ day <= day' /\ collected \subseteq collected'
  BY WorldGrows
<1>2. ASSUME NEW j \in Jobs, st'[j] = "calling"
      PROVE  today'[j] <= day' /\ \A t \in plan'[j] : OutcomeBacked(j, t)'
  <2>1. CASE st[j] = "calling" /\ plan'[j] = plan[j] /\ today'[j] = today[j]
    <3>1. today[j] \in Nat /\ today[j] <= day
      BY <2>1, Constants DEF JobsOK, Days, Backed, CallsBacked
    <3>2. today'[j] <= day'
      BY <1>1, <2>1, <3>1
    <3>3. \A t \in plan[j] : OutcomeBacked(j, t)
      BY <2>1 DEF Backed, CallsBacked
    <3>4. \A t \in plan[j] : OutcomeBacked(j, t)'
      BY <1>2, <2>1, <3>1, <3>3, OutcomeStaysBacked
    <3> QED
      BY <2>1, <3>2, <3>4
  <2>2. CASE /\ plan'[j] = Missing(j) /\ today'[j] = day
             /\ \A t \in plan'[j] : out'[j][t] = "none"
    BY <1>1, <2>2 DEF OutcomeBacked
  <2> QED
    BY <1>2, <2>1, <2>2, Callings
<1>3. RecordsBacked'
  <2>1. CASE record' = record
    BY <1>1, <2>1 DEF Backed, RecordsBacked, HandedOutSince, HandedOutAround
  <2>2. ASSUME NEW j \in Jobs, st[j] = "calling", NEW s \in Slots,
               s[2] \in plan[j], s = Slot(j[2], s[2], today[j]), record'[s] = out[j][s[2]]
        PROVE  /\ record'[s] = "success" =>
                    \E p \in Days : p >= s[3] /\ <<s[1], s[2], p>> \in collected'
               /\ record'[s] = "already_done" =>
                    \E p \in Days : p + 1 >= s[3] /\ <<s[1], s[2], p>> \in collected'
    <3>1. OutcomeBacked(j, s[2])
      BY <2>2 DEF Backed, CallsBacked
    <3>2. s[1] = j[2] /\ s[3] = Period(s[2], today[j])
      BY <2>2 DEF Slot
    <3> QED
      BY <1>1, <2>2, <3>1, <3>2 DEF OutcomeBacked, HandedOutSince, HandedOutAround
  <2> QED
    BY <1>1, <2>1, <2>2, Writes DEF Backed, RecordsBacked, HandedOutSince, HandedOutAround
<1>4. CallsBacked'
  BY <1>2 DEF CallsBacked
<1> QED
  BY <1>3, <1>4 DEF Backed

(* A record the cache will trust is never a phantom: the site did hand out *)
(* the reward it stands for.                                               *)
THEOREM NoPhantomRecord == Spec => []TrustedIsBacked
<1>1. Init => Backed
  BY DEF Init, Backed, RecordsBacked, CallsBacked
<1>2. CallersOK /\ JobsOK /\ WorldOK /\ Sharing /\ Backed /\ [Next]_vars => Backed'
  BY BackedStep
<1>3. Backed => TrustedIsBacked
  <2> SUFFICES ASSUME Backed, NEW s \in Slots, Genuine(s)
               PROVE  \E p \in Days :
                        /\ <<s[1], s[2], p>> \in collected
                        /\ p >= s[3] \/ (record[s] = "already_done" /\ p + 1 >= s[3])
    BY DEF TrustedIsBacked
  <2>1. CASE record[s] = "success"
    BY <2>1 DEF Backed, RecordsBacked, HandedOutSince
  <2>2. CASE record[s] = "already_done"
    BY <2>2 DEF Backed, RecordsBacked, HandedOutAround
  <2> QED
    BY <2>1, <2>2 DEF Genuine, Trusted
<1> QED
  BY <1>1, <1>2, <1>3, Typed, Shared, PTL DEF Spec, Types

--------------------------------------------------------------------------------
(* CheckinScheduler implements SingleFlight.  Besides the types and the    *)
(* sharing the refinement needs that whoever awaits a task awaits one      *)
(* whose owner awaits it too.                                              *)

(* A waiter that awaits a task, or ever did, has boarded the task of a     *)
(* waiter that awaits its own.                                             *)
RidesOK ==
  \A w \in Waiters :
    /\ wpc[w] \in {"none", "start"} => ride[w] = None
    /\ wpc[w] = "await" => ride[w] # None
    /\ ride[w] # None => ride[ride[w]] = ride[w] /\ st[ride[w]] # "none"

(* Boarding a task that is entered under its key keeps the shape.          *)
LEMMA RidesStep ==
  ASSUME CallersOK, JobsOK, WorldOK, Sharing, RidesOK, [Next]_vars
  PROVE  RidesOK'
<1> USE DEF RidesOK
<1>1. ASSUME NEW c \in Callers, NEW users \in SUBSET Uids, Gather(c, users),
             UNCHANGED <<ride, st>>
      PROVE  RidesOK'
  BY <1>1 DEF Gather, CallersOK, Sharing, IdleCallersHaveNoWaiters
<1>2. ASSUME NEW w \in Waiters, CheckinUser(w)
      PROVE  RidesOK'
  <2> DEFINE key == <<w[2], day>>
  <2>1. key \in Keys
    BY Constants DEF WorldOK, Keys
  <2>2. \A v \in Waiters : ride[v] # w
    BY <1>2, Constants DEF CheckinUser
  <2>3. wpc' = [wpc EXCEPT ![w] = "await"]
    BY <1>2 DEF CheckinUser
  <2>4. CASE inflight[key] = None
    <3>1. ride' = [ride EXCEPT ![w] = w] /\ st' = [st EXCEPT ![w] = "ready"]
      BY <1>2, <2>4 DEF CheckinUser, RunningTask
    <3> QED
      BY <2>2, <2>3, <3>1, Constants DEF CallersOK, JobsOK
  <2>5. CASE inflight[key] # None
    <3> DEFINE task == inflight[key]
    <3>1. ride' = [ride EXCEPT ![w] = task] /\ UNCHANGED st
      BY <1>2, <2>5 DEF CheckinUser, RunningTask
    <3>2. task \in Waiters /\ ride[task] = task /\ task # w
      BY <1>2, <2>1, <2>5 DEF CheckinUser, CallersOK, Sharing, EntryHasOwner
    <3>3. st[task] # "none"
      BY <3>2, Constants
    <3> HIDE DEF task
    <3> QED
      BY <2>2, <2>3, <3>1, <3>2, <3>3, Constants DEF CallersOK
  <2> QED
    BY <2>4, <2>5
<1>3. ASSUME NEW w \in Waiters, NeverStarted(w) \/ AwaitEnds(w)
      PROVE  RidesOK'
  <2>1. PICK s \in Ended : wpc' = [wpc EXCEPT ![w] = s]
    BY <1>3 DEF NeverStarted, AwaitEnds, Ended, Final
  <2> QED
    BY <1>3, <2>1 DEF NeverStarted, AwaitEnds, CallersOK, Ended, jobVars
<1>4. ASSUME UNCHANGED <<wpc, ride>>, \A w \in Waiters : st[w] # "none" => st'[w] # "none"
      PROVE  RidesOK'
  BY <1>4, Constants DEF CallersOK
<1>5. ASSUME NEW j \in Jobs, \/ DoCheckinBoth(j) \/ SpCheckin(j)
                             \/ RecordAndReturn(j) \/ RecordFails(j) \/ TaskCancelled(j)
      PROVE  RidesOK'
  <2>1. PICK s \in {"done", "calling", "error", "cancelled"} : st' = [st EXCEPT ![j] = s]
    BY <1>5 DEF DoCheckinBoth, SpCheckin, Prepare, RecordAndReturn, RecordFails, Return,
       TaskCancelled, Leave
  <2>2. UNCHANGED <<wpc, ride>>
    BY <1>5, JobsFrame DEF waitVars
  <2> QED
    BY <1>4, <2>1, <2>2 DEF JobsOK
<1>6. ASSUME NEW j \in Jobs, ThreadStep(j)
      PROVE  UNCHANGED <<wpc, ride, st>>
  BY <1>6 DEF ThreadStep, ServiceApply, ServiceCollect, ServiceRaises, waitVars
<1>7. CASE Crash
  BY <1>7, Constants DEF Crash, CallersOK, JobsOK, Live
<1>8. CASE \/ \E c \in Callers : CallerStep(c)
           \/ Stop \/ Midnight \/ (\E u \in Uids, t \in Tasks : SignedElsewhere(u, t))
           \/ UNCHANGED vars
  <2>1. UNCHANGED <<wpc, ride, st>>
    BY <1>8, CallersFrame DEF Stop, Midnight, SignedElsewhere, vars, waitVars, jobVars
  <2> QED
    BY <1>4, <2>1
<1> HIDE DEF RidesOK
<1> QED
  BY StepCases, <1>1, <1>2, <1>3, <1>4, <1>5, <1>6, <1>7, <1>8 DEF jobVars

(* Rides have that shape in every reachable state.                         *)
LEMMA RidesKept == Spec => []RidesOK
<1>1. Init => RidesOK
  BY Constants DEF Init, RidesOK
<1>2. Types /\ Sharing /\ RidesOK /\ [Next]_vars => RidesOK'
  BY RidesStep DEF Types
<1> QED
  BY <1>1, <1>2, Typed, Shared, PTL DEF Spec

(* The two sets of the mapping.                                            *)
Landed == {w \in Waiters : ride[w] = w /\ st[w] \in Final}
Left   == {w \in Waiters : wpc[w] \in Ended}

(* What nobody riding can see is a stutter.                                *)
LEMMA FlightStutters ==
  ASSUME UNCHANGED <<inflight, ride>>,
         \A w \in Waiters : /\ (wpc'[w] \in Ended) = (wpc[w] \in Ended)
                            /\ ride[w] = w => (st'[w] \in Final) = (st[w] \in Final)
  PROVE  UNCHANGED Flight!vars
<1>1. Left' = Left
  BY DEF Left
<1>2. Landed' = Landed
  BY DEF Landed
<1> QED
  BY <1>1, <1>2 DEF Flight!vars, Left, Landed

(* _checkin_user takes the task of the key or creates it.                  *)
LEMMA BoardingFlies ==
  ASSUME Types, Sharing, RidesOK, NEW w \in Waiters, CheckinUser(w)
  PROVE  Flight!Next
<1> DEFINE key == <<w[2], day>>
<1>1. key \in Keys /\ key[1] = w[2]
  BY Constants DEF Types, WorldOK, Keys
<1>2. ride[w] = None /\ w \notin Left
  BY DEF CheckinUser, RidesOK, Left, Ended
<1>3. wpc' = [wpc EXCEPT ![w] = "await"]
  BY DEF CheckinUser
<1>4. Left' = Left
  BY <1>2, <1>3 DEF Types, CallersOK, Left, Ended
<1>5. CASE inflight[key] = None
  <2>1. /\ inflight' = [inflight EXCEPT ![key] = w]
        /\ ride' = [ride EXCEPT ![w] = w]
        /\ st' = [st EXCEPT ![w] = "ready"]
    BY <1>5 DEF CheckinUser, RunningTask
  <2>2. Landed' = Landed
    BY <1>2, <2>1, Constants DEF Types, CallersOK, JobsOK, Landed, Final
  <2> HIDE DEF key
  <2>3. Flight!Open(w, key)
    BY <1>1, <1>2, <1>4, <1>5, <2>1, <2>2 DEF Flight!Open, Left, Landed
  <2> QED
    BY <1>1, <2>3 DEF Flight!Next
<1>6. CASE inflight[key] # None
  <2>1. ride' = [ride EXCEPT ![w] = inflight[key]] /\ UNCHANGED <<inflight, st>>
    BY <1>6 DEF CheckinUser, RunningTask
  <2>2. inflight[key] # w
    BY <1>1, <1>6 DEF CheckinUser, Sharing, EntryHasOwner
  <2> HIDE DEF key
  <2>3. Landed' = Landed
    BY <1>2, <2>1, <2>2, Constants DEF Types, CallersOK, Landed
  <2>4. Flight!Board(w, key)
    BY <1>1, <1>2, <1>4, <1>6, <2>1, <2>3 DEF Flight!Board, Left, Landed
  <2> QED
    BY <1>1, <2>4 DEF Flight!Next
<1> QED
  BY <1>5, <1>6

(* A waiter comes out of _checkin_user, or never went in.                  *)
LEMMA LeavingFlies ==
  ASSUME Types, Sharing, RidesOK, NEW w \in Waiters, NeverStarted(w) \/ AwaitEnds(w)
  PROVE  Flight!Next
<1>1. PICK s \in Ended : wpc' = [wpc EXCEPT ![w] = s]
  BY DEF NeverStarted, AwaitEnds, Ended, Final
<1>2. w \notin Left /\ Left' = Left \cup {w}
  <2>1. wpc[w] \notin Ended
    BY DEF NeverStarted, AwaitEnds, Ended
  <2> QED
    BY <1>1, <2>1 DEF Types, CallersOK, Left
<1>3. UNCHANGED <<ride, st>>
  BY DEF NeverStarted, AwaitEnds, jobVars
<1>4. Landed' = Landed
  BY <1>3 DEF Landed
<1>5. CASE NeverStarted(w)
  <2>1. ride[w] = None /\ UNCHANGED inflight
    BY <1>5 DEF NeverStarted, RidesOK
  <2>2. Flight!StayHome(w)
    BY <1>2, <1>3, <1>4, <2>1 DEF Flight!StayHome, Left, Landed
  <2> QED
    BY <2>2 DEF Flight!Next
<1>6. CASE AwaitEnds(w)
  <2>1. ride[w] \in Landed
    BY <1>6 DEF AwaitEnds, RidesOK, Types, CallersOK, Landed
  <2>2. \A k \in Keys : inflight[k] = w => k = KeyOf(w) /\ ride[w] = w
    BY Constants DEF Sharing, EntryHasOwner
  <2>3. inflight' = [k \in Keys |-> IF inflight[k] = w THEN None ELSE inflight[k]]
    BY <1>6, <2>2 DEF AwaitEnds, Popped, Types, CallersOK
  <2>4. Flight!Leave(w)
    BY <1>2, <1>3, <1>4, <2>1, <2>3 DEF Flight!Leave, Left, Landed
  <2> QED
    BY <2>4 DEF Flight!Next
<1> QED
  BY <1>5, <1>6

(* A shared task ends: it was the task of its own waiter, still flying.    *)
LEMMA LandingFlies ==
  ASSUME Types, Sharing, NEW j \in Waiters, Live(j),
         NEW s \in Final, st' = [st EXCEPT ![j] = s],
         UNCHANGED waitVars
  PROVE  Flight!Next
<1>1. KeyOf(j) \in Keys
  BY Constants DEF Types, CallersOK, Keys, KeyOf
<1>2. ride[j] = j
  BY <1>1, Constants DEF Sharing, LiveTaskIsEntered, EntryHasOwner
<1>3. j \in Flight!Flying
  BY <1>2 DEF Flight!Flying, Flight!Flights, Live, Final
<1>4. Landed' = Landed \cup {j}
  BY <1>2 DEF Types, JobsOK, Landed, waitVars
<1>5. Left' = Left
  BY DEF Left, waitVars
<1>6. Flight!Land(j)
  BY <1>3, <1>4, <1>5 DEF Flight!Land, Left, Landed, waitVars
<1> QED
  BY <1>6 DEF Flight!Next

(* The process dies: what flew is down, whoever was aboard is out.         *)
LEMMA CrashFlies ==
  ASSUME Types, RidesOK, Crash
  PROVE  Flight!Next
<1>1. inflight' = [k \in Keys |-> None] /\ UNCHANGED ride
  BY DEF Crash
<1>2. \A w \in Waiters : st'[w] = IF Live(w) THEN "cancelled" ELSE st[w]
  BY DEF Crash
<1>3. Landed' = Landed \cup Flight!Flying
  <2>1. \A w \in Waiters : ride[w] = w => st'[w] \in Final
    BY <1>2, Constants DEF RidesOK, Types, JobsOK, Live, Final
  <2>2. \A w \in Waiters : st[w] \in Final => st'[w] \in Final
    BY <1>2 DEF Live, Final
  <2> QED
    BY <1>1, <2>1, <2>2 DEF Landed, Flight!Flying, Flight!Flights
<1>4. \A w \in Waiters : wpc'[w] = IF wpc[w] \in {"start", "await"} THEN "cancelled" ELSE wpc[w]
  BY DEF Crash
<1>5. Left \subseteq Left' /\ Left' \subseteq Waiters
  BY <1>4 DEF Left, Ended
<1>6. {w \in Waiters : ride[w] # None} \subseteq Left'
  BY <1>4 DEF RidesOK, Types, CallersOK, Left, Ended
<1>7. Flight!Shutdown
  BY <1>1, <1>3, <1>5, <1>6 DEF Flight!Shutdown, Left, Landed
<1> QED
  BY <1>7 DEF Flight!Next

(* Every step of the scheduler is a step of the single flight, or none.    *)
LEMMA StepsFly ==
  ASSUME Types, Sharing, RidesOK, [Next]_vars
  PROVE  [Flight!Next]_Flight!vars
<1>1. ASSUME NEW c \in Callers, NEW users \in SUBSET Uids, Gather(c, users),
             UNCHANGED <<ride, inflight, st>>
      PROVE  UNCHANGED Flight!vars
  <2>1. \A w \in Waiters : (wpc'[w] \in Ended) = (wpc[w] \in Ended)
    BY <1>1 DEF Gather, Sharing, IdleCallersHaveNoWaiters, Ended
  <2> QED
    BY <1>1, <2>1, FlightStutters
<1>2. ASSUME UNCHANGED <<waitVars, jobVars>>
      PROVE  UNCHANGED Flight!vars
  BY <1>2, FlightStutters DEF waitVars, jobVars
<1>3. ASSUME NEW j \in Jobs, ThreadStep(j)
      PROVE  UNCHANGED Flight!vars
  <2>1. UNCHANGED <<waitVars, st>>
    BY <1>3 DEF ThreadStep, ServiceApply, ServiceCollect, ServiceRaises
  <2> QED
    BY <2>1, FlightStutters DEF waitVars
<1>4. ASSUME NEW j \in Jobs, DoCheckinBoth(j)
      PROVE  Flight!Next \/ UNCHANGED Flight!vars
  <2>1. j \in Waiters /\ Live(j) /\ UNCHANGED waitVars
    BY <1>4 DEF DoCheckinBoth, Live
  <2>2. PICK s \in {"done", "calling"} : st' = [st EXCEPT ![j] = s]
    BY <1>4 DEF DoCheckinBoth, Prepare
  <2>3. CASE s = "done"
    BY <2>1, <2>2, <2>3, LandingFlies DEF Final
  <2>4. CASE s = "calling"
    BY <2>1, <2>2, <2>4, FlightStutters DEF waitVars, Types, JobsOK, Live, Final
  <2> QED
    BY <2>2, <2>3, <2>4
<1>5. ASSUME NEW j \in Manuals, NEW s, st' = [st EXCEPT ![j] = s], UNCHANGED waitVars
      PROVE  UNCHANGED Flight!vars
  BY <1>5, Constants, FlightStutters DEF waitVars, Types, JobsOK
<1>6. ASSUME NEW j \in Jobs, SpCheckin(j)
      PROVE  UNCHANGED Flight!vars
  <2>1. PICK s : st' = [st EXCEPT ![j] = s]
    BY <1>6 DEF SpCheckin, Prepare
  <2> QED
    BY <1>5, <1>6, <2>1 DEF SpCheckin
<1>7. ASSUME NEW j \in Jobs, RecordAndReturn(j) \/ RecordFails(j) \/ TaskCancelled(j)
      PROVE  Flight!Next \/ UNCHANGED Flight!vars
  <2>1. PICK s \in Final : st' = [st EXCEPT ![j] = s]
    BY <1>7 DEF RecordAndReturn, RecordFails, TaskCancelled, Return, Leave, Final
  <2>2. Live(j) /\ UNCHANGED waitVars
    BY <1>7, JobsFrame DEF RecordAndReturn, RecordFails, TaskCancelled, CanReturn, Live
  <2> QED
    BY <1>5, <2>1, <2>2, LandingFlies
<1>8. CASE \/ \E c \in Callers : CallerStep(c)
           \/ Stop \/ Midnight \/ (\E u \in Uids, t \in Tasks : SignedElsewhere(u, t))
           \/ UNCHANGED vars
  BY <1>2, <1>8, CallersFrame DEF Stop, Midnight, SignedElsewhere, vars
<1> QED
  BY StepCases, BoardingFlies, LeavingFlies, CrashFlies,
     <1>1, <1>3, <1>4, <1>6, <1>7, <1>8 DEF jobVars

(* However ticks, commands, cancellations and crashes interleave, the      *)
(* sharing of runs through _checkin_inflight is a single flight per key:   *)
(* CheckinScheduler implements SingleFlight under its refinement mapping.  *)
THEOREM SharingIsSingleFlight == Spec => FlightSpec
<1>1. Init => Flight!Init
  BY Constants DEF Init, Flight!Init, Ended
<1>2. Types /\ Sharing /\ RidesOK /\ [Next]_vars => [Flight!Next]_Flight!vars
  BY StepsFly
<1> QED
  BY <1>1, <1>2, Typed, Shared, RidesKept, PTL DEF Spec, FlightSpec, Flight!Spec
================================================================================
