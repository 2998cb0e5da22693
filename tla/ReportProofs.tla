----------------------------- MODULE ReportProofs -----------------------------
(***************************************************************************)
(* Proofs about the reports of CheckinScheduler: their lines add up, and   *)
(* what they say is on record and does not contradict another report.      *)
(* A report is about the outcomes of finished runs, so the invariants      *)
(* follow a run from its cache check to its end.                           *)
(***************************************************************************)
EXTENDS CheckinSchedulerProofs, TLAPS, FiniteSetTheorems

USE DEF Jobs

--------------------------------------------------------------------------------
(* What a step does to one job.                                            *)
Unaffected(j) ==
  /\ st'[j] = st[j] /\ out'[j] = out[j]
  /\ Live(j) => plan'[j] = plan[j] /\ today'[j] = today[j]
  /\ todo'[j] = todo[j] \/ (~Live(j) /\ todo'[j] = {})

Prepares(j) ==
  /\ \/ DoCheckinBoth(j) /\ st[j] = "ready"
     \/ SpCheckin(j) /\ st[j] = "none"
  /\ Prepare(j) /\ UNCHANGED <<record, day>>

(* A step leaves a run alone, sends one of its requests, creates it,       *)
(* checks its cache, or ends it.                                           *)
LEMMA JobMoves ==
  ASSUME Types, Sharing, [Next]_vars, NEW j \in Jobs
  PROVE  \/ Unaffected(j)
         \/ ThreadStep(j)
         \/ /\ j \in Waiters /\ CheckinUser(j) /\ inflight[<<j[2], day>>] = None
            /\ st'[j] = "ready" /\ todo'[j] = todo[j]
         \/ Prepares(j)
         \/ RecordAndReturn(j)
         \/ Live(j) /\ st'[j] \in {"error", "cancelled"}
<1> USE DEF Types, JobsOK, Unaffected
<1>1. ASSUME NEW w \in Waiters, CheckinUser(w)
      PROVE  \/ Unaffected(j)
             \/ /\ j = w /\ inflight[<<j[2], day>>] = None
                /\ st'[j] = "ready" /\ todo'[j] = todo[j]
  BY <1>1 DEF CheckinUser, RunningTask
<1>2. ASSUME NEW w \in Waiters, NeverStarted(w) \/ AwaitEnds(w)
      PROVE  Unaffected(j)
  BY <1>2 DEF NeverStarted, AwaitEnds, jobVars
<1>3. ASSUME NEW i \in Jobs, DoCheckinBoth(i) \/ SpCheckin(i)
      PROVE  Unaffected(j) \/ Prepares(j)
  <2>1. CASE i = j
    BY <1>3, <2>1 DEF DoCheckinBoth, SpCheckin, Prepares, worldVars
  <2>2. CASE i # j
    BY <1>3, <2>2 DEF DoCheckinBoth, SpCheckin, Prepare
  <2> QED
    BY <2>1, <2>2
<1>4. ASSUME NEW i \in Jobs, ThreadStep(i), i # j
      PROVE  Unaffected(j)
  BY <1>4 DEF ThreadStep, ServiceApply, ServiceCollect, ServiceRaises
<1>5. ASSUME NEW i \in Jobs, RecordAndReturn(i) \/ RecordFails(i) \/ TaskCancelled(i)
      PROVE  \/ Unaffected(j) \/ RecordAndReturn(j)
             \/ Live(j) /\ st'[j] \in {"error", "cancelled"}
  <2>1. PICK s \in Final : Leave(i, s)
    BY <1>5 DEF RecordAndReturn, RecordFails, TaskCancelled, Return, Final
  <2>2. UNCHANGED <<todo, out>>
    BY <1>5 DEF RecordAndReturn, RecordFails, TaskCancelled, Return
  <2>3. CASE i # j
    BY <2>1, <2>2, <2>3 DEF Leave
  <2>4. CASE i = j
    BY <1>5, <2>4 DEF RecordFails, TaskCancelled, CanReturn, Live, Return, Leave
  <2> QED
    BY <2>3, <2>4
<1>6. CASE Crash
  BY <1>6 DEF Crash, Live
<1>7. CASE UNCHANGED jobVars
  BY <1>7 DEF jobVars
<1> HIDE DEF Types, JobsOK, Unaffected
<1>8. CASE \/ \E c \in Callers : CallerStep(c)
           \/ Stop \/ Midnight \/ (\E u \in Uids, t \in Tasks : SignedElsewhere(u, t))
           \/ UNCHANGED vars
  BY <1>7, <1>8, CallersFrame DEF Stop, Midnight, SignedElsewhere, vars
<1> QED
  BY StepCases, <1>1, <1>2, <1>3, <1>4, <1>5, <1>6, <1>7, <1>8

--------------------------------------------------------------------------------
(* Runs keep to their keys and to the order of days.                       *)
RunsOK ==
  \A w \in Waiters :
    /\ st[w] # "none" => ride[w] = w
    /\ ride[w] # None => kday[ride[w]] = kday[w] /\ ride[w][2] = w[2]
    /\ kday[w] <= day
    /\ st[w] = "calling" => kday[w] <= today[w] /\ today[w] <= day

(* A key and a task, once taken, are kept.                                 *)
LEMMA RidesFixed ==
  ASSUME Types, RidesOK, [Next]_vars, NEW w \in Waiters, ride[w] # None
  PROVE  ride'[w] = ride[w] /\ kday'[w] = kday[w]
<1>1. ASSUME NEW v \in Waiters, CheckinUser(v) \/ NeverStarted(v) \/ AwaitEnds(v)
      PROVE  ride'[w] = ride[w] /\ kday'[w] = kday[w]
  <2>1. wpc[w] # "start"
    BY DEF RidesOK
  <2> QED
    BY <1>1, <2>1 DEF CheckinUser, NeverStarted, AwaitEnds, Types, CallersOK
<1>2. \/ UNCHANGED <<ride, kday>>
      \/ \E v \in Waiters : CheckinUser(v) \/ NeverStarted(v) \/ AwaitEnds(v)
  BY StepCases, CallersFrame, JobsFrame
     DEF Stop, Midnight, SignedElsewhere, Crash, waitVars, vars
<1> QED
  BY <1>1, <1>2

(* Every step keeps runs with their keys.                                  *)
LEMMA RunsStep ==
  ASSUME Types, Sharing, RidesOK, RunsOK, [Next]_vars
  PROVE  RunsOK'
<1>1. day \in Nat /\ day' \in Nat /\ day <= day'
  BY WorldGrows DEF Types
<1>2. \A w \in Waiters : kday[w] \in Nat /\ today[w] \in Nat
  BY Constants DEF Types, CallersOK, JobsOK, Days
<1> SUFFICES ASSUME NEW w \in Waiters
             PROVE  /\ st'[w] # "none" => ride'[w] = w
                    /\ ride'[w] # None => kday'[ride'[w]] = kday'[w] /\ ride'[w][2] = w[2]
                    /\ kday'[w] <= day'
                    /\ st'[w] = "calling" => kday'[w] <= today'[w] /\ today'[w] <= day'
  BY DEF RunsOK
<1>3. CASE CheckinUser(w)
  <2> DEFINE key == <<w[2], day>>
  <2>1. key \in Keys
    BY Constants DEF Types, WorldOK, Keys
  <2>2. ride[w] = None /\ st[w] = "none"
    BY <1>3, Constants DEF CheckinUser, RidesOK, RunsOK
  <2>3. kday' = [kday EXCEPT ![w] = day] /\ day' = day
    BY <1>3 DEF CheckinUser, worldVars
  <2>4. CASE inflight[key] = None
    <3>1. ride' = [ride EXCEPT ![w] = w] /\ st' = [st EXCEPT ![w] = "ready"]
      BY <1>3, <2>4 DEF CheckinUser, RunningTask
    <3> QED
      BY <1>1, <2>3, <3>1 DEF Types, CallersOK, JobsOK
  <2>5. CASE inflight[key] # None
    <3> DEFINE task == inflight[key]
    <3>1. ride' = [ride EXCEPT ![w] = task] /\ UNCHANGED st
      BY <1>3, <2>5 DEF CheckinUser, RunningTask
    <3>2. task \in Waiters /\ task # w /\ key = KeyOf(task)
      BY <1>3, <2>1, <2>5 DEF CheckinUser, Types, CallersOK, Sharing, EntryHasOwner
    <3>3. task[2] = w[2] /\ kday[task] = day
      BY <3>2 DEF KeyOf
    <3> HIDE DEF task
    <3> QED
      BY <1>1, <2>2, <2>3, <3>1, <3>2, <3>3 DEF Types, CallersOK, JobsOK
  <2> QED
    BY <2>4, <2>5
<1>4. CASE ~CheckinUser(w)
  <2>1. ride'[w] = ride[w] /\ kday'[w] = kday[w]
    <3>1. ASSUME NEW v \in Waiters, CheckinUser(v) \/ NeverStarted(v) \/ AwaitEnds(v)
          PROVE  ride'[w] = ride[w] /\ kday'[w] = kday[w]
      BY <1>4, <3>1 DEF CheckinUser, NeverStarted, AwaitEnds, Types, CallersOK
    <3>2. \/ UNCHANGED <<ride, kday>>
          \/ \E v \in Waiters : CheckinUser(v) \/ NeverStarted(v) \/ AwaitEnds(v)
      BY StepCases, CallersFrame, JobsFrame
         DEF Stop, Midnight, SignedElsewhere, Crash, waitVars, vars
    <3> QED
      BY <3>1, <3>2
  <2>2. ride[w] # None => kday'[ride[w]] = kday[ride[w]]
    BY RidesFixed, Constants DEF RidesOK, Types, CallersOK
  <2>3. /\ st'[w] # "none" => st[w] # "none"
        /\ st'[w] = "calling" =>
             \/ st[w] = "calling" /\ today'[w] = today[w]
             \/ today'[w] = day
    <3>1. CASE Unaffected(w)
      BY <3>1 DEF Unaffected, Live
    <3>2. CASE ThreadStep(w)
      BY <3>2 DEF ThreadStep, ServiceApply, ServiceCollect, ServiceRaises
    <3>3. CASE Prepares(w)
      <4>1. st[w] # "none"
        BY <3>3, Constants DEF Prepares, SpCheckin
      <4> QED
        BY <3>3, <4>1 DEF Prepares, Prepare, Types, JobsOK
    <3>4. CASE RecordAndReturn(w)
      BY <3>4 DEF RecordAndReturn, CanReturn, Return, Leave, Types, JobsOK
    <3>5. CASE Live(w) /\ st'[w] \in {"error", "cancelled"}
      BY <3>5 DEF Live
    <3> QED
      BY <1>4, <3>1, <3>2, <3>3, <3>4, <3>5, JobMoves
  <2> QED
    BY <1>1, <1>2, <2>1, <2>2, <2>3 DEF RunsOK
<1> QED
  BY <1>3, <1>4

--------------------------------------------------------------------------------
(* The tasks a run is done with have an outcome; a run that has ended well *)
(* is done with all of them.                                               *)
OutcomesOK ==
  \A j \in Jobs :
    /\ st[j] \in {"none", "ready", "done"} => todo[j] = {}
    /\ st[j] = "calling" => todo[j] \subseteq plan[j]
    /\ st[j] \in {"calling", "done"} =>
         \A t \in Tasks \ todo[j] : out[j][t] \in Status \cup {"raised"}

(* What a worker thread may do to a run on the network.                    *)
LEMMA ThreadOutcomes ==
  ASSUME Types, OutcomesOK, NEW j \in Jobs, ThreadStep(j)
  PROVE  /\ st[j] \notin {"none", "ready", "done"} /\ st'[j] = st[j]
         /\ plan'[j] = plan[j] /\ today'[j] = today[j] /\ todo'[j] \subseteq todo[j]
         /\ st[j] = "calling" =>
              /\ \A t \in Tasks \ todo'[j] : out'[j][t] \in Status \cup {"raised"}
              /\ \A t \in Tasks \ plan[j] : out'[j][t] = out[j][t]
<1> USE DEF OutcomesOK, Types, JobsOK
<1>1. CASE ServiceApply(j)
  <2> DEFINE t == Current(j)
  <2>1. t \in todo[j] /\ t \in Tasks
    BY <1>1, CurrentIsTodo DEF ServiceApply
  <2>2. PICK o \in ApplyOutcomes(CollectedPeriods(j[2], t), Period(t, day)) :
             /\ out' = [out EXCEPT ![j][t] = o]
             /\ todo' = [todo EXCEPT ![j] = IF o = "applied" THEN @ ELSE @ \ {t}]
    BY <1>1 DEF ServiceApply
  <2>3. o \in Status \cup {"applied"}
    BY <2>2 DEF ApplyOutcomes, Status
  <2>4. UNCHANGED <<st, plan, today>>
    BY <1>1 DEF ServiceApply
  <2> HIDE DEF t
  <2> QED
    BY <2>1, <2>2, <2>3, <2>4
<1>2. CASE ServiceCollect(j)
  <2> DEFINE t == Current(j)
  <2>1. t \in todo[j] /\ t \in Tasks
    BY <1>2, CurrentIsTodo DEF ServiceCollect
  <2>2. PICK o \in CollectOutcomes(CollectedPeriods(j[2], t), Period(t, today[j]), Period(t, day)) :
             out' = [out EXCEPT ![j][t] = o[1]]
    BY <1>2 DEF ServiceCollect
  <2>3. o[1] \in Status
    BY <2>2, CollectTyped DEF Status
  <2>4. UNCHANGED <<st, plan, today>> /\ todo' = [todo EXCEPT ![j] = @ \ {t}]
    BY <1>2 DEF ServiceCollect
  <2> HIDE DEF t
  <2> QED
    BY <2>1, <2>2, <2>3, <2>4
<1>3. CASE ServiceRaises(j)
  BY <1>3 DEF ServiceRaises
<1> QED
  BY <1>1, <1>2, <1>3 DEF ThreadStep

(* What the cache check leaves behind.                                     *)
LEMMA PrepareOutcomes ==
  ASSUME Types, NEW j \in Jobs, Prepare(j)
  PROVE  /\ st'[j] = IF plan'[j] = {} THEN "done" ELSE "calling"
         /\ plan'[j] = Missing(j) /\ todo'[j] = plan'[j]
         /\ st'[j] = "calling" => today'[j] = day
         /\ \A t \in Tasks \ plan'[j] : /\ out'[j][t] = record[Slot(j[2], t, day)]
                                        /\ Genuine(Slot(j[2], t, day))
BY DEF Types, JobsOK, Prepare, Missing

(* Every step keeps the outcomes of runs complete.                         *)
LEMMA OutcomesStep ==
  ASSUME Types, Sharing, RidesOK, RunsOK, OutcomesOK, [Next]_vars
  PROVE  OutcomesOK'
<1> SUFFICES ASSUME NEW j \in Jobs
             PROVE  /\ st'[j] \in {"none", "ready", "done"} => todo'[j] = {}
                    /\ st'[j] = "calling" => todo'[j] \subseteq plan'[j]
                    /\ st'[j] \in {"calling", "done"} =>
                         \A t \in Tasks \ todo'[j] : out'[j][t] \in Status \cup {"raised"}
  BY DEF OutcomesOK
<1>1. CASE Unaffected(j)
  BY <1>1 DEF Unaffected, OutcomesOK, Live
<1>2. CASE ThreadStep(j)
  BY <1>2, ThreadOutcomes DEF OutcomesOK
<1>3. CASE j \in Waiters /\ CheckinUser(j) /\ st'[j] = "ready" /\ todo'[j] = todo[j]
  <2>1. st[j] = "none"
    BY <1>3, Constants DEF CheckinUser, RidesOK, RunsOK
  <2> QED
    BY <1>3, <2>1 DEF OutcomesOK
<1>4. CASE Prepares(j)
  <2>1. Prepare(j)
    BY <1>4 DEF Prepares
  <2>2. \A t \in Tasks \ plan'[j] : out'[j][t] \in Status
    BY <2>1, PrepareOutcomes DEF Genuine, Trusted, Status
  <2> QED
    BY <2>1, <2>2, PrepareOutcomes
<1>5. CASE RecordAndReturn(j)
  BY <1>5 DEF RecordAndReturn, CanReturn, Return, Leave, OutcomesOK, Types, JobsOK
<1>6. CASE Live(j) /\ st'[j] \in {"error", "cancelled"}
  BY <1>6
<1> QED
  BY <1>1, <1>2, <1>3, <1>4, <1>5, <1>6, JobMoves

(* A run that ended well stays so, with what it returned.                  *)
LEMMA DoneStays ==
  ASSUME Types, Sharing, RidesOK, RunsOK, OutcomesOK, [Next]_vars, NEW j \in Jobs, st[j] = "done"
  PROVE  st'[j] = "done" /\ out'[j] = out[j]
<1>1. ~ThreadStep(j)
  BY ThreadOutcomes
<1>2. ~(j \in Waiters /\ CheckinUser(j))
  BY Constants DEF CheckinUser, RidesOK, RunsOK
<1>3. ~Prepares(j) /\ ~RecordAndReturn(j) /\ ~Live(j)
  BY DEF Prepares, RecordAndReturn, CanReturn, Live
<1> QED
  BY <1>1, <1>2, <1>3, JobMoves DEF Unaffected

(* A waiter that returned has the result of a run that ended well, and a   *)
(* caller that reports has all its results.                                *)
ResultsOK ==
  /\ \A w \in Waiters : wpc[w] = "result" => ride[w] # None /\ st[ride[w]] = "done"
  /\ \A c \in Callers : Reports(c) => \A w \in WaitersOf(c) : wpc[w] = "result"

(* Every step keeps results with runs that are done.                       *)
LEMMA ResultsStep ==
  ASSUME Types, Sharing, RidesOK, RunsOK, OutcomesOK, ResultsOK, [Next]_vars
  PROVE  ResultsOK'
<1> USE DEF Types, CallersOK
<1>a. \A w \in Waiters : ride[w] # None => ride[w] \in Waiters /\ ride'[w] = ride[w]
  BY RidesFixed
<1>b. \A w \in Waiters : wpc[w] = "result" => ride'[w] # None /\ st'[ride'[w]] = "done"
  BY <1>a, DoneStays DEF ResultsOK
<1>1. ASSUME NEW c \in Callers, NEW users \in SUBSET Uids, Gather(c, users)
      PROVE  ResultsOK'
  <2>1. \A w \in Waiters : wpc'[w] = "result" => wpc[w] = "result"
    BY <1>1 DEF Gather
  <2>2. \A e \in Callers : Reports(e)' =>
          e # c /\ Reports(e) /\ \A w \in Waiters : w[1] = e => wpc'[w] = wpc[w]
    BY <1>1 DEF Gather, Reports
  <2> QED
    BY <1>b, <2>1, <2>2 DEF ResultsOK, WaitersOf
<1>2. ASSUME NEW c \in Callers, CallerStep(c)
      PROVE  ResultsOK'
  <2>1. UNCHANGED wpc
    BY <1>2, CallersFrame DEF waitVars
  <2>2. \A e \in Callers : Reports(e)' => \A w \in WaitersOf(e) : wpc[w] = "result"
    BY <1>2 DEF CallerStep, GatherDone, GatherRaises, GatherCancelled, PushReport, Reports,
       ResultsOK
  <2> QED
    BY <1>b, <2>1, <2>2 DEF ResultsOK, WaitersOf
<1>3. ASSUME NEW w \in Waiters, CheckinUser(w) \/ NeverStarted(w)
      PROVE  ResultsOK'
  <2>1. /\ wpc[w] = "start" /\ UNCHANGED cpc
        /\ \A v \in Waiters : v # w => wpc'[v] = wpc[v]
        /\ wpc'[w] \in {"await", "cancelled"}
    BY <1>3 DEF CheckinUser, NeverStarted, callerVars
  <2> QED
    BY <1>b, <2>1 DEF ResultsOK, WaitersOf, Reports
<1>4. ASSUME NEW w \in Waiters, AwaitEnds(w)
      PROVE  ResultsOK'
  <2>1. /\ wpc[w] = "await" /\ UNCHANGED cpc
        /\ \A v \in Waiters : v # w => wpc'[v] = wpc[v]
        /\ wpc'[w] = "result" => st[ride[w]] = "done"
    BY <1>4 DEF AwaitEnds, callerVars, Final
  <2>2. wpc'[w] = "result" => ride'[w] # None /\ st'[ride'[w]] = "done"
    BY <1>a, <2>1, DoneStays DEF RidesOK
  <2> QED
    BY <1>b, <2>1, <2>2 DEF ResultsOK, WaitersOf, Reports
<1>5. CASE Stop
  <2>1. UNCHANGED wpc /\ \A e \in Callers : Reports(e)' => Reports(e)
    BY <1>5 DEF Stop, waitVars, Reports
  <2> QED
    BY <1>b, <2>1 DEF ResultsOK, WaitersOf
<1>6. CASE Crash
  <2>1. /\ \A w \in Waiters : wpc'[w] = "result" <=> wpc[w] = "result"
        /\ \A w \in Waiters : wpc'[w] # "none" => wpc[w] # "none"
        /\ \A e \in Callers : Reports(e)' => Reports(e)
    BY <1>6 DEF Crash, Reports
  <2> QED
    BY <1>b, <2>1 DEF ResultsOK, WaitersOf
<1>7. CASE UNCHANGED <<cpc, wpc>>
  BY <1>b, <1>7 DEF ResultsOK, WaitersOf, Reports
<1> HIDE DEF Types, CallersOK
<1>8. CASE Midnight \/ (\E u \in Uids, t \in Tasks : SignedElsewhere(u, t)) \/ UNCHANGED vars
  BY <1>7, <1>8 DEF Midnight, SignedElsewhere, vars, callerVars, waitVars
<1> QED
  BY StepCases, JobsFrame, <1>1, <1>2, <1>3, <1>4, <1>5, <1>6, <1>7, <1>8
     DEF callerVars, waitVars

Followed == RidesOK /\ RunsOK /\ OutcomesOK /\ ResultsOK

(* All of that holds in every reachable state.                             *)
LEMMA RunsFollowed == Spec => []Followed
<1>1. Init => Followed
  <2> SUFFICES ASSUME Init PROVE Followed
    OBVIOUS
  <2>1. RidesOK /\ ResultsOK
    BY Constants DEF Init, RidesOK, ResultsOK, Reports
  <2>2. RunsOK /\ OutcomesOK
    BY Constants DEF Init, RunsOK, OutcomesOK
  <2> QED
    BY <2>1, <2>2 DEF Followed
<1>2. Types /\ Sharing /\ Followed /\ [Next]_vars => Followed'
  BY RidesStep, RunsStep, OutcomesStep, ResultsStep DEF Types, Followed
<1> QED
  BY <1>1, <1>2, Typed, Shared, PTL DEF Spec

--------------------------------------------------------------------------------
(* Disjoint sets count together.                                           *)
LEMMA DisjointUnion ==
  ASSUME NEW S, IsFiniteSet(S), NEW T, IsFiniteSet(T), S \cap T = {}
  PROVE  /\ IsFiniteSet(S \cup T)
         /\ Cardinality(S \cup T) = Cardinality(S) + Cardinality(T)
<1>1. Cardinality(S) \in Nat /\ Cardinality(T) \in Nat
  BY FS_CardinalityType
<1>2. Cardinality(S \cap T) = 0
  BY FS_EmptySet
<1>3. /\ IsFiniteSet(S \cup T)
      /\ Cardinality(S \cup T) = Cardinality(S) + Cardinality(T) - Cardinality(S \cap T)
  BY FS_Union
<1> QED
  BY <1>1, <1>2, <1>3

(* The lines of a report add up: each account is in exactly one of three   *)
(* sets, because the outcome of a finished run is a status or an exception.*)
THEOREM ReportsAddUp == Spec => []ReportAddsUp
<1>1. ASSUME Types, Followed
      PROVE  ReportAddsUp
  <2> SUFFICES ASSUME NEW c \in Callers, Reports(c), NEW t \in Tasks
               PROVE  ReportStats(c).ok[t] + ReportStats(c).skip[t] + ReportStats(c).fail[t]
                        = ReportStats(c).total
    BY DEF ReportAddsUp
  <2> DEFINE With(os) == {w \in WaitersOf(c) : out[ride[w]][t] \in os}
             other  == Outcomes \ (Failures \cup {"already_done", "none"})
  <2>1. \A w \in WaitersOf(c) : out[ride[w]][t] \in Status \cup {"raised"}
    <3> SUFFICES ASSUME NEW w \in WaitersOf(c)
                 PROVE  out[ride[w]][t] \in Status \cup {"raised"}
      OBVIOUS
    <3>1. ride[w] \in Jobs /\ st[ride[w]] = "done"
      BY <1>1 DEF Followed, ResultsOK, WaitersOf, Types, CallersOK
    <3> QED
      BY <1>1, <3>1 DEF Followed, OutcomesOK
  <2>2. /\ WaitersOf(c) = (With(other) \cup With({"already_done"})) \cup With(Failures)
        /\ With(other) \cap With({"already_done"}) = {}
        /\ (With(other) \cup With({"already_done"})) \cap With(Failures) = {}
    BY <2>1 DEF Outcomes, Status, Failures
  <2>3. IsFiniteSet(WaitersOf(c))
    <3>1. IsFiniteSet(Waiters)
      BY ConstantsAssumption, FS_Product DEF Waiters
    <3> QED
      BY <3>1, FS_Subset DEF WaitersOf
  <2>4. /\ IsFiniteSet(With(other)) /\ Cardinality(With(other)) \in Nat
        /\ IsFiniteSet(With({"already_done"})) /\ Cardinality(With({"already_done"})) \in Nat
        /\ IsFiniteSet(With(Failures)) /\ Cardinality(With(Failures)) \in Nat
    BY <2>3, FS_Subset, FS_CardinalityType
  <2> HIDE DEF With, other
  <2>5. /\ IsFiniteSet(With(other) \cup With({"already_done"}))
        /\ Cardinality(With(other) \cup With({"already_done"}))
             = Cardinality(With(other)) + Cardinality(With({"already_done"}))
    BY <2>2, <2>4, DisjointUnion
  <2>6. Cardinality(WaitersOf(c))
          = Cardinality(With(other) \cup With({"already_done"})) + Cardinality(With(Failures))
    BY <2>2, <2>4, <2>5, DisjointUnion
  <2>7. /\ ReportStats(c).ok[t] = Cardinality(With(other))
        /\ ReportStats(c).skip[t] = Cardinality(With({"already_done"}))
        /\ ReportStats(c).fail[t] = Cardinality(With(Failures))
        /\ ReportStats(c).total = Cardinality(WaitersOf(c))
    BY DEF ReportStats, Tally, With, other
  <2> QED
    BY <2>4, <2>5, <2>6, <2>7
<1> QED
  BY <1>1, Typed, RunsFollowed, PTL DEF Spec

--------------------------------------------------------------------------------
(* What an undisturbed run of today found on record, or has put there, is  *)
(* there for good.                                                         *)
Kept(j, t) ==
  /\ Settled(Slot(j[2], t, day))
  /\ record[Slot(j[2], t, day)] = out[j][t]

KeptOK ==
  \A j \in Waiters : kday[j] = day /\ Undisturbed(j[2]) =>
    /\ st[j] = "calling" => \A t \in Tasks \ plan[j] : Kept(j, t)
    /\ st[j] = "done" => \A t \in Tasks : out[j][t] \in Trusted => Kept(j, t)

(* Only one unfinished run of an undisturbed account.                      *)
LEMMA UndisturbedRunsAlone ==
  ASSUME Types, Sharing, RunsOK, NEW j \in Waiters, Live(j), Undisturbed(j[2]),
         NEW k \in Jobs, Live(k), k[2] = j[2]
  PROVE  k = j
<1>1. k \in Waiters
  BY DEF Undisturbed, Live
<1>2. ride[j] = j /\ ride[k] = k
  BY <1>1 DEF RunsOK, Live
<1>3. kday[j] = day /\ kday[k] = day
  BY <1>1, <1>2 DEF Undisturbed
<1> QED
  BY <1>1, <1>3 DEF Sharing, LiveTaskIsEntered, KeyOf

(* An account undisturbed today has been so since midnight.                *)
LEMMA UndisturbedBefore ==
  ASSUME Types, Sharing, RidesOK, RunsOK, [Next]_vars, day' = day,
         NEW u, Undisturbed(u)'
  PROVE  Undisturbed(u)
<1>1. ASSUME NEW m \in Manuals, m[2] = u
      PROVE  st[m] = "none"
  <2>1. st'[m] = "none" /\ m \in Jobs /\ m \notin Waiters
    BY <1>1, Constants DEF Undisturbed
  <2>2. ~Prepares(m)
    BY <2>1 DEF Prepares, Prepare, Types, JobsOK
  <2>3. ThreadStep(m) => st'[m] = st[m]
    BY DEF ThreadStep, ServiceApply, ServiceCollect, ServiceRaises
  <2>4. ~RecordAndReturn(m)
    BY <2>1 DEF RecordAndReturn, Return, Leave, Types, JobsOK
  <2> QED
    BY <2>1, <2>2, <2>3, <2>4, JobMoves DEF Unaffected
<1>2. ASSUME NEW v \in Waiters, v[2] = u, ride[v] = v
      PROVE  kday[v] = day
  <2>1. ride'[v] = v /\ kday'[v] = kday[v]
    BY <1>2, RidesFixed, Constants
  <2> QED
    BY <1>2, <2>1 DEF Undisturbed
<1> QED
  BY <1>1, <1>2 DEF Undisturbed

(* Every step keeps the findings of undisturbed runs on record: only the   *)
(* run itself could overwrite them, and it writes what it did not find.    *)
LEMMA KeptStep ==
  ASSUME Types, Sharing, Followed, KeptOK, [Next]_vars
  PROVE  KeptOK'
<1> USE DEF Followed
<1> SUFFICES ASSUME NEW j \in Waiters, kday'[j] = day', Undisturbed(j[2])',
                    st'[j] \in {"calling", "done"}
             PROVE  /\ st'[j] = "calling" => \A t \in Tasks \ plan'[j] : Kept(j, t)'
                    /\ st'[j] = "done" => \A t \in Tasks : out'[j][t] \in Trusted => Kept(j, t)'
  BY DEF KeptOK
<1>a. st[j] # "none" /\ ride[j] = j
  <2>1. st'[j] # "none" /\ RunsOK'
    BY RunsStep
  <2>2. st[j] # "none"
    <3>1. Prepares(j) => st[j] # "none"
      BY Constants DEF Prepares, SpCheckin
    <3>2. ThreadStep(j) => st[j] # "none"
      BY ThreadOutcomes
    <3>3. RecordAndReturn(j) => st[j] # "none"
      BY DEF RecordAndReturn, CanReturn
    <3> QED
      BY <3>1, <3>2, <3>3, JobMoves DEF Unaffected
  <2> QED
    BY <2>2 DEF RunsOK
<1>b. kday'[j] = kday[j]
  BY <1>a, RidesFixed, Constants
<1>c. day' = day
  <2>1. day \in Nat /\ kday[j] <= day /\ kday[j] \in Nat
    BY Constants DEF Types, CallersOK, WorldOK, RunsOK, Days
  <2>2. day' = day \/ day' = day + 1
    BY StepCases, CallersFrame, WaitersFrame, JobsFrame
       DEF Stop, SignedElsewhere, Midnight, Crash, vars, worldVars
  <2> QED
    BY <1>b, <2>1, <2>2
<1>d. kday[j] = day /\ Undisturbed(j[2])
  BY <1>b, <1>c, UndisturbedBefore
<1> DEFINE S(t) == Slot(j[2], t, day)
<1>e. \A t \in Tasks : S(t) \in Slots /\ S(t)' = S(t) /\ S(t)[1] = j[2] /\ S(t)[2] = t
  BY <1>c, SlotTyped DEF Types, WorldOK, Slot, Period
(* What was kept is kept as long as the run says the same.                 *)
<1>f. ASSUME NEW t \in Tasks, Kept(j, t), out'[j][t] = out[j][t]
      PROVE  Kept(j, t)'
  <2>1. PICK s \in Slots : s = S(t)
    BY <1>e
  <2>2. s[2] = t /\ Settled(s) /\ record[s] = out[j][t]
    BY <1>e, <1>f, <2>1 DEF Kept
  <2>3. Settled(s)'
    BY <2>2, SettledStep DEF Types
  <2>4. record'[s] = record[s]
    BY <2>2, Writes DEF Settled, Types
  <2>5. Slot(j[2], t, day)' = s
    BY <1>e, <2>1
  <2> HIDE DEF S
  <2> QED
    BY <1>f, <2>2, <2>3, <2>4, <2>5 DEF Kept, Settled, Genuine
<1>1. CASE Unaffected(j)
  BY <1>1, <1>d, <1>f DEF Unaffected, Live, KeptOK
<1>2. CASE ThreadStep(j)
  BY <1>2, <1>d, <1>f, ThreadOutcomes DEF KeptOK
<1>3. CASE Prepares(j)
  <2>1. Prepare(j) /\ Live(j) /\ record' = record
    BY <1>3, Constants DEF Prepares, SpCheckin, Live
  <2>2. ASSUME NEW t \in Tasks \ plan'[j]
        PROVE  Kept(j, t)'
    <3>1. out'[j][t] = record[S(t)] /\ Genuine(S(t))
      BY <2>1, <2>2, PrepareOutcomes
    <3>2. ASSUME NEW k \in Jobs, st'[k] = "calling", t \in plan'[k]
          PROVE  S(t) # Slot(k[2], t, today'[k])
      <4>1. CASE k[2] # j[2]
        BY <4>1 DEF Slot
      <4>2. CASE k[2] = j[2] /\ k # j
        <5>1. ~Live(k)
          BY <1>d, <2>1, <4>2, UndisturbedRunsAlone
        <5>2. st'[k] = st[k]
          BY <1>3, <4>2 DEF Prepares, DoCheckinBoth, SpCheckin, Prepare, Types, JobsOK
        <5> QED
          BY <3>2, <5>1, <5>2 DEF Live
      <4>3. CASE k = j
        BY <2>2, <3>2, <4>3
      <4> QED
        BY <4>1, <4>2, <4>3
    <3>3. Settled(S(t))'
      BY <1>e, <2>1, <3>1, <3>2 DEF Settled, Genuine
    <3> QED
      BY <1>c, <1>e, <2>1, <3>1, <3>3 DEF Kept
  <2>3. st'[j] = "done" => plan'[j] = {}
    BY <2>1, PrepareOutcomes
  <2> QED
    BY <2>2, <2>3
<1>4. CASE RecordAndReturn(j)
  <2>1. st[j] = "calling" /\ todo[j] = {} /\ st'[j] = "done" /\ out'[j] = out[j]
    BY <1>4 DEF RecordAndReturn, CanReturn, Return, Leave, Types, JobsOK
  <2>2. today[j] = day
    <3>1. today[j] \in Nat /\ day \in Nat
      BY Constants DEF Types, JobsOK, WorldOK, Days
    <3> QED
      BY <1>d, <2>1, <3>1 DEF RunsOK
  <2>3. ASSUME NEW t \in Tasks, out'[j][t] \in Trusted
        PROVE  Kept(j, t)'
    <3>1. CASE t \notin plan[j]
      BY <1>d, <1>f, <2>1, <3>1 DEF KeptOK
    <3>2. CASE t \in plan[j]
      <4>1. t \in Answered(j)
        BY <2>1, <2>3, <3>2 DEF Answered, Trusted, Status
      <4>2. record'[S(t)] = out[j][t]
        BY <1>4, <1>e, <2>2, <4>1 DEF RecordAndReturn, Write
      <4>3. ASSUME NEW k \in Jobs, st'[k] = "calling"
            PROVE  k[2] # j[2]
        <5>1. st' = [st EXCEPT ![j] = "done"]
          BY <1>4 DEF RecordAndReturn, Return, Leave
        <5>2. k # j /\ Live(k)
          BY <4>3, <5>1 DEF Types, JobsOK, Live
        <5> QED
          BY <1>d, <2>1, <5>2, UndisturbedRunsAlone DEF Live
      <4>4. Settled(S(t))'
        BY <1>e, <2>1, <2>3, <4>2, <4>3 DEF Settled, Genuine, Slot
      <4> QED
        BY <1>c, <1>e, <2>1, <4>2, <4>4 DEF Kept
    <3> QED
      BY <3>1, <3>2
  <2> QED
    BY <2>1, <2>3
<1>5. ~CheckinUser(j)
  BY <1>a, Constants DEF CheckinUser, RidesOK
<1> QED
  BY <1>1, <1>2, <1>3, <1>4, <1>5, JobMoves

(* The findings of undisturbed runs are on record in every reachable       *)
(* state.                                                                  *)
LEMMA RunsKept == Spec => []KeptOK
<1>1. Init => KeptOK
  BY DEF Init, KeptOK
<1>2. Types /\ Sharing /\ Followed /\ KeptOK /\ [Next]_vars => KeptOK'
  BY KeptStep
<1> QED
  BY <1>1, <1>2, Typed, Shared, RunsFollowed, PTL DEF Spec

(* The run a waiter of an undisturbed account has the result of.           *)
LEMMA ResultsKept ==
  ASSUME Types, Followed, KeptOK, NEW w \in Waiters, wpc[w] = "result", Undisturbed(w[2])
  PROVE  \A t \in Tasks :
           /\ out[ride[w]][t] \in Status \cup {"raised"}
           /\ out[ride[w]][t] \in Trusted =>
                /\ Settled(Slot(w[2], t, day))
                /\ record[Slot(w[2], t, day)] = out[ride[w]][t]
<1> DEFINE j == ride[w]
<1>1. j \in Waiters /\ st[j] = "done" /\ ride[j] = j
  BY DEF Followed, ResultsOK, RunsOK, Types, CallersOK
<1>2. j[2] = w[2] /\ kday[j] = day
  BY <1>1, Constants DEF Followed, RunsOK, ResultsOK, Undisturbed
<1> HIDE DEF j
<1>3. \A t \in Tasks : out[j][t] \in Status \cup {"raised"}
  BY <1>1 DEF Followed, OutcomesOK
<1>4. \A t \in Tasks : out[j][t] \in Trusted => Kept(j, t)
  BY <1>1, <1>2 DEF KeptOK
<1> QED
  BY <1>2, <1>3, <1>4 DEF Kept, j

(* Whoever a report counts as completed is on record for good, unless an   *)
(* /spcheckin or a run that crossed midnight disturbed it.                 *)
THEOREM CompletedOnRecord == Spec => []CompletedIsRecorded
<1>1. ASSUME Types, Followed, KeptOK
      PROVE  CompletedIsRecorded
  <2> SUFFICES ASSUME NEW c \in Callers, Reports(c), NEW w \in ReportStats(c).completed,
                      Undisturbed(w[2]), NEW t \in Tasks
               PROVE  Settled(Slot(w[2], t, day))
    BY DEF CompletedIsRecorded
  <2>1. w \in WaitersOf(c) /\ out[ride[w]][t] \notin Failures
    BY DEF ReportStats
  <2>2. w \in Waiters /\ wpc[w] = "result"
    BY <1>1, <2>1 DEF WaitersOf, Followed, ResultsOK
  <2> QED
    BY <1>1, <2>1, <2>2, ResultsKept DEF Failures, Status, Trusted
<1> QED
  BY <1>1, Typed, RunsFollowed, RunsKept, PTL DEF Spec

(* Two results of an undisturbed day never say success and already-signed  *)
(* of the same task: both are what the record says.                        *)
THEOREM PushesAgree == Spec => []NoMixedPush
<1>1. ASSUME Types, Followed, KeptOK
      PROVE  NoMixedPush
  <2> SUFFICES ASSUME NEW v \in Waiters, NEW w \in Waiters,
                      wpc[v] = "result", wpc[w] = "result", v[2] = w[2], Undisturbed(v[2]),
                      NEW t \in Tasks,
                      out[ride[v]][t] = "success", out[ride[w]][t] = "already_done"
               PROVE  FALSE
    BY DEF NoMixedPush
  <2>1. record[Slot(v[2], t, day)] = "success"
    BY <1>1, ResultsKept DEF Trusted
  <2>2. record[Slot(w[2], t, day)] = "already_done"
    BY <1>1, ResultsKept DEF Trusted
  <2> QED
    BY <2>1, <2>2
<1> QED
  BY <1>1, Typed, RunsFollowed, RunsKept, PTL DEF Spec
================================================================================
