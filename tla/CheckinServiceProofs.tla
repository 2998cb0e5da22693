-------------------------- MODULE CheckinServiceProofs --------------------------
(***************************************************************************)
(* Proofs about CheckinService, for any number of concurrent calls, any    *)
(* length of a period and any cooldown that is not longer.                 *)
(***************************************************************************)
EXTENDS CheckinService, TLAPS

(* Every slice of the model lies in one of its periods.                    *)
LEMMA PeriodInRange == \A t \in 0 .. MaxTime : Period(t) \in Periods
  BY TimesAssumption DEF Period, Periods

(* The next slice is in the same period or the next.                       *)
LEMMA PeriodAdvances ==
  ASSUME NEW t \in Nat
  PROVE  Period(t) \in Nat /\ Period(t + 1) \in {Period(t), Period(t) + 1}
  BY TimesAssumption DEF Period

--------------------------------------------------------------------------------
(* What requests do to the site, whatever is made of the answer.           *)
LEMMA SiteSteps ==
  ASSUME TypeOK, NEW m, SiteApply(m) \/ SiteCollect(m)
  PROVE  /\ stage' \in {"A", "B", "C"} /\ applied' \in 0 .. MaxTime \cup {Never}
         /\ collected' \in {collected, collected \cup {Period(time)}}
         /\ stage' = "A" => stage = "A"
  BY DEF TypeOK, SiteApply, SiteCollect, siteVars

(* Type correctness: every variable keeps to its set of values, and a call *)
(* has a status exactly when it has returned.                              *)
THEOREM TypeCorrect == Spec => []TypeOK
<1>1. Init => TypeOK
  BY TimesAssumption DEF Init, TypeOK, Status
<1>2. ASSUME TypeOK, [Next]_vars PROVE TypeOK'
  <2> USE <1>2, TimesAssumption, PeriodInRange DEF TypeOK, Status
  <2>1. ASSUME NEW c \in Calls, Apply(c) PROVE TypeOK'
    BY <2>1, SiteSteps DEF Apply, Request, ReadApply, Refused, Garbled, Hollow, siteVars
  <2>2. ASSUME NEW c \in Calls, Collect(c) PROVE TypeOK'
    <3>1. PICK m \in Messages :
            /\ ReadCollect(c, m)
            /\ SiteCollect(m) \/ UNCHANGED siteVars
            /\ disturbed' \in {disturbed, disturbed \cup {c}}
      BY <2>2 DEF Collect, Request, Refused, Garbled, Hollow
    <3>2. UNCHANGED <<time, login>> /\ pc[c] = "collect"
      BY <2>2 DEF Collect, Request
    <3>3. terminal' \in [Calls -> BOOLEAN]
      BY <3>1, Zenon DEF ReadCollect, Ends, MatchesAny
    <3>4. /\ pc' \in [Calls -> {"apply", "collect", "verify", "done"}]
          /\ result' \in [Calls -> Status \cup {"none"}] /\ UNCHANGED start
          /\ \A d \in Calls : pc'[d] = "done" <=> result'[d] # "none"
      BY <3>1, <3>2 DEF ReadCollect, Ends
    <3> QED
      BY <3>1, <3>2, <3>3, <3>4, SiteSteps DEF siteVars
  <2>3. ASSUME NEW c \in Calls, Verify(c) PROVE TypeOK'
    BY <2>3, SiteSteps DEF Verify, Request, ReadVerify, Ends, Refused, Garbled, Hollow, siteVars
  <2>4. ASSUME NEW c \in Calls, AnswerLost(c) PROVE TypeOK'
    BY <2>4, SiteSteps DEF AnswerLost, siteVars
  <2>5. CASE SignedElsewhere
    BY <2>5 DEF SignedElsewhere
  <2>6. CASE TimePasses
    BY <2>6 DEF TimePasses
  <2>7. CASE CookieExpires
    BY <2>7 DEF CookieExpires, siteVars
  <2>8. CASE UNCHANGED vars
    BY <2>8 DEF vars, siteVars
  <2> QED
    BY <2>1, <2>2, <2>3, <2>4, <2>5, <2>6, <2>7, <2>8 DEF Next
<1> QED
  BY <1>1, <1>2, PTL DEF Spec

--------------------------------------------------------------------------------
(* What the state of the task says of the rewards handed out, and what a   *)
(* call that has applied may rely on, whatever others do meanwhile.        *)
Handed(c) == \E p \in collected : Period(start[c]) <= p /\ p <= Period(time)

SiteOK ==
  /\ collected \subseteq 0 .. Period(time)
  /\ stage = "C" <=> Period(time) \in collected
  /\ applied # Never => applied <= time
  /\ stage = "A" /\ applied # Never
       => \E p \in collected : Period(applied) <= p /\ p < Period(time)

BusyOK ==
  \A c \in Calls : Busy(c) =>
    /\ time \in {start[c], start[c] + 1}
    /\ stage = "B" \/ Handed(c)

FaultlessOK ==
  \A c \in Calls : Busy(c) /\ c \notin disturbed =>
    stage = "C" \/ (stage = "B" /\ pc[c] = "collect")

Inv == SiteOK /\ BusyOK /\ FaultlessOK

(* A later slice is not in an earlier period.                              *)
LEMMA PeriodIsMonotone ==
  ASSUME NEW s \in Nat, NEW t \in Nat, s <= t
  PROVE  Period(s) <= Period(t)
  BY TimesAssumption DEF Period

(* The 18 hours of the cooldown reach back into the period before at most. *)
LEMMA CooldownReachesBackOnePeriod ==
  ASSUME NEW s \in Nat, NEW t \in Nat, t < s + Cooldown
  PROVE  Period(t) <= Period(s) + 1
  BY TimesAssumption DEF Period

(* A request, answered or not, leaves the clock and the other calls alone, *)
(* hands out the reward of this period or none, and never takes a task     *)
(* back to where it can be applied for.                                    *)
LEMMA RequestEffects ==
  ASSUME TypeOK, Inv, NEW c \in Calls, Apply(c) \/ Collect(c) \/ Verify(c) \/ AnswerLost(c)
  PROVE  /\ UNCHANGED <<time, login>>
         /\ SiteOK'
         /\ stage \in {"B", "C"} => stage' \in {"B", "C"}
         /\ stage = "C" => stage' = "C"
         /\ stage = "B" /\ stage' = "C" => Period(time) \in collected'
         /\ collected' \in {collected, collected \cup {Period(time)}}
         /\ disturbed' \in {disturbed, disturbed \cup {c}}
         /\ \A d \in Calls \ {c} :
              pc'[d] = pc[d] /\ start'[d] = start[d] /\ result'[d] = result[d]
<1>1. /\ UNCHANGED <<time, login>>
      /\ \/ UNCHANGED siteVars
         \/ \E m \in Messages : SiteApply(m) \/ SiteCollect(m)
      /\ disturbed' \in {disturbed, disturbed \cup {c}}
  BY DEF Apply, Collect, Verify, AnswerLost, Request, Refused, Garbled, Hollow
<1>2. \A d \in Calls \ {c} : pc'[d] = pc[d] /\ start'[d] = start[d] /\ result'[d] = result[d]
  BY DEF TypeOK, Apply, Collect, Verify, AnswerLost, Request, ReadApply, ReadCollect,
     ReadVerify, Ends
<1>3. CASE UNCHANGED siteVars
  BY <1>1, <1>2, <1>3 DEF siteVars, Inv, SiteOK, TypeOK
<1>4. ASSUME NEW m \in Messages, SiteApply(m) \/ SiteCollect(m)
      PROVE  /\ stage \in {"B", "C"} => stage' \in {"B", "C"}
             /\ stage = "C" => stage' = "C"
             /\ stage' = "C" <=> Period(time) \in collected'
             /\ collected' \in {collected, collected \cup {Period(time)}}
             /\ applied' \in {applied, time}
             /\ stage' = "A" => UNCHANGED siteVars
  BY <1>4 DEF SiteApply, SiteCollect, siteVars, Inv, SiteOK
<1>5. ASSUME NEW m \in Messages, SiteApply(m) \/ SiteCollect(m) PROVE SiteOK'
  <2>1. Period(time) \in Nat
    BY PeriodAdvances DEF TypeOK
  <2>2. time' = time /\ Period(time)' = Period(time)
    BY <1>1 DEF Period
  <2>3. (stage = "C" <=> Period(time) \in collected)'
    BY <1>4, <1>5, <2>2
  <2>4. (collected \subseteq 0 .. Period(time))'
    <3>1. \A p \in collected \cup {Period(time)} : p \in 0 .. Period(time)
      <4>1. \A n \in Nat : n \in 0 .. n
        OBVIOUS
      <4> QED
        BY <2>1, <4>1 DEF Inv, SiteOK
    <3> QED
      BY <1>4, <1>5, <2>2, <3>1 DEF Inv, SiteOK
  <2>5. (applied # Never => applied <= time)'
    BY <1>4, <1>5, <2>2 DEF Inv, SiteOK, TypeOK
  <2>6. CASE stage' = "A"
    <3>1. UNCHANGED siteVars
      BY <1>4, <1>5, <2>6
    <3> QED
      BY <2>2, <2>3, <2>5, <2>4, <3>1 DEF Inv, SiteOK, siteVars
  <2> QED
    BY <2>3, <2>4, <2>5, <2>6 DEF SiteOK
<1> QED
  BY <1>1, <1>2, <1>3, <1>4, <1>5

(* A task that was applied for stays so until its reward is handed out.    *)
LEMMA ReliesOn ==
  ASSUME TypeOK, Inv, NEW c \in Calls, Apply(c) \/ Collect(c) \/ Verify(c) \/ AnswerLost(c),
         NEW d \in Calls, Busy(d), start'[d] = start[d]
  PROVE  (time \in {start[d], start[d] + 1} /\ (stage = "B" \/ Handed(d)))'
<1>1. /\ collected \subseteq collected' /\ time' = time
      /\ Period(time)' = Period(time) /\ Period(start[d])' = Period(start[d])
  BY RequestEffects DEF Period
<1>2. Handed(d) => Handed(d)'
  BY <1>1 DEF Handed
<1>3. stage = "B" => stage' = "B" \/ Handed(d)'
  <2> SUFFICES ASSUME stage = "B", stage' # "B" PROVE Handed(d)'
    OBVIOUS
  <2>1. Period(time) \in collected'
    BY RequestEffects
  <2>2. Period(start[d]) <= Period(time) /\ Period(time) <= Period(time)
    BY PeriodIsMonotone, PeriodAdvances DEF Inv, BusyOK, TypeOK
  <2> QED
    BY <1>1, <2>1, <2>2 DEF Handed
<1> QED
  BY <1>1, <1>2, <1>3 DEF Inv, BusyOK

(* A call that goes on to collect has just applied, and one that goes on   *)
(* to verify without a fault has found the task finished.                  *)
LEMMA RequestKeeps ==
  ASSUME TypeOK, Inv, NEW c \in Calls, Apply(c) \/ Collect(c) \/ Verify(c) \/ AnswerLost(c)
  PROVE  Inv'
<1>1. SiteOK' /\ UNCHANGED time
  BY RequestEffects
<1>2. ASSUME NEW d \in Calls, d # c, Busy(d)'
      PROVE  /\ (time \in {start[d], start[d] + 1} /\ (stage = "B" \/ Handed(d)))'
             /\ (d \notin disturbed => stage = "C" \/ (stage = "B" /\ pc[d] = "collect"))'
  <2>1. Busy(d) /\ start'[d] = start[d] /\ pc'[d] = pc[d]
    BY <1>2, RequestEffects DEF Busy
  <2> QED
    BY <1>2, <2>1, ReliesOn, RequestEffects DEF Inv, FaultlessOK
<1>3. ASSUME Busy(c)'
      PROVE  /\ (time \in {start[c], start[c] + 1} /\ (stage = "B" \/ Handed(c)))'
             /\ (c \notin disturbed => stage = "C" \/ (stage = "B" /\ pc[c] = "collect"))'
  <2> USE <1>3 DEF Busy, TypeOK, MatchesAny
  <2>1. CASE Apply(c)
    <3>1. stage' = "B" /\ start'[c] = time /\ pc'[c] = "collect"
      BY <2>1 DEF Apply, Request, ReadApply, SiteApply, Refused, Garbled, Hollow, siteVars,
         Keywords, NotLoggedIn, ApplyNeedsCollect, Messages
    <3> QED
      BY <1>1, <3>1
  <2>2. CASE Collect(c)
    <3>1. Busy(c) /\ UNCHANGED start
      BY <2>2 DEF Collect, Request, ReadCollect, Ends
    <3>2. c \notin disturbed' => stage' = "C"
      BY <2>2 DEF Collect, Request, ReadCollect, Ends, SiteCollect, Refused, Garbled, Hollow,
         siteVars, Keywords, NotLoggedIn, Messages, Inv, FaultlessOK
    <3> QED
      BY <2>2, <3>1, <3>2, ReliesOn
  <2>3. CASE Verify(c) \/ AnswerLost(c)
    BY <2>3 DEF Verify, Request, ReadVerify, Ends, AnswerLost
  <2> QED
    BY <2>1, <2>2, <2>3
<1> QED
  BY <1>1, <1>2, <1>3 DEF Inv, BusyOK, FaultlessOK

(* A period that begins starts the task anew.                              *)
LEMMA TimeKeeps == ASSUME TypeOK, Inv, TimePasses PROVE Inv'
<1>1. /\ time' = time + 1 /\ UNCHANGED <<applied, collected, pc, start>>
      /\ Period(time) \in Nat /\ Period(time)' \in {Period(time), Period(time) + 1}
  BY PeriodAdvances DEF TimePasses, TypeOK, Period
<1>2. SiteOK'
  <2>1. (collected \subseteq 0 .. Period(time))'
    BY <1>1 DEF Inv, SiteOK
  <2>2. (applied # Never => applied <= time)'
    BY <1>1 DEF Inv, SiteOK, TypeOK
  <2>3. Period(applied)' = Period(applied)
    BY <1>1 DEF Period
  <2>4. CASE Period(time)' = Period(time)
    BY <1>1, <2>1, <2>2, <2>3, <2>4 DEF TimePasses, Inv, SiteOK
  <2>5. CASE Period(time)' = Period(time) + 1
    <3>1. stage' = (IF stage = "C" THEN "A" ELSE stage) /\ Period(time)' \notin collected
      BY <1>1, <2>5 DEF TimePasses, Inv, SiteOK, Period
    <3>2. ASSUME stage = "C", applied # Never
          PROVE  Period(time) \in collected /\ Period(applied) <= Period(time)
      BY <3>2, PeriodIsMonotone DEF Inv, SiteOK, TypeOK
    <3>3. (stage = "A" /\ applied # Never
             => \E p \in collected : Period(applied) <= p /\ p < Period(time))'
      BY <1>1, <2>3, <2>5, <3>1, <3>2 DEF Inv, SiteOK
    <3>4. (stage = "C" <=> Period(time) \in collected)'
      BY <1>1, <3>1
    <3> QED
      BY <2>1, <2>2, <3>3, <3>4 DEF SiteOK
  <2> QED
    BY <1>1, <2>4, <2>5
<1>3. BusyOK'
  <2> SUFFICES ASSUME NEW c \in Calls, Busy(c)'
               PROVE  (time \in {start[c], start[c] + 1} /\ (stage = "B" \/ Handed(c)))'
    BY DEF BusyOK
  <2>1. Busy(c) /\ start[c] = time /\ start' = start
    BY <1>1 DEF Busy, TimePasses
  <2>2. Period(start[c])' = Period(start[c])
    BY <2>1 DEF Period
  <2>3. Handed(c) => Handed(c)'
    BY <1>1, <2>2 DEF Handed, Inv, SiteOK
  <2>4. stage = "B" => stage' = "B"
    BY DEF TimePasses
  <2> QED
    BY <1>1, <2>1, <2>3, <2>4 DEF Inv, BusyOK
<1>4. FaultlessOK'
  <2> SUFFICES ASSUME NEW c \in Calls, Busy(c)', c \notin disturbed'
               PROVE  (stage = "C" \/ (stage = "B" /\ pc[c] = "collect"))'
    BY DEF FaultlessOK
  <2>1. Busy(c) /\ c \notin disturbed /\ UNCHANGED stage
    BY <1>1 DEF TimePasses, Busy
  <2> QED
    BY <1>1, <2>1 DEF Inv, FaultlessOK
<1> QED
  BY <1>2, <1>3, <1>4 DEF Inv

(* The invariant holds whatever calls, browser, clock and cookie do.       *)
LEMMA InvKept == Spec => []Inv
<1>1. Init => Inv
  <2> SUFFICES ASSUME Init PROVE Inv
    OBVIOUS
  <2>1. SiteOK
    BY TimesAssumption DEF Init, SiteOK
  <2> QED
    BY <2>1 DEF Init, Inv, BusyOK, FaultlessOK, Busy
<1>2. ASSUME TypeOK, Inv, [Next]_vars PROVE Inv'
  <2> USE <1>2
  <2>1. ASSUME NEW c \in Calls, Apply(c) \/ Collect(c) \/ Verify(c) \/ AnswerLost(c) PROVE Inv'
    BY <2>1, RequestKeeps
  <2>2. CASE SignedElsewhere
    <3>1. /\ stage' = "C" /\ collected' = collected \cup {Period(time)}
          /\ applied' \in {applied, time}
          /\ UNCHANGED <<time, pc, start, disturbed>>
      BY <2>2 DEF SignedElsewhere
    <3>2. Period(time) \in Nat /\ Period(time)' = Period(time)
      BY <3>1, PeriodAdvances DEF TypeOK, Period
    <3>3. \A n \in Nat : n \in 0 .. n
      OBVIOUS
    <3>4. SiteOK'
      <4>1. \A p \in collected' : p \in 0 .. Period(time)
        BY <3>1, <3>2, <3>3 DEF Inv, SiteOK
      <4>2. (applied # Never => applied <= time)'
        BY <3>1 DEF Inv, SiteOK, TypeOK
      <4> QED
        BY <3>1, <3>2, <4>1, <4>2 DEF SiteOK
    <3>5. ASSUME NEW c \in Calls, Busy(c)'
          PROVE  (time \in {start[c], start[c] + 1} /\ Handed(c))'
      <4>1. Busy(c) /\ Period(start[c])' = Period(start[c])
        BY <3>1, <3>5 DEF Busy, Period
      <4>2. time \in {start[c], start[c] + 1} /\ Period(start[c]) <= Period(time)
        BY <4>1, PeriodIsMonotone DEF Inv, BusyOK, TypeOK
      <4> QED
        BY <3>1, <3>2, <4>1, <4>2 DEF Handed
    <3> QED
      BY <3>1, <3>4, <3>5 DEF Inv, BusyOK, FaultlessOK
  <2>3. CASE TimePasses
    BY <2>3, TimeKeeps
  <2>4. CASE UNCHANGED <<time, siteVars, pc, start, terminal, result, disturbed>>
    BY <2>4 DEF siteVars, Inv, SiteOK, BusyOK, FaultlessOK, Busy, Handed, Period
  <2> QED
    BY <2>1, <2>2, <2>3, <2>4 DEF Next, CookieExpires, vars
<1> QED
  BY <1>1, <1>2, TypeCorrect, PTL DEF Spec

--------------------------------------------------------------------------------
(* A verification that confirms finds the reward handed out since the call *)
(* applied: an application it met with "already" is not that of the call.  *)
LEMMA ConfirmedIsHanded ==
  ASSUME TypeOK, Inv, NEW c \in Calls, Verify(c), result'[c] # "failed"
  PROVE  Handed(c) /\ result'[c] = "success" /\ UNCHANGED <<collected, start>>
<1>1. Busy(c)
  BY DEF Verify, Request, Busy
<1>2. stage # "B" /\ result'[c] = "success" /\ UNCHANGED <<collected, start>>
  BY DEF TypeOK, Verify, Request, ReadVerify, Ends, SiteApply, Refused, Garbled, Hollow, siteVars,
     MatchesAny, Keywords, NotLoggedIn, ApplyAlreadyCollected, Messages
<1> QED
  BY <1>1, <1>2 DEF Inv, BusyOK

(* SUCCESS proves that the reward was handed out in a period the call was  *)
(* running in.                                                             *)
THEOREM SuccessIsReal == Spec => []SuccessMeansCollected
<1>1. Init => SuccessMeansCollected
  BY DEF Init, SuccessMeansCollected
<1>2. ASSUME TypeOK, Inv, SuccessMeansCollected, [Next]_vars PROVE SuccessMeansCollected'
  <2> USE <1>2
  <2>1. ASSUME NEW c \in Calls, Apply(c) \/ Collect(c) \/ Verify(c) \/ AnswerLost(c)
        PROVE  SuccessMeansCollected'
    <3> SUFFICES ASSUME NEW d \in Calls, result'[d] = "success"
                 PROVE  \E p \in collected' : p \in {Period(start'[d]), Period(start'[d] + 1)}
      BY DEF SuccessMeansCollected, Period
    <3>1. CASE result[d] = "success"
      <4>1. start'[d] = start[d]
        BY <2>1, <3>1, RequestEffects
           DEF TypeOK, Apply, Collect, Verify, AnswerLost, Request, ReadCollect, ReadVerify, Ends
      <4> QED
        BY <2>1, <3>1, <4>1, RequestEffects DEF SuccessMeansCollected
    <3>2. CASE result[d] # "success"
      <4>1. d = c /\ Verify(c)
        BY <2>1, <3>2, RequestEffects
           DEF TypeOK, Apply, Collect, AnswerLost, Request, ReadApply, ReadCollect, Ends
      <4>2. Handed(c) /\ UNCHANGED <<collected, start>> /\ Busy(c)
        BY <4>1, ConfirmedIsHanded DEF Verify, Request, Busy
      <4>3. PICK p \in collected : Period(start[c]) <= p /\ p <= Period(time)
        BY <4>2 DEF Handed
      <4>4. /\ time \in {start[c], start[c] + 1} /\ p \in Nat
            /\ Period(start[c]) \in Nat
            /\ Period(start[c] + 1) \in {Period(start[c]), Period(start[c]) + 1}
        BY <4>2, PeriodAdvances, TimesAssumption DEF Inv, BusyOK, SiteOK, TypeOK
      <4> QED
        BY <4>1, <4>2, <4>3, <4>4
    <3> QED
      BY <3>1, <3>2
  <2>2. CASE SignedElsewhere \/ TimePasses \/ CookieExpires \/ UNCHANGED vars
    BY <2>2 DEF SignedElsewhere, TimePasses, CookieExpires, vars, siteVars,
       SuccessMeansCollected, Period
  <2> QED
    BY <2>1, <2>2 DEF Next
<1> QED
  BY <1>1, <1>2, TypeCorrect, InvKept, PTL DEF Spec

(* A working cookie on a working site is never reported as FAILED, however *)
(* many calls and browsers work on the task at the same time.              *)
THEOREM FailureIsReal == Spec => []NoFalseFailure
<1>1. Init => NoFalseFailure
  BY DEF Init, NoFalseFailure
<1>2. ASSUME TypeOK, Inv, NoFalseFailure, [Next]_vars PROVE NoFalseFailure'
  <2> USE <1>2
  <2>1. ASSUME NEW c \in Calls, Apply(c) \/ Collect(c) \/ Verify(c) \/ AnswerLost(c)
        PROVE  NoFalseFailure'
    <3>1. ASSUME result'[c] = "failed", c \notin disturbed', login
          PROVE  FALSE
      <4>1. ASSUME Apply(c) PROVE FALSE
        <5>1. PICK m \in Messages : SiteApply(m) /\ ReadApply(c, m)
          BY <3>1, <4>1 DEF Apply, Request, Refused, Garbled, Hollow
        <5>2. m \in {"no_repeat", "cooling_down", "go_finish_it"} /\ result[c] = "none"
          BY <4>1, <5>1 DEF SiteApply, Apply, Request, TypeOK
        <5> QED
          BY <3>1, <5>1, <5>2 DEF ReadApply, TypeOK, MatchesAny, Keywords, NotLoggedIn,
             ApplyNeedsCollect, ApplyAlreadyCollected
      <4>2. ASSUME Collect(c) PROVE FALSE
        <5>1. PICK m \in Messages : SiteCollect(m) /\ ReadCollect(c, m)
          BY <3>1, <4>2 DEF Collect, Request, Refused, Garbled, Hollow
        <5>2. /\ m \in {"not_applied", "you_finished_it", "no_repeat", "is_collected", "reward"}
              /\ result[c] = "none"
          BY <4>2, <5>1 DEF SiteCollect, Collect, Request, TypeOK
        <5>3. /\ ~MatchesAny(m, NotLoggedIn)
              /\ MatchesAny(m, CollectAlreadyDone) \/ MatchesAny(m, CollectSuccess)
          BY <5>2 DEF MatchesAny, Keywords, NotLoggedIn, CollectAlreadyDone, CollectSuccess
        <5> QED
          BY <3>1, <5>1, <5>2, <5>3 DEF ReadCollect
      <4>3. ASSUME Verify(c) PROVE FALSE
        <5>1. PICK m \in Messages : SiteApply(m) /\ ReadVerify(c, m)
          BY <3>1, <4>3 DEF Verify, Request, Refused, Garbled, Hollow
        <5>2. stage = "C" /\ m \in {"no_repeat", "cooling_down"}
          BY <3>1, <4>3, <5>1, RequestEffects
             DEF SiteApply, Verify, Request, Inv, FaultlessOK, Busy
        <5> QED
          BY <3>1, <5>1, <5>2 DEF ReadVerify, Ends, TypeOK, MatchesAny, Keywords, NotLoggedIn,
             ApplyAlreadyCollected
      <4> QED
        BY <2>1, <3>1, <4>1, <4>2, <4>3 DEF AnswerLost
    <3> QED
      BY <2>1, <3>1, RequestEffects DEF NoFalseFailure
  <2>2. CASE SignedElsewhere \/ TimePasses \/ CookieExpires \/ UNCHANGED vars
    BY <2>2 DEF SignedElsewhere, TimePasses, CookieExpires, vars, siteVars, NoFalseFailure
  <2> QED
    BY <2>1, <2>2 DEF Next
<1> QED
  BY <1>1, <1>2, TypeCorrect, InvKept, PTL DEF Spec

--------------------------------------------------------------------------------
(* The refinement of ServiceCall: out and began of the abstract calls.     *)
Out == [c \in Calls |-> IF Busy(c) THEN "applied" ELSE result[c]]
Began == [c \in Calls |-> Period(start[c])]

(* The site says "already" in the period of the reward, or when the        *)
(* cooldown reaches back to an application of the period before.           *)
LEMMA AlreadyIsReal ==
  ASSUME TypeOK, Inv, NEW m \in {"no_repeat", "cooling_down"}, SiteApply(m)
  PROVE  RepliesAlready(collected, Period(time))
<1>1. Period(time) \in Nat
  BY PeriodAdvances DEF TypeOK
<1>2. CASE stage = "C"
  BY <1>2 DEF Inv, SiteOK, RepliesAlready
<1>3. CASE stage = "A" /\ CoolingDown
  <2>1. applied \in Nat /\ time \in Nat /\ time < applied + Cooldown
    BY <1>3 DEF CoolingDown, TypeOK
  <2>2. PICK p \in collected : Period(applied) <= p /\ p < Period(time)
    BY <1>3 DEF CoolingDown, Inv, SiteOK
  <2>3. Period(time) <= Period(applied) + 1 /\ Period(applied) \in Nat /\ p \in Nat
    BY <2>1, <2>2, CooldownReachesBackOnePeriod, PeriodAdvances DEF Inv, SiteOK
  <2>4. p = Period(time) - 1 /\ Period(time) > 0
    BY <1>1, <2>2, <2>3
  <2> QED
    BY <2>2, <2>4 DEF RepliesAlready
<1> QED
  BY <1>2, <1>3 DEF SiteApply

(* Nobody has called yet.                                                  *)
LEMMA PromiseInit == Init => Promise!Init
<1> SUFFICES ASSUME Init PROVE Promise!Init
  OBVIOUS
<1>1. Period(0) = 0
  BY TimesAssumption DEF Period
<1> QED
  BY <1>1 DEF Init, Promise!Init, Busy

(* The application is the first step of a call ...                         *)
LEMMA ApplyRefines ==
  ASSUME TypeOK, Inv, NEW c \in Calls, Apply(c) \/ (AnswerLost(c) /\ pc[c] = "apply")
  PROVE  Promise!Applies(c)
<1>1. /\ result[c] = "none" /\ pc[c] = "apply" /\ UNCHANGED <<time, collected>>
      /\ start' = [start EXCEPT ![c] = time]
  BY DEF Apply, AnswerLost, Request, ReadApply, SiteApply, Refused, Garbled, Hollow,
     siteVars, TypeOK
<1>2. \E o \in ApplyOutcomes(collected, Period(time)) : Out' = [Out EXCEPT ![c] = o]
  <2>1. CASE result'[c] = "failed"
    <3>1. pc' = [pc EXCEPT ![c] = "done"] /\ result' = [result EXCEPT ![c] = "failed"]
      BY <1>1, <2>1 DEF Apply, AnswerLost, Request, ReadApply, TypeOK
    <3> QED
      BY <1>1, <3>1 DEF Out, Busy, ApplyOutcomes, TypeOK
  <2>2. CASE result'[c] # "failed"
    <3>1. PICK m \in Messages :
            ReadApply(c, m) /\ (SiteApply(m) \/ m \in {"log_in", "garbage"})
      <4>1. ~AnswerLost(c)
        BY <2>2 DEF AnswerLost, TypeOK
      <4> QED
        BY <1>1, <4>1 DEF Apply, Request, Refused, Garbled, Hollow
    <3>4. m \notin {"log_in", "garbage"}
      <4> SUFFICES ASSUME m \in {"log_in", "garbage"} PROVE FALSE
        OBVIOUS
      <4>1. MatchesAny(m, NotLoggedIn) \/ ~(\/ MatchesAny(m, ApplyNeedsCollect)
                                           \/ MatchesAny(m, ApplyAlreadyCollected))
        BY DEF MatchesAny, Keywords, NotLoggedIn, ApplyNeedsCollect, ApplyAlreadyCollected
      <4>2. ~ (~MatchesAny(m, NotLoggedIn) /\ MatchesAny(m, ApplyNeedsCollect))
        BY <4>1
      <4> QED
        BY <2>2, <3>1, <4>1, <4>2 DEF ReadApply, TypeOK
    <3>2. CASE m = "go_finish_it"
      <4>1. pc' = [pc EXCEPT ![c] = "collect"] /\ UNCHANGED result
        BY <3>1, <3>2 DEF ReadApply, MatchesAny, Keywords, NotLoggedIn, ApplyNeedsCollect
      <4>2. Period(time) \notin collected
        BY <3>1, <3>2 DEF SiteApply, Inv, SiteOK
      <4> QED
        BY <1>1, <4>1, <4>2 DEF Out, Busy, ApplyOutcomes, TypeOK
    <3>3. CASE m \in {"no_repeat", "cooling_down"}
      <4>1. pc' = [pc EXCEPT ![c] = "done"] /\ result' = [result EXCEPT ![c] = "already_done"]
        BY <2>2, <3>1, <3>3
           DEF ReadApply, MatchesAny, Keywords, NotLoggedIn, ApplyNeedsCollect, TypeOK
      <4>2. RepliesAlready(collected, Period(time))
        BY <3>1, <3>3, AlreadyIsReal
      <4> QED
        BY <1>1, <4>1, <4>2 DEF Out, Busy, ApplyOutcomes, TypeOK
    <3> QED
      BY <3>1, <3>2, <3>3, <3>4 DEF SiteApply
  <2> QED
    BY <2>1, <2>2
<1>3. Began' = [Began EXCEPT ![c] = Period(time)]
  BY <1>1 DEF Began, Period, TypeOK
<1> QED
  BY <1>1, <1>2, <1>3 DEF Promise!Applies, Promise!ApplyOutcomes, Promise!RepliesAlready,
     ApplyOutcomes, RepliesAlready, Out, Began, Busy, Period

(* ... a verification or a failure is the second, and a collection that    *)
(* goes on to verify is the site at work.                                  *)
LEMMA EndRefines ==
  ASSUME TypeOK, Inv, NEW c \in Calls,
         Collect(c) \/ Verify(c) \/ (AnswerLost(c) /\ pc[c] # "apply")
  PROVE  Promise!Collects(c) \/ Promise!SignedElsewhere \/ UNCHANGED Promise!vars
<1>1. Busy(c) /\ UNCHANGED <<time, start>> /\ Period(time)' = Period(time)
  BY DEF Collect, Verify, AnswerLost, Request, ReadCollect, ReadVerify, Ends, Busy, TypeOK, Period
<1>2. Began' = Began
  BY <1>1 DEF Began, Period
<1>3. collected' \in {collected, collected \cup {Period(time)}}
  BY RequestEffects
<1>4. CASE pc'[c] # "done"
  <2>1. pc' = [pc EXCEPT ![c] = "verify"] /\ UNCHANGED result
    BY <1>4 DEF Collect, Verify, AnswerLost, Request, ReadCollect, ReadVerify, Ends, TypeOK
  <2>2. Out' = Out
    BY <1>1, <2>1 DEF Out, Busy, TypeOK
  <2> QED
    BY <1>1, <1>2, <1>3, <2>2 DEF Promise!SignedElsewhere, Promise!vars, Out, Began
<1>5. CASE pc'[c] = "done"
  <2>1. PICK s \in {"success", "failed"} : Out' = [Out EXCEPT ![c] = s] /\ result'[c] = s
    <3>1. PICK s \in {"success", "failed"} :
            pc' = [pc EXCEPT ![c] = "done"] /\ result' = [result EXCEPT ![c] = s]
      BY <1>5 DEF Collect, Verify, AnswerLost, Request, ReadCollect, ReadVerify, Ends, TypeOK
    <3> QED
      BY <3>1 DEF Out, Busy, TypeOK
  <2>2. <<s, collected'>> \in CollectOutcomes(collected, Began[c], Period(time))
    <3>1. CASE s = "failed"
      BY <1>3, <3>1 DEF CollectOutcomes
    <3>2. CASE s = "success"
      <4>1. Verify(c)
        BY <1>1, <1>5, <2>1, <3>2 DEF Collect, AnswerLost, Request, ReadCollect, Ends, TypeOK
      <4>2. Handed(c) /\ UNCHANGED collected
        BY <2>1, <3>2, <4>1, ConfirmedIsHanded
      <4>3. PICK p \in collected : Period(start[c]) <= p /\ p <= Period(time)
        BY <4>2 DEF Handed
      <4>4. p \in Began[c] .. Period(time)
        <5>1. p \in Nat /\ Period(start[c]) \in Nat /\ Period(time) \in Nat
          BY PeriodAdvances DEF Inv, SiteOK, TypeOK
        <5> QED
          BY <4>3, <5>1 DEF Began
      <4> QED
        BY <3>2, <4>2, <4>4 DEF CollectOutcomes
    <3> QED
      BY <3>1, <3>2
  <2>3. Out[c] = "applied"
    BY <1>1 DEF Out
  <2> QED
    BY <1>1, <1>2, <2>1, <2>2, <2>3
       DEF Promise!Collects, Promise!CollectOutcomes, CollectOutcomes, Out, Began
<1> QED
  BY <1>4, <1>5

(* run_checkin keeps the promise its callers rely on: every step of the    *)
(* concurrent calls, the site and the browser is one of ServiceCall, or    *)
(* none that a caller could see.                                           *)
THEOREM KeepsPromise == Spec => PromiseSpec
<1>1. ASSUME TypeOK, TypeOK', Inv, [Next]_vars
      PROVE  [Promise!Next]_(Promise!vars)
  <2> USE <1>1
  <2>1. ASSUME NEW c \in Calls, Apply(c) \/ Collect(c) \/ Verify(c) \/ AnswerLost(c)
        PROVE  [Promise!Next]_(Promise!vars)
    BY <2>1, ApplyRefines, EndRefines DEF Promise!Next
  <2>2. CASE SignedElsewhere
    BY <2>2 DEF SignedElsewhere, Promise!Next, Promise!SignedElsewhere, Busy, Period
  <2>3. CASE TimePasses
    <3>1. UNCHANGED <<collected, pc, start, result>> /\ time' = time + 1
      BY <2>3 DEF TimePasses
    <3>2. UNCHANGED <<Out, Began>>
      BY <3>1 DEF Out, Began, Busy, Period
    <3>3. /\ Period(time)' \in {Period(time), Period(time) + 1}
          /\ Period(time) \in Nat /\ Period(time)' <= Period(MaxTime)
      <4>1. Period(time)' = Period(time + 1)
        BY <3>1 DEF Period
      <4>2. time \in Nat /\ time + 1 \in Nat /\ MaxTime \in Nat /\ time + 1 <= MaxTime
        BY <3>1, TimesAssumption DEF TypeOK
      <4>3. Period(time + 1) <= Period(MaxTime)
        BY <4>2, PeriodIsMonotone
      <4> QED
        BY <4>1, <4>2, <4>3, PeriodAdvances
    <3>4. CASE Period(time)' = Period(time)
      BY <3>1, <3>2, <3>4 DEF Promise!vars, Out, Began
    <3>5. CASE Period(time)' = Period(time) + 1
      <4>1. Period(time) < Period(MaxTime)
        BY <3>3, <3>5, TimesAssumption, PeriodAdvances
      <4> QED
        BY <3>1, <3>2, <3>5, <4>1 DEF Promise!Next, Promise!NextPeriod, Out, Began
    <3> QED
      BY <3>3, <3>4, <3>5
  <2>4. CASE CookieExpires \/ UNCHANGED vars
    BY <2>4 DEF CookieExpires, vars, siteVars, Promise!vars, Busy, Period
  <2> QED
    BY <2>1, <2>2, <2>3, <2>4 DEF Next
<1> QED
  BY <1>1, PromiseInit, TypeCorrect, InvKept, PTL DEF Spec, PromiseSpec, Promise!Spec
================================================================================
