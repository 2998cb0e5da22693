--------------------------- MODULE LoginServerProofs ---------------------------
(***************************************************************************)
(* Proofs about LoginServer, for any number of users, links and requests.  *)
(* No link is bounded by a clock here either: a timer may fire and a link  *)
(* may be found lapsed at any moment.                                      *)
(***************************************************************************)
EXTENDS LoginServer, TLAPS

--------------------------------------------------------------------------------
(* Type correctness: every variable keeps to its set of values, and the    *)
(* locals of the event loop are unset when it is idle.                     *)
THEOREM TypeCorrect == Spec => []TypeOK
<1>1. Init => TypeOK
  <2> SUFFICES ASSUME Init PROVE TypeOK
    OBVIOUS
  <2>1. LinksOK /\ LoopOK /\ RequestsOK
    BY NoneIsOther DEF Init, LinksOK, LoopOK, RequestsOK, Live
  <2>2. active \in [Requests -> BOOLEAN]
    BY Zenon DEF Init
  <2> QED
    BY <2>1, <2>2 DEF Init, TypeOK
<1>2. ASSUME TypeOK, [Next]_vars PROVE TypeOK'
  <2> USE <1>2, NoneIsOther DEF TypeOK, LinksOK, LoopOK, RequestsOK, Live, linkVars,
       loopVars, reqVars, endVars
  <2>1. ASSUME NEW u \in Users, SpLogin(u) PROVE TypeOK'
    BY <2>1 DEF SpLogin
  <2>2. CASE ScanEntry
    BY <2>2 DEF ScanEntry, Reusable, EntryFree
  <2>3. CASE CreateEntry
    BY <2>3 DEF CreateEntry, Fresh
  <2>4. CASE BuryEntry
    BY <2>4 DEF BuryEntry, EntryFree, Expired, CloseAttempt
  <2>5. CASE SpLoginAnswers
    BY <2>5 DEF SpLoginAnswers
  <2>6. CASE ExpireSession
    BY <2>6 DEF ExpireSession, EntryFree, Expired, CloseAttempt
  <2>7. CASE CancelTask
    BY <2>7 DEF CancelTask
  <2>8. CASE IterationBreaks
    BY <2>8 DEF IterationBreaks
  <2>9. CASE Shutdown
    BY <2>9 DEF Shutdown
  <2>10. CASE Terminate
    BY <2>10 DEF Terminate
  <2>11. ASSUME NEW t \in Tokens, TimerFires(t) PROVE TypeOK'
    BY <2>11 DEF TimerFires
  <2>12. ASSUME NEW t \in Tokens, TimerCancelled(t) PROVE TypeOK'
    BY <2>12 DEF TimerCancelled
  <2>13. ASSUME NEW r \in Requests, NEW t \in Tokens, CancelTake(r, t) PROVE TypeOK'
    BY <2>13 DEF CancelTake, Starts, Answer, ServerLockFree
  <2>14. ASSUME NEW r \in Requests, NEW t \in Tokens,
             NEW next \in {"answered", "captcha", "submit"}, Peek(r, t, next)
         PROVE  TypeOK'
    BY <2>14 DEF Peek, Starts, Answer, ServerLockFree
  <2>15. ASSUME NEW r \in Requests, PeekLate(r) PROVE TypeOK'
    BY <2>15 DEF PeekLate, Goes
  <2>16. ASSUME NEW r \in Requests, PeekTakes(r) PROVE TypeOK'
    BY <2>16 DEF PeekTakes, Goes, ServerLockFree
  <2>17. ASSUME NEW r \in Requests, PeekExpires(r) PROVE TypeOK'
    BY <2>17 DEF PeekExpires, Starts, Answer, EntryFree, CloseAttempt
  <2>18. ASSUME NEW r \in Requests, FetchCaptcha(r) PROVE TypeOK'
    BY <2>18 DEF FetchCaptcha, Goes, Answer, Starts, EntryFree, EnsureAttempt
  <2>19. ASSUME NEW r \in Requests, CaptchaFetched(r) PROVE TypeOK'
    BY <2>19 DEF CaptchaFetched, Answer, Starts
  <2>20. ASSUME NEW r \in Requests, CancelSession(r) PROVE TypeOK'
    BY <2>20 DEF CancelSession, Goes, EntryFree, CloseAttempt
  <2>21. ASSUME NEW r \in Requests, Submit(r) PROVE TypeOK'
    BY <2>21 DEF Submit, Submittable, EnsureAttempt, Goes, Answer, Starts, EntryFree
  <2>22. ASSUME NEW r \in Requests, SiteAccepts(r) PROVE TypeOK'
    BY <2>22 DEF SiteAccepts, Goes
  <2>23. ASSUME NEW r \in Requests, SubmitFails(r) PROVE TypeOK'
    <3>1. active' \in [Requests -> BOOLEAN]
      BY <2>23, Zenon DEF SubmitFails, Forget
    <3>2. LinksOK' /\ LoopOK' /\ RequestsOK'
      BY <2>23 DEF SubmitFails, Forget, Answer, Starts, EntryFree
    <3> QED
      BY <2>23, <3>1, <3>2 DEF SubmitFails
  <2>24. ASSUME NEW r \in Requests, SubmitReturns(r) PROVE TypeOK'
    BY <2>24 DEF SubmitReturns, HasLoginCookie, Goes, ServerLockFree
  <2>25. ASSUME NEW r \in Requests, Accept(r) PROVE TypeOK'
    <3>1. active' \in [Requests -> BOOLEAN]
      BY <2>25, Zenon DEF Accept, Forget
    <3>2. LinksOK' /\ LoopOK' /\ RequestsOK'
      BY <2>25 DEF Accept, Acceptable, Goes, CloseAttempt, Forget, Answer, Starts, EntryFree
    <3> QED
      BY <2>25, <3>1, <3>2 DEF Accept
  <2>26. ASSUME NEW r \in Requests, CancelExpiryTask(r) PROVE TypeOK'
    BY <2>26 DEF CancelExpiryTask, Goes
  <2>27. ASSUME NEW r \in Requests, HandleLoginSuccess(r) PROVE TypeOK'
    BY <2>27 DEF HandleLoginSuccess, Goes
  <2>28. ASSUME NEW r \in Requests, TakeEntry(r) PROVE TypeOK'
    BY <2>28 DEF TakeEntry, Goes, ServerLockFree
  <2>29. ASSUME NEW r \in Requests, CloseEntry(r) PROVE TypeOK'
    BY <2>29 DEF CloseEntry, Goes, CloseAttempt, EntryFree
  <2>30. CASE UNCHANGED vars
    BY <2>30 DEF vars
  <2> HIDE NoneIsOther DEF TypeOK, LinksOK, LoopOK, RequestsOK, Live, linkVars,
       loopVars, reqVars, endVars
  <2> QED
    BY <2>1, <2>2, <2>3, <2>4, <2>5, <2>6, <2>7, <2>8, <2>9, <2>10, <2>11, <2>12, <2>13,
       <2>14, <2>15, <2>16, <2>17, <2>18, <2>19, <2>20, <2>21, <2>22, <2>23, <2>24,
       <2>25, <2>26, <2>27, <2>28, <2>29, <2>30
    DEF Next, LoopStep, RequestStep
<1> QED
  BY <1>1, <1>2, PTL DEF Spec

--------------------------------------------------------------------------------
(* A request whose form is with the forum, or whose login was accepted,    *)
(* keeps the link from ever awaiting another form: nothing but the failure *)
(* of that very submission leads back, and only from "submitting".         *)
SubmissionOK ==
  \A r \in Requests :
    /\ InFlight(r) => state[tok[r]] \in {"submitting", "expired", "cancelled"}
    /\ Accepted(r) => state[tok[r]] \in {"done", "expired", "cancelled"}
    /\ pc[r] = "cancelled" => state[tok[r]] \in {"cancelled", "expired"}
    /\ pc[r] \notin {"new", "answered"} => state[tok[r]] # "unused"

EntriesOK == \A t \in entries : state[t] # "unused"

SubInv == SubmissionOK /\ OneSubmission /\ EntriesOK

(* OneSubmission is inductive together with the state that each request    *)
(* in flight or accepted guarantees for its link.                          *)
LEMMA SubInvKept == Spec => []SubInv
<1>1. Init => SubInv
  BY NoneIsOther DEF Init, SubInv, SubmissionOK, EntriesOK, OneSubmission, InFlight,
     Accepted, Live
<1>2. ASSUME TypeOK, SubInv, [Next]_vars PROVE SubInv'
  <2> USE <1>2, NoneIsOther DEF TypeOK, LinksOK, LoopOK, RequestsOK, Live, linkVars,
       loopVars, reqVars, endVars, SubInv, SubmissionOK, EntriesOK, OneSubmission,
       InFlight, Accepted
  <2>1. ASSUME NEW u \in Users, SpLogin(u) PROVE SubInv'
    BY <2>1 DEF SpLogin
  <2>2. CASE ScanEntry
    BY <2>2 DEF ScanEntry, Reusable, EntryFree
  <2>3. CASE CreateEntry
    BY <2>3 DEF CreateEntry, Fresh
  <2>4. CASE BuryEntry
    BY <2>4 DEF BuryEntry, EntryFree, Expired, CloseAttempt
  <2>5. CASE SpLoginAnswers
    BY <2>5 DEF SpLoginAnswers
  <2>6. CASE ExpireSession
    BY <2>6 DEF ExpireSession, EntryFree, Expired, CloseAttempt
  <2>7. CASE CancelTask
    BY <2>7 DEF CancelTask
  <2>8. CASE IterationBreaks
    BY <2>8 DEF IterationBreaks
  <2>9. CASE Shutdown
    BY <2>9 DEF Shutdown
  <2>10. CASE Terminate
    BY <2>10 DEF Terminate
  <2>11. ASSUME NEW t \in Tokens, TimerFires(t) PROVE SubInv'
    BY <2>11 DEF TimerFires
  <2>12. ASSUME NEW t \in Tokens, TimerCancelled(t) PROVE SubInv'
    BY <2>12 DEF TimerCancelled
  <2>13. ASSUME NEW r \in Requests, NEW t \in Tokens, CancelTake(r, t) PROVE SubInv'
    BY <2>13 DEF CancelTake, Starts, Answer, ServerLockFree
  <2>14. ASSUME NEW r \in Requests, NEW t \in Tokens,
             NEW next \in {"answered", "captcha", "submit"}, Peek(r, t, next)
         PROVE  SubInv'
    BY <2>14 DEF Peek, Starts, Answer, ServerLockFree
  <2>15. ASSUME NEW r \in Requests, PeekLate(r) PROVE SubInv'
    BY <2>15 DEF PeekLate, Goes
  <2>16. ASSUME NEW r \in Requests, PeekTakes(r) PROVE SubInv'
    BY <2>16 DEF PeekTakes, Goes, ServerLockFree
  <2>17. ASSUME NEW r \in Requests, PeekExpires(r) PROVE SubInv'
    BY <2>17 DEF PeekExpires, Starts, Answer, EntryFree, CloseAttempt
  <2>18. ASSUME NEW r \in Requests, FetchCaptcha(r) PROVE SubInv'
    BY <2>18 DEF FetchCaptcha, Goes, Answer, Starts, EntryFree, EnsureAttempt
  <2>19. ASSUME NEW r \in Requests, CaptchaFetched(r) PROVE SubInv'
    BY <2>19 DEF CaptchaFetched, Answer, Starts
  <2>20. ASSUME NEW r \in Requests, CancelSession(r) PROVE SubInv'
    BY <2>20 DEF CancelSession, Goes, EntryFree, CloseAttempt
  <2>21. ASSUME NEW r \in Requests, Submit(r) PROVE SubInv'
    BY <2>21 DEF Submit, Submittable, EnsureAttempt, Goes, Answer, Starts, EntryFree
  <2>22. ASSUME NEW r \in Requests, SiteAccepts(r) PROVE SubInv'
    BY <2>22 DEF SiteAccepts, Goes
  <2>23. ASSUME NEW r \in Requests, SubmitFails(r) PROVE SubInv'
    BY <2>23 DEF SubmitFails, Forget, Answer, Starts, EntryFree
  <2>24. ASSUME NEW r \in Requests, SubmitReturns(r) PROVE SubInv'
    BY <2>24 DEF SubmitReturns, HasLoginCookie, Goes, ServerLockFree
  <2>25. ASSUME NEW r \in Requests, Accept(r) PROVE SubInv'
    BY <2>25 DEF Accept, Acceptable, Goes, CloseAttempt, Forget, Answer, Starts,
       EntryFree
  <2>26. ASSUME NEW r \in Requests, CancelExpiryTask(r) PROVE SubInv'
    BY <2>26 DEF CancelExpiryTask, Goes
  <2>27. ASSUME NEW r \in Requests, HandleLoginSuccess(r) PROVE SubInv'
    BY <2>27 DEF HandleLoginSuccess, Goes
  <2>28. ASSUME NEW r \in Requests, TakeEntry(r) PROVE SubInv'
    BY <2>28 DEF TakeEntry, Goes, ServerLockFree
  <2>29. ASSUME NEW r \in Requests, CloseEntry(r) PROVE SubInv'
    BY <2>29 DEF CloseEntry, Goes, CloseAttempt, EntryFree
  <2>30. CASE UNCHANGED vars
    BY <2>30 DEF vars
  <2> HIDE NoneIsOther DEF TypeOK, LinksOK, LoopOK, RequestsOK, Live, linkVars,
       loopVars, reqVars, endVars, SubInv, SubmissionOK, EntriesOK, OneSubmission,
       InFlight, Accepted
  <2> QED
    BY <2>1, <2>2, <2>3, <2>4, <2>5, <2>6, <2>7, <2>8, <2>9, <2>10, <2>11, <2>12, <2>13,
       <2>14, <2>15, <2>16, <2>17, <2>18, <2>19, <2>20, <2>21, <2>22, <2>23, <2>24,
       <2>25, <2>26, <2>27, <2>28, <2>29, <2>30
    DEF Next, LoopStep, RequestStep
<1> QED
  BY <1>1, <1>2, TypeCorrect, PTL DEF Spec

(* One thread at a time submits the form of a link or has had it accepted, *)
(* and none fetches a captcha with its attempt meanwhile.                  *)
THEOREM OneSubmissionAtATime == Spec => []OneSubmission
  BY SubInvKept, PTL DEF SubInv

--------------------------------------------------------------------------------
(* While get_or_create_session looks at the entries of a user, each of his *)
(* live ones is among those it has yet to look at: an entry that was dead  *)
(* when it was passed over never comes back to life.                       *)
ScanOK ==
  loop = "scan" =>
    /\ who \in Users
    /\ \A t \in entries : owner[t] = who /\ state[t] \in Live => t \in rest

LinkInv == OneLiveLink /\ ScanOK

(* The link of a user that is reused or created is the only live one.      *)
LEMMA LinkInvKept == Spec => []LinkInv
<1>1. Init => LinkInv
  BY NoneIsOther DEF Init, LinkInv, OneLiveLink, ScanOK, EntriesOK, Live
<1>2. ASSUME TypeOK, EntriesOK, LinkInv, [Next]_vars PROVE LinkInv'
  <2> USE <1>2, NoneIsOther DEF TypeOK, LinksOK, LoopOK, RequestsOK, Live, linkVars,
       loopVars, reqVars, endVars, LinkInv, OneLiveLink, ScanOK, EntriesOK
  <2>1. ASSUME NEW u \in Users, SpLogin(u) PROVE LinkInv'
    BY <2>1 DEF SpLogin
  <2>2. CASE ScanEntry
    BY <2>2 DEF ScanEntry, Reusable, EntryFree
  <2>3. CASE CreateEntry
    BY <2>3 DEF CreateEntry, Fresh
  <2>4. CASE BuryEntry
    BY <2>4 DEF BuryEntry, EntryFree, Expired, CloseAttempt
  <2>5. CASE SpLoginAnswers
    BY <2>5 DEF SpLoginAnswers
  <2>6. CASE ExpireSession
    BY <2>6 DEF ExpireSession, EntryFree, Expired, CloseAttempt
  <2>7. CASE CancelTask
    BY <2>7 DEF CancelTask
  <2>8. CASE IterationBreaks
    BY <2>8 DEF IterationBreaks
  <2>9. CASE Shutdown
    BY <2>9 DEF Shutdown
  <2>10. CASE Terminate
    BY <2>10 DEF Terminate
  <2>11. ASSUME NEW t \in Tokens, TimerFires(t) PROVE LinkInv'
    BY <2>11 DEF TimerFires
  <2>12. ASSUME NEW t \in Tokens, TimerCancelled(t) PROVE LinkInv'
    BY <2>12 DEF TimerCancelled
  <2>13. ASSUME NEW r \in Requests, NEW t \in Tokens, CancelTake(r, t) PROVE LinkInv'
    BY <2>13 DEF CancelTake, Starts, Answer, ServerLockFree
  <2>14. ASSUME NEW r \in Requests, NEW t \in Tokens,
             NEW next \in {"answered", "captcha", "submit"}, Peek(r, t, next)
         PROVE  LinkInv'
    BY <2>14 DEF Peek, Starts, Answer, ServerLockFree
  <2>15. ASSUME NEW r \in Requests, PeekLate(r) PROVE LinkInv'
    BY <2>15 DEF PeekLate, Goes
  <2>16. ASSUME NEW r \in Requests, PeekTakes(r) PROVE LinkInv'
    BY <2>16 DEF PeekTakes, Goes, ServerLockFree
  <2>17. ASSUME NEW r \in Requests, PeekExpires(r) PROVE LinkInv'
    BY <2>17 DEF PeekExpires, Starts, Answer, EntryFree, CloseAttempt
  <2>18. ASSUME NEW r \in Requests, FetchCaptcha(r) PROVE LinkInv'
    BY <2>18 DEF FetchCaptcha, Goes, Answer, Starts, EntryFree, EnsureAttempt
  <2>19. ASSUME NEW r \in Requests, CaptchaFetched(r) PROVE LinkInv'
    BY <2>19 DEF CaptchaFetched, Answer, Starts
  <2>20. ASSUME NEW r \in Requests, CancelSession(r) PROVE LinkInv'
    BY <2>20 DEF CancelSession, Goes, EntryFree, CloseAttempt
  <2>21. ASSUME NEW r \in Requests, Submit(r) PROVE LinkInv'
    BY <2>21 DEF Submit, Submittable, EnsureAttempt, Goes, Answer, Starts, EntryFree
  <2>22. ASSUME NEW r \in Requests, SiteAccepts(r) PROVE LinkInv'
    BY <2>22 DEF SiteAccepts, Goes
  <2>23. ASSUME NEW r \in Requests, SubmitFails(r) PROVE LinkInv'
    BY <2>23 DEF SubmitFails, Forget, Answer, Starts, EntryFree
  <2>24. ASSUME NEW r \in Requests, SubmitReturns(r) PROVE LinkInv'
    BY <2>24 DEF SubmitReturns, HasLoginCookie, Goes, ServerLockFree
  <2>25. ASSUME NEW r \in Requests, Accept(r) PROVE LinkInv'
    BY <2>25 DEF Accept, Acceptable, Goes, CloseAttempt, Forget, Answer, Starts,
       EntryFree
  <2>26. ASSUME NEW r \in Requests, CancelExpiryTask(r) PROVE LinkInv'
    BY <2>26 DEF CancelExpiryTask, Goes
  <2>27. ASSUME NEW r \in Requests, HandleLoginSuccess(r) PROVE LinkInv'
    BY <2>27 DEF HandleLoginSuccess, Goes
  <2>28. ASSUME NEW r \in Requests, TakeEntry(r) PROVE LinkInv'
    BY <2>28 DEF TakeEntry, Goes, ServerLockFree
  <2>29. ASSUME NEW r \in Requests, CloseEntry(r) PROVE LinkInv'
    BY <2>29 DEF CloseEntry, Goes, CloseAttempt, EntryFree
  <2>30. CASE UNCHANGED vars
    BY <2>30 DEF vars
  <2> HIDE NoneIsOther DEF TypeOK, LinksOK, LoopOK, RequestsOK, Live, linkVars,
       loopVars, reqVars, endVars, LinkInv, OneLiveLink, ScanOK, EntriesOK
  <2> QED
    BY <2>1, <2>2, <2>3, <2>4, <2>5, <2>6, <2>7, <2>8, <2>9, <2>10, <2>11, <2>12, <2>13,
       <2>14, <2>15, <2>16, <2>17, <2>18, <2>19, <2>20, <2>21, <2>22, <2>23, <2>24,
       <2>25, <2>26, <2>27, <2>28, <2>29, <2>30
    DEF Next, LoopStep, RequestStep
<1> QED
  BY <1>1, <1>2, TypeCorrect, SubInvKept, PTL DEF Spec, SubInv

(* A user never has two links on one platform that can be logged in with.  *)
THEOREM LinksAreSingle == Spec => []OneLiveLink
  BY LinkInvKept, PTL DEF LinkInv

--------------------------------------------------------------------------------
(* A link that was taken out to be expired, or whose user was told that it *)
(* timed out, is not in the table, and its token is not drawn again.       *)
TakenOK == \A t \in taken \cup timedout : t \notin entries /\ state[t] # "unused"

(* Nothing puts an entry back into the table.                              *)
LEMMA TakenOKKept == Spec => []TakenOK
<1>1. Init => TakenOK
  BY NoneIsOther DEF Init, TakenOK, EntriesOK, Live
<1>2. ASSUME TypeOK, EntriesOK, TakenOK, [Next]_vars PROVE TakenOK'
  <2> USE <1>2, NoneIsOther DEF TypeOK, LinksOK, LoopOK, RequestsOK, Live, linkVars,
       loopVars, reqVars, endVars, TakenOK, EntriesOK
  <2>1. ASSUME NEW u \in Users, SpLogin(u) PROVE TakenOK'
    BY <2>1 DEF SpLogin
  <2>2. CASE ScanEntry
    BY <2>2 DEF ScanEntry, Reusable, EntryFree
  <2>3. CASE CreateEntry
    BY <2>3 DEF CreateEntry, Fresh
  <2>4. CASE BuryEntry
    BY <2>4 DEF BuryEntry, EntryFree, Expired, CloseAttempt
  <2>5. CASE SpLoginAnswers
    BY <2>5 DEF SpLoginAnswers
  <2>6. CASE ExpireSession
    BY <2>6 DEF ExpireSession, EntryFree, Expired, CloseAttempt
  <2>7. CASE CancelTask
    BY <2>7 DEF CancelTask
  <2>8. CASE IterationBreaks
    BY <2>8 DEF IterationBreaks
  <2>9. CASE Shutdown
    BY <2>9 DEF Shutdown
  <2>10. CASE Terminate
    BY <2>10 DEF Terminate
  <2>11. ASSUME NEW t \in Tokens, TimerFires(t) PROVE TakenOK'
    BY <2>11 DEF TimerFires
  <2>12. ASSUME NEW t \in Tokens, TimerCancelled(t) PROVE TakenOK'
    BY <2>12 DEF TimerCancelled
  <2>13. ASSUME NEW r \in Requests, NEW t \in Tokens, CancelTake(r, t) PROVE TakenOK'
    BY <2>13 DEF CancelTake, Starts, Answer, ServerLockFree
  <2>14. ASSUME NEW r \in Requests, NEW t \in Tokens,
             NEW next \in {"answered", "captcha", "submit"}, Peek(r, t, next)
         PROVE  TakenOK'
    BY <2>14 DEF Peek, Starts, Answer, ServerLockFree
  <2>15. ASSUME NEW r \in Requests, PeekLate(r) PROVE TakenOK'
    BY <2>15 DEF PeekLate, Goes
  <2>16. ASSUME NEW r \in Requests, PeekTakes(r) PROVE TakenOK'
    BY <2>16 DEF PeekTakes, Goes, ServerLockFree
  <2>17. ASSUME NEW r \in Requests, PeekExpires(r) PROVE TakenOK'
    BY <2>17 DEF PeekExpires, Starts, Answer, EntryFree, CloseAttempt
  <2>18. ASSUME NEW r \in Requests, FetchCaptcha(r) PROVE TakenOK'
    BY <2>18 DEF FetchCaptcha, Goes, Answer, Starts, EntryFree, EnsureAttempt
  <2>19. ASSUME NEW r \in Requests, CaptchaFetched(r) PROVE TakenOK'
    BY <2>19 DEF CaptchaFetched, Answer, Starts
  <2>20. ASSUME NEW r \in Requests, CancelSession(r) PROVE TakenOK'
    BY <2>20 DEF CancelSession, Goes, EntryFree, CloseAttempt
  <2>21. ASSUME NEW r \in Requests, Submit(r) PROVE TakenOK'
    BY <2>21 DEF Submit, Submittable, EnsureAttempt, Goes, Answer, Starts, EntryFree
  <2>22. ASSUME NEW r \in Requests, SiteAccepts(r) PROVE TakenOK'
    BY <2>22 DEF SiteAccepts, Goes
  <2>23. ASSUME NEW r \in Requests, SubmitFails(r) PROVE TakenOK'
    BY <2>23 DEF SubmitFails, Forget, Answer, Starts, EntryFree
  <2>24. ASSUME NEW r \in Requests, SubmitReturns(r) PROVE TakenOK'
    BY <2>24 DEF SubmitReturns, HasLoginCookie, Goes, ServerLockFree
  <2>25. ASSUME NEW r \in Requests, Accept(r) PROVE TakenOK'
    BY <2>25 DEF Accept, Acceptable, Goes, CloseAttempt, Forget, Answer, Starts,
       EntryFree
  <2>26. ASSUME NEW r \in Requests, CancelExpiryTask(r) PROVE TakenOK'
    BY <2>26 DEF CancelExpiryTask, Goes
  <2>27. ASSUME NEW r \in Requests, HandleLoginSuccess(r) PROVE TakenOK'
    BY <2>27 DEF HandleLoginSuccess, Goes
  <2>28. ASSUME NEW r \in Requests, TakeEntry(r) PROVE TakenOK'
    BY <2>28 DEF TakeEntry, Goes, ServerLockFree
  <2>29. ASSUME NEW r \in Requests, CloseEntry(r) PROVE TakenOK'
    BY <2>29 DEF CloseEntry, Goes, CloseAttempt, EntryFree
  <2>30. CASE UNCHANGED vars
    BY <2>30 DEF vars
  <2> HIDE NoneIsOther DEF TypeOK, LinksOK, LoopOK, RequestsOK, Live, linkVars,
       loopVars, reqVars, endVars, TakenOK, EntriesOK
  <2> QED
    BY <2>1, <2>2, <2>3, <2>4, <2>5, <2>6, <2>7, <2>8, <2>9, <2>10, <2>11, <2>12, <2>13,
       <2>14, <2>15, <2>16, <2>17, <2>18, <2>19, <2>20, <2>21, <2>22, <2>23, <2>24,
       <2>25, <2>26, <2>27, <2>28, <2>29, <2>30
    DEF Next, LoopStep, RequestStep
<1> QED
  BY <1>1, <1>2, TypeCorrect, SubInvKept, PTL DEF Spec, SubInv

(* Once the user was told that the link timed out, and no submission had   *)
(* found it in the table before, its login is never accepted.              *)
THEOREM TimedOutIsDoomed == Spec => TimeoutStopsSubmission
<1>1. ASSUME TypeOK, TakenOK, [Next]_vars,
             NEW link \in Tokens, Doomed(link)
      PROVE  Doomed(link)'
  <2> USE <1>1, NoneIsOther DEF TypeOK, LinksOK, LoopOK, RequestsOK, Live, linkVars,
       loopVars, reqVars, endVars, TakenOK, Doomed, Accepted, AcceptedFor
  <2>1. ASSUME NEW u \in Users, SpLogin(u) PROVE Doomed(link)'
    BY <2>1 DEF SpLogin
  <2>2. CASE ScanEntry
    BY <2>2 DEF ScanEntry, Reusable, EntryFree
  <2>3. CASE CreateEntry
    BY <2>3 DEF CreateEntry, Fresh
  <2>4. CASE BuryEntry
    BY <2>4 DEF BuryEntry, EntryFree, Expired, CloseAttempt
  <2>5. CASE SpLoginAnswers
    BY <2>5 DEF SpLoginAnswers
  <2>6. CASE ExpireSession
    BY <2>6 DEF ExpireSession, EntryFree, Expired, CloseAttempt
  <2>7. CASE CancelTask
    BY <2>7 DEF CancelTask
  <2>8. CASE IterationBreaks
    BY <2>8 DEF IterationBreaks
  <2>9. CASE Shutdown
    BY <2>9 DEF Shutdown
  <2>10. CASE Terminate
    BY <2>10 DEF Terminate
  <2>11. ASSUME NEW t \in Tokens, TimerFires(t) PROVE Doomed(link)'
    BY <2>11 DEF TimerFires
  <2>12. ASSUME NEW t \in Tokens, TimerCancelled(t) PROVE Doomed(link)'
    BY <2>12 DEF TimerCancelled
  <2>13. ASSUME NEW r \in Requests, NEW t \in Tokens, CancelTake(r, t)
         PROVE  Doomed(link)'
    BY <2>13 DEF CancelTake, Starts, Answer, ServerLockFree
  <2>14. ASSUME NEW r \in Requests, NEW t \in Tokens,
             NEW next \in {"answered", "captcha", "submit"}, Peek(r, t, next)
         PROVE  Doomed(link)'
    BY <2>14 DEF Peek, Starts, Answer, ServerLockFree
  <2>15. ASSUME NEW r \in Requests, PeekLate(r) PROVE Doomed(link)'
    BY <2>15 DEF PeekLate, Goes
  <2>16. ASSUME NEW r \in Requests, PeekTakes(r) PROVE Doomed(link)'
    BY <2>16 DEF PeekTakes, Goes, ServerLockFree
  <2>17. ASSUME NEW r \in Requests, PeekExpires(r) PROVE Doomed(link)'
    BY <2>17 DEF PeekExpires, Starts, Answer, EntryFree, CloseAttempt
  <2>18. ASSUME NEW r \in Requests, FetchCaptcha(r) PROVE Doomed(link)'
    BY <2>18 DEF FetchCaptcha, Goes, Answer, Starts, EntryFree, EnsureAttempt
  <2>19. ASSUME NEW r \in Requests, CaptchaFetched(r) PROVE Doomed(link)'
    BY <2>19 DEF CaptchaFetched, Answer, Starts
  <2>20. ASSUME NEW r \in Requests, CancelSession(r) PROVE Doomed(link)'
    BY <2>20 DEF CancelSession, Goes, EntryFree, CloseAttempt
  <2>21. ASSUME NEW r \in Requests, Submit(r) PROVE Doomed(link)'
    BY <2>21 DEF Submit, Submittable, EnsureAttempt, Goes, Answer, Starts, EntryFree
  <2>22. ASSUME NEW r \in Requests, SiteAccepts(r) PROVE Doomed(link)'
    BY <2>22 DEF SiteAccepts, Goes
  <2>23. ASSUME NEW r \in Requests, SubmitFails(r) PROVE Doomed(link)'
    BY <2>23 DEF SubmitFails, Forget, Answer, Starts, EntryFree
  <2>24. ASSUME NEW r \in Requests, SubmitReturns(r) PROVE Doomed(link)'
    <3>1. active'[r] = (tok[r] \in entries)
      BY <2>24, Zenon DEF SubmitReturns
    <3>2. \A q \in Requests \ {r} : active'[q] = active[q]
      BY <2>24, Zenon DEF SubmitReturns
    <3>3. ~(tok[r] = link /\ active'[r])
      BY <3>1
    <3> QED
      BY <2>24, <3>2, <3>3 DEF SubmitReturns, Goes
  <2>25. ASSUME NEW r \in Requests, Accept(r) PROVE Doomed(link)'
    BY <2>25 DEF Accept, Acceptable, Goes, CloseAttempt, Forget, Answer, Starts,
       EntryFree
  <2>26. ASSUME NEW r \in Requests, CancelExpiryTask(r) PROVE Doomed(link)'
    BY <2>26 DEF CancelExpiryTask, Goes
  <2>27. ASSUME NEW r \in Requests, HandleLoginSuccess(r) PROVE Doomed(link)'
    BY <2>27 DEF HandleLoginSuccess, Goes
  <2>28. ASSUME NEW r \in Requests, TakeEntry(r) PROVE Doomed(link)'
    BY <2>28 DEF TakeEntry, Goes, ServerLockFree
  <2>29. ASSUME NEW r \in Requests, CloseEntry(r) PROVE Doomed(link)'
    BY <2>29 DEF CloseEntry, Goes, CloseAttempt, EntryFree
  <2>30. CASE UNCHANGED vars
    BY <2>30 DEF vars
  <2> QED
    BY <2>1, <2>2, <2>3, <2>4, <2>5, <2>6, <2>7, <2>8, <2>9, <2>10, <2>11, <2>12, <2>13,
       <2>14, <2>15, <2>16, <2>17, <2>18, <2>19, <2>20, <2>21, <2>22, <2>23, <2>24,
       <2>25, <2>26, <2>27, <2>28, <2>29, <2>30
    DEF Next, LoopStep, RequestStep
<1>2. ASSUME TypeOK, TakenOK, [Next]_vars
      PROVE  \A t \in Tokens : Doomed(t) => Doomed(t)'
  BY <1>1, <1>2
<1> QED
  BY <1>2, TypeCorrect, TakenOKKept, PTL DEF Spec, TimeoutStopsSubmission

--------------------------------------------------------------------------------
(* The links implement OneTimeLinks.  All steps but four can only take     *)
(* links away: nothing is accepted by them and nobody is told anything.    *)
PhaseMap == [t \in Tokens |-> Phase(t)]
CancelledSet == {t \in Tokens : CancelledFor(t)}

Receding ==
  /\ \A t \in Tokens :
       /\ AcceptedFor(t)' <=> AcceptedFor(t)
       /\ InPlay(t)' => InPlay(t)
       /\ Racing(t)' => InPlay(t) \/ Racing(t)
       /\ state'[t] = "unused" <=> state[t] = "unused"
       /\ CancelledFor(t)' <=> CancelledFor(t)
  /\ UNCHANGED <<owner, timedout>>

(* Such a step withdraws some links, perhaps none.                         *)
LEMMA RecedingIsWithdrawal ==
  ASSUME Receding
  PROVE  Links!Withdraw
<1>1. \A t \in Tokens : Phase(t)' \in Links!Fates(Phase(t))
  BY DEF Receding, Phase, Links!Fates, InPlay, Racing, Live
<1>2. PhaseMap' \in [Tokens -> Links!Phases]
  BY DEF PhaseMap, Phase, Links!Phases
<1>3. CancelledSet' = CancelledSet
  BY DEF Receding, CancelledSet
<1> QED
  BY <1>1, <1>2, <1>3 DEF Receding, Links!Withdraw, PhaseMap, CancelledSet

(* A submission that no longer finds its link in the table knows so.       *)
LEMMA InactiveReturn ==
  ASSUME NEW r \in Requests, active \in [Requests -> BOOLEAN], SubmitReturns(r),
         tok[r] \notin entries
  PROVE  ~active'[r]
BY Zenon DEF SubmitReturns

(* All others create a link, accept a login, or tell the user something.   *)
LEMMA RecedingSteps ==
  ASSUME TypeOK, SubInv, [Next]_vars
  PROVE  \/ Receding \/ CreateEntry \/ ExpireSession
         \/ \E r \in Requests : CancelSession(r) \/ Accept(r)
<1> SUFFICES ASSUME ~CreateEntry, ~ExpireSession,
                    \A r \in Requests : ~CancelSession(r) /\ ~Accept(r)
             PROVE  Receding
  OBVIOUS
<1>1. Receding
  <2> USE NoneIsOther DEF TypeOK, LinksOK, LoopOK, RequestsOK, Live, linkVars,
       loopVars, reqVars, endVars, SubInv, SubmissionOK, EntriesOK, InFlight, Accepted,
       AcceptedFor, CancelledFor, InPlay, Racing, Receding
  <2>1. ASSUME NEW u \in Users, SpLogin(u) PROVE Receding
    BY <2>1 DEF SpLogin
  <2>2. CASE ScanEntry
    BY <2>2 DEF ScanEntry, Reusable, EntryFree
  <2>3. CASE BuryEntry
    BY <2>3 DEF BuryEntry, EntryFree, Expired, CloseAttempt
  <2>4. CASE SpLoginAnswers
    BY <2>4 DEF SpLoginAnswers
  <2>5. CASE CancelTask
    BY <2>5 DEF CancelTask
  <2>6. CASE IterationBreaks
    BY <2>6 DEF IterationBreaks
  <2>7. CASE Shutdown
    BY <2>7 DEF Shutdown
  <2>8. CASE Terminate
    BY <2>8 DEF Terminate
  <2>9. ASSUME NEW t \in Tokens, TimerFires(t) PROVE Receding
    BY <2>9 DEF TimerFires
  <2>10. ASSUME NEW t \in Tokens, TimerCancelled(t) PROVE Receding
    BY <2>10 DEF TimerCancelled
  <2>11. ASSUME NEW r \in Requests, NEW t \in Tokens, CancelTake(r, t) PROVE Receding
    BY <2>11 DEF CancelTake, Starts, Answer, ServerLockFree
  <2>12. ASSUME NEW r \in Requests, NEW t \in Tokens,
             NEW next \in {"answered", "captcha", "submit"}, Peek(r, t, next)
         PROVE  Receding
    BY <2>12 DEF Peek, Starts, Answer, ServerLockFree
  <2>13. ASSUME NEW r \in Requests, PeekLate(r) PROVE Receding
    BY <2>13 DEF PeekLate, Goes
  <2>14. ASSUME NEW r \in Requests, PeekTakes(r) PROVE Receding
    BY <2>14 DEF PeekTakes, Goes, ServerLockFree
  <2>15. ASSUME NEW r \in Requests, PeekExpires(r) PROVE Receding
    BY <2>15 DEF PeekExpires, Starts, Answer, EntryFree, CloseAttempt
  <2>16. ASSUME NEW r \in Requests, FetchCaptcha(r) PROVE Receding
    BY <2>16 DEF FetchCaptcha, Goes, Answer, Starts, EntryFree, EnsureAttempt
  <2>17. ASSUME NEW r \in Requests, CaptchaFetched(r) PROVE Receding
    BY <2>17 DEF CaptchaFetched, Answer, Starts
  <2>18. ASSUME NEW r \in Requests, Submit(r) PROVE Receding
    BY <2>18 DEF Submit, Submittable, EnsureAttempt, Goes, Answer, Starts, EntryFree
  <2>19. ASSUME NEW r \in Requests, SiteAccepts(r) PROVE Receding
    BY <2>19 DEF SiteAccepts, Goes
  <2>20. ASSUME NEW r \in Requests, SubmitFails(r) PROVE Receding
    BY <2>20 DEF SubmitFails, Forget, Answer, Starts, EntryFree
  <2>21. ASSUME NEW r \in Requests, SubmitReturns(r) PROVE Receding
    <3>1. /\ pc' = [pc EXCEPT ![r] = "returned"] /\ tok' = tok
          /\ pc[r] \in {"network", "posted"}
          /\ UNCHANGED <<entries, state, owner, timedout>>
      BY <2>21 DEF SubmitReturns, Goes
    <3>2. \A q \in Requests \ {r} : active'[q] <=> active[q]
      BY <2>21 DEF SubmitReturns
    <3>3. \A t \in Tokens : Racing(t)' => InPlay(t) \/ Racing(t)
      <4> SUFFICES ASSUME NEW t \in Tokens, Racing(t)', ~Racing(t) PROVE InPlay(t)
        OBVIOUS
      <4>1. PICK q \in Requests : tok[q] = t /\ pc'[q] = "returned" /\ active'[q]
        BY <3>1
      <4>2. q = r
        BY <3>1, <3>2, <4>1 DEF Racing
      <4>3. tok[r] \in entries
        BY <2>21, <4>1, <4>2, InactiveReturn
      <4> QED
        BY <3>1, <4>1, <4>2, <4>3
    <3> QED
      BY <3>1, <3>3
  <2>22. ASSUME NEW r \in Requests, CancelExpiryTask(r) PROVE Receding
    BY <2>22 DEF CancelExpiryTask, Goes
  <2>23. ASSUME NEW r \in Requests, HandleLoginSuccess(r) PROVE Receding
    BY <2>23 DEF HandleLoginSuccess, Goes
  <2>24. ASSUME NEW r \in Requests, TakeEntry(r) PROVE Receding
    BY <2>24 DEF TakeEntry, Goes, ServerLockFree
  <2>25. ASSUME NEW r \in Requests, CloseEntry(r) PROVE Receding
    BY <2>25 DEF CloseEntry, Goes, CloseAttempt, EntryFree
  <2>26. CASE UNCHANGED vars
    BY <2>26 DEF vars
  <2> HIDE NoneIsOther DEF TypeOK, LinksOK, LoopOK, RequestsOK, Live, linkVars,
       loopVars, reqVars, endVars, SubInv, SubmissionOK, EntriesOK, InFlight, Accepted,
       AcceptedFor, CancelledFor, InPlay, Racing, Receding
  <2> QED
    BY <2>1, <2>2, <2>3, <2>4, <2>5, <2>6, <2>7, <2>8, <2>9, <2>10, <2>11, <2>12,
       <2>13, <2>14, <2>15, <2>16, <2>17, <2>18, <2>19, <2>20, <2>21, <2>22, <2>23,
       <2>24, <2>25, <2>26
    DEF Next, LoopStep, RequestStep
<1> QED
  BY <1>1

(* get_or_create_session creates a link when none of the user is live.     *)
LEMMA CreateIsIssue ==
  ASSUME TypeOK, SubInv, LinkInv, CreateEntry
  PROVE  \E t \in Tokens, u \in Users : Links!Issue(t, u)
<1> USE DEF TypeOK, LinksOK, LoopOK, RequestsOK
<1>1. PICK t \in Tokens :
        /\ state[t] = "unused" /\ entries' = entries \cup {t}
        /\ state' = [state EXCEPT ![t] = "awaiting"] /\ owner' = [owner EXCEPT ![t] = who]
  BY DEF CreateEntry, Fresh
<1>2. /\ loop = "scan" /\ rest = {}
      /\ UNCHANGED <<pc, tok, active, timedout>>
  BY DEF CreateEntry, reqVars, endVars
<1>3. who \in Users
  BY <1>2 DEF LinkInv, ScanOK
<1>4. \A r \in Requests : tok[r] = t => pc[r] \in {"new", "answered"}
  BY <1>1 DEF SubInv, SubmissionOK
<1>5. ~AcceptedFor(t) /\ ~Racing(t) /\ ~InPlay(t)
  BY <1>1, <1>4 DEF AcceptedFor, Accepted, Racing, InPlay, Live
<1>6. Phase(t) = "unused" /\ Phase(t)' = "live"
  <2>1. ~AcceptedFor(t)' /\ InPlay(t)'
    BY <1>1, <1>2, <1>4 DEF AcceptedFor, Accepted, InPlay, Live
  <2> QED
    BY <1>1, <1>5, <2>1 DEF Phase
<1>7. \A l \in Tokens \ {t} : Phase(l)' = Phase(l)
  BY <1>1, <1>2 DEF Phase, AcceptedFor, Accepted, InPlay, Racing
<1>8. \A l \in Tokens : ~(Phase(l) = "live" /\ owner[l] = who)
  BY <1>2 DEF Phase, LinkInv, ScanOK, InPlay
<1>9. CancelledSet' = CancelledSet
  BY <1>2 DEF CancelledSet, CancelledFor
<1>10. PhaseMap' = [PhaseMap EXCEPT ![t] = "live"]
  BY <1>6, <1>7 DEF PhaseMap
<1>11. /\ PhaseMap[t] = "unused"
       /\ \A l \in Tokens : ~(PhaseMap[l] = "live" /\ owner[l] = who)
  BY <1>6, <1>8 DEF PhaseMap
<1>12. Links!Issue(t, who)
  BY <1>1, <1>2, <1>9, <1>10, <1>11, Zenon DEF Links!Issue, PhaseMap, CancelledSet
<1> QED
  BY <1>3, <1>12

(* The login that is accepted is that of a link in the table, or of one    *)
(* whose submission was on its way from there.                             *)
LEMMA AcceptIsAccept ==
  ASSUME TypeOK, SubInv, NEW r \in Requests, Accept(r)
  PROVE  Receding \/ \E t \in Tokens : Links!Accept(t)
<1> USE DEF TypeOK, LinksOK, LoopOK, RequestsOK
<1>0. PICK t \in Tokens : tok[r] = t
  BY DEF Accept
<1>1. pc[r] = "returned" /\ tok[r] = t /\ UNCHANGED <<entries, owner, timedout>>
  BY <1>0 DEF Accept, linkVars, endVars
<1>2. CASE Acceptable(r)
  <2>1. /\ state' = [state EXCEPT ![t] = "done"] /\ pc' = [pc EXCEPT ![r] = "accepted"]
        /\ UNCHANGED <<tok, active>> /\ state[t] = "submitting" /\ active[r]
    BY <1>1, <1>2 DEF Accept, Acceptable, Goes
  <2>2. \A q \in Requests : q # r /\ tok[q] = t => ~Accepted(q)
    BY <1>1 DEF SubInv, OneSubmission, InFlight
  <2>3. ~AcceptedFor(t) /\ Racing(t) /\ AcceptedFor(t)'
    BY <1>1, <2>1, <2>2 DEF AcceptedFor, Accepted, Racing
  <2>4. Phase(t) \in {"live", "racing"} /\ Phase(t)' = "accepted"
    BY <2>3 DEF Phase
  <2>5. \A l \in Tokens \ {t} : Phase(l)' = Phase(l)
    <3> SUFFICES ASSUME NEW l \in Tokens, l # t PROVE Phase(l)' = Phase(l)
      OBVIOUS
    <3>1. \A q \in Requests : tok[q] = l => pc'[q] = pc[q]
      BY <1>1, <2>1
    <3>2. state'[l] = state[l]
      BY <2>1
    <3>3. (AcceptedFor(l)' <=> AcceptedFor(l)) /\ (Racing(l)' <=> Racing(l))
          /\ (InPlay(l)' <=> InPlay(l))
      BY <1>1, <2>1, <3>1, <3>2 DEF AcceptedFor, Accepted, Racing, InPlay
    <3> QED
      BY <3>2, <3>3 DEF Phase
  <2>6. CancelledSet' = CancelledSet
    <3>1. \A q \in Requests : pc'[q] = "cancelled" <=> pc[q] = "cancelled"
      BY <1>1, <2>1
    <3> QED
      BY <2>1, <3>1 DEF CancelledSet, CancelledFor
  <2>7. PhaseMap' = [PhaseMap EXCEPT ![t] = "accepted"]
    BY <2>4, <2>5 DEF PhaseMap
  <2> QED
    BY <1>1, <2>4, <2>6, <2>7 DEF Links!Accept, PhaseMap, CancelledSet
<1>3. CASE ~Acceptable(r)
  <2>1. /\ state' = state /\ pc' = [pc EXCEPT ![r] = "answered"]
        /\ tok' = [tok EXCEPT ![r] = None] /\ active' = [active EXCEPT ![r] = FALSE]
    BY <1>3 DEF Accept, Forget, Answer, Starts
  <2> QED
    BY <1>1, <2>1, NoneIsOther DEF Receding, AcceptedFor, Accepted, InPlay, Racing, CancelledFor
<1> QED
  BY <1>2, <1>3

(* A confirmed cancellation kills a link that was not accepted before.     *)
LEMMA CancelIsCancel ==
  ASSUME TypeOK, SubInv, NEW r \in Requests, CancelSession(r)
  PROVE  \E t \in Tokens : Links!Cancel(t)
<1> USE DEF TypeOK, LinksOK, LoopOK, RequestsOK
<1>0. PICK t \in Tokens : tok[r] = t
  BY DEF CancelSession
<1>1. /\ tok[r] = t /\ state' = [state EXCEPT ![t] = "cancelled"] /\ pc[r] = "cancel"
      /\ pc' = [pc EXCEPT ![r] = "cancelled"]
      /\ UNCHANGED <<entries, owner, tok, active, timedout>> /\ state[t] # "unused"
  BY <1>0 DEF CancelSession, Goes, reqVars, endVars, SubInv, SubmissionOK
<1>2. \A l \in Tokens : AcceptedFor(l)' <=> AcceptedFor(l)
  BY <1>1 DEF AcceptedFor, Accepted
<1>3. Phase(t)' = IF Phase(t) = "accepted" THEN "accepted" ELSE "dead"
  <2>1. ~InPlay(t)' /\ ~Racing(t)' /\ state'[t] # "unused"
    <3>1. state'[t] = "cancelled"
      BY <1>1
    <3> QED
      BY <3>1 DEF InPlay, Racing, Live
  <2> QED
    BY <1>2, <2>1 DEF Phase
<1>4. \A l \in Tokens \ {t} : Phase(l)' = Phase(l)
  <2> SUFFICES ASSUME NEW l \in Tokens, l # t PROVE Phase(l)' = Phase(l)
    OBVIOUS
  <2>1. state'[l] = state[l] /\ (InPlay(l)' <=> InPlay(l)) /\ (Racing(l)' <=> Racing(l))
    BY <1>1 DEF InPlay, Racing
  <2> QED
    BY <1>2, <2>1 DEF Phase
<1>5. CancelledSet' = CancelledSet \cup {t}
  <2>1. \A q \in Requests : pc'[q] = "cancelled" <=> pc[q] = "cancelled" \/ q = r
    BY <1>1
  <2>2. \A l \in Tokens : CancelledFor(l)' <=> CancelledFor(l) \/ l = t
    BY <1>1, <2>1 DEF CancelledFor
  <2> QED
    BY <1>1, <2>2 DEF CancelledSet
<1>6. PhaseMap' = [PhaseMap EXCEPT ![t] = IF @ = "accepted" THEN @ ELSE "dead"]
  BY <1>3, <1>4 DEF PhaseMap
<1>7. PhaseMap[t] # "unused"
  BY <1>1 DEF PhaseMap, Phase
<1> QED
  BY <1>1, <1>5, <1>6, <1>7 DEF Links!Cancel, PhaseMap, CancelledSet

(* A user is told of the time-out of a link that is out of the table.      *)
LEMMA ExpireIsTimeOut ==
  ASSUME TypeOK, SubInv, TakenOK, ExpireSession
  PROVE  \E t \in Tokens : Links!TimeOut(t)
<1> USE DEF TypeOK, LinksOK, LoopOK, RequestsOK
<1>1. PICK t \in taken : state' = Expired(t) /\ timedout' = timedout \cup {t}
  BY DEF ExpireSession
<1>2. t \in Tokens /\ t \notin entries /\ state[t] # "unused"
  BY <1>1 DEF TakenOK
<1>3. UNCHANGED <<entries, owner, pc, tok, active>>
  BY DEF ExpireSession, reqVars
<1>4. \A l \in Tokens : Phase(l)' = Phase(l)
  <2> SUFFICES ASSUME NEW l \in Tokens PROVE Phase(l)' = Phase(l)
    OBVIOUS
  <2>1. state'[l] = state[l] \/ (l = t /\ state[l] = "awaiting" /\ state'[l] = "expired")
    BY <1>1, <1>2 DEF Expired
  <2>2. /\ AcceptedFor(l)' <=> AcceptedFor(l)
        /\ InPlay(l)' <=> InPlay(l)
        /\ Racing(l)' <=> Racing(l)
    BY <1>2, <1>3, <2>1 DEF AcceptedFor, Accepted, InPlay, Racing, Live
  <2> QED
    BY <2>1, <2>2 DEF Phase
<1>5. Phase(t) \in {"racing", "accepted", "dead"}
  BY <1>2 DEF Phase, InPlay
<1>6. CancelledSet' = CancelledSet /\ PhaseMap' = PhaseMap
  BY <1>3, <1>4 DEF CancelledSet, CancelledFor, PhaseMap
<1> QED
  BY <1>1, <1>2, <1>3, <1>5, <1>6 DEF Links!TimeOut, PhaseMap, CancelledSet

(* Every step is one of the promise.                                       *)
LEMMA PromiseStep ==
  ASSUME TypeOK, SubInv, LinkInv, TakenOK, [Next]_vars
  PROVE  [Links!Next]_Links!vars
<1>1. Receding => Links!Next
  BY RecedingIsWithdrawal DEF Links!Next
<1>2. CreateEntry => Links!Next
  BY CreateIsIssue DEF Links!Next
<1>3. ExpireSession => Links!Next
  BY ExpireIsTimeOut DEF Links!Next
<1>4. ASSUME NEW r \in Requests, CancelSession(r) PROVE Links!Next
  BY <1>4, CancelIsCancel DEF Links!Next
<1>5. ASSUME NEW r \in Requests, Accept(r) PROVE Links!Next
  BY <1>1, <1>5, AcceptIsAccept DEF Links!Next
<1> QED
  BY <1>1, <1>2, <1>3, <1>4, <1>5, RecedingSteps

(* In no step of the promise a dead link comes back to life.               *)
LEMMA DeadStaysDead ==
  ASSUME [Links!Next]_Links!vars, NEW t \in Tokens, PhaseMap[t] = "dead"
  PROVE  PhaseMap'[t] = "dead"
BY DEF Links!Next, Links!Issue, Links!Withdraw, Links!Fates, Links!Accept, Links!Cancel,
   Links!TimeOut, Links!vars, PhaseMap

(* Lock by lock, the login server keeps the promise of OneTimeLinks: a     *)
(* link is good for one login, and no withdrawal of it is undone.          *)
THEOREM KeepsPromise == Spec => LinksSpec
<1>1. Init => Links!Init
  <2> SUFFICES ASSUME Init PROVE Links!Init
    OBVIOUS
  <2>1. \A t \in Tokens : Phase(t) = "unused" /\ ~CancelledFor(t)
    BY NoneIsOther DEF Init, Phase, AcceptedFor, Accepted, InPlay, Racing, CancelledFor
  <2> QED
    BY <2>1 DEF Init, Links!Init
<1>2. TypeOK /\ SubInv /\ LinkInv /\ TakenOK /\ [Next]_vars => [Links!Next]_Links!vars
  BY PromiseStep
<1> QED
  BY <1>1, <1>2, TypeCorrect, SubInvKept, LinkInvKept, TakenOKKept, PTL
     DEF Spec, LinksSpec, Links!Spec

(* Once the page was told that the login is cancelled, while the login had *)
(* not been accepted, it never is: not by a submission that was on the     *)
(* network, nor by one that had just found its entry still in the table.   *)
CancelIsFinal == [][\A t \in Tokens : CancelledFor(t) /\ ~AcceptedFor(t) => ~AcceptedFor(t)']_vars

(* So it is, for no step of the promise revives a dead link.               *)
THEOREM CancellationIsFinal == Spec => CancelIsFinal
<1>1. ASSUME TypeOK, SubInv, LinkInv, TakenOK, [Next]_vars,
             NEW t \in Tokens, CancelledFor(t), ~AcceptedFor(t)
      PROVE  ~AcceptedFor(t)'
  <2>1. PhaseMap[t] = "dead"
    BY <1>1 DEF PhaseMap, Phase, CancelledFor, SubInv, SubmissionOK, InPlay, Racing, Live
  <2>2. PhaseMap'[t] = "dead"
    BY <1>1, <2>1, PromiseStep, DeadStaysDead
  <2>3. Phase(t)' = "dead"
    BY <2>2 DEF PhaseMap
  <2> QED
    BY <2>3 DEF Phase
<1>2. TypeOK /\ SubInv /\ LinkInv /\ TakenOK /\ [Next]_vars =>
        [\A t \in Tokens : CancelledFor(t) /\ ~AcceptedFor(t) => ~AcceptedFor(t)']_vars
  BY <1>1
<1> QED
  BY <1>2, TypeCorrect, SubInvKept, LinkInvKept, TakenOKKept, PTL DEF Spec, CancelIsFinal

--------------------------------------------------------------------------------
(* Why a live link left the table: it is being closed, its time was up, or *)
(* the server was shut down.                                               *)
LateOK ==
  /\ \A r \in Requests : pc[r] \in {"late", "lapsed"} => tok[r] \in lapsed
  /\ loop \in {"scan", "bury"} => taken \subseteq lapsed
  /\ \A t, u \in taken : loop = "expire" => t = u

Excused(t) ==
  \/ t \in entries \cup taken \cup lapsed \cup timedout
  \/ shut
  \/ \E r \in Requests : tok[r] = t /\ pc[r] = "cancel"

ExcusedOK == LateOK /\ \A t \in Tokens : state[t] \in Live => Excused(t)

(* A live link is in the table unless it is excused.                       *)
LEMMA ExcusedOKKept == Spec => []ExcusedOK
<1>1. Init => ExcusedOK
  BY NoneIsOther DEF Init, ExcusedOK, LateOK, Excused, SubmissionOK, InFlight, Accepted,
     Live
<1>2. ASSUME TypeOK, SubmissionOK, ExcusedOK, [Next]_vars PROVE ExcusedOK'
  <2> USE <1>2, NoneIsOther DEF TypeOK, LinksOK, LoopOK, RequestsOK, Live, linkVars,
       loopVars, reqVars, endVars, ExcusedOK, LateOK, Excused, SubmissionOK, InFlight,
       Accepted
  <2>1. ASSUME NEW u \in Users, SpLogin(u) PROVE ExcusedOK'
    BY <2>1 DEF SpLogin
  <2>2. CASE ScanEntry
    BY <2>2 DEF ScanEntry, Reusable, EntryFree
  <2>3. CASE CreateEntry
    BY <2>3 DEF CreateEntry, Fresh
  <2>4. CASE BuryEntry
    BY <2>4 DEF BuryEntry, EntryFree, Expired, CloseAttempt
  <2>5. CASE SpLoginAnswers
    BY <2>5 DEF SpLoginAnswers
  <2>6. CASE ExpireSession
    BY <2>6 DEF ExpireSession, EntryFree, Expired, CloseAttempt
  <2>7. CASE CancelTask
    BY <2>7 DEF CancelTask
  <2>8. CASE IterationBreaks
    BY <2>8 DEF IterationBreaks
  <2>9. CASE Shutdown
    BY <2>9 DEF Shutdown
  <2>10. CASE Terminate
    BY <2>10 DEF Terminate
  <2>11. ASSUME NEW t \in Tokens, TimerFires(t) PROVE ExcusedOK'
    BY <2>11 DEF TimerFires
  <2>12. ASSUME NEW t \in Tokens, TimerCancelled(t) PROVE ExcusedOK'
    BY <2>12 DEF TimerCancelled
  <2>13. ASSUME NEW r \in Requests, NEW t \in Tokens, CancelTake(r, t) PROVE ExcusedOK'
    BY <2>13 DEF CancelTake, Starts, Answer, ServerLockFree
  <2>14. ASSUME NEW r \in Requests, NEW t \in Tokens,
             NEW next \in {"answered", "captcha", "submit"}, Peek(r, t, next)
         PROVE  ExcusedOK'
    BY <2>14 DEF Peek, Starts, Answer, ServerLockFree
  <2>15. ASSUME NEW r \in Requests, PeekLate(r) PROVE ExcusedOK'
    BY <2>15 DEF PeekLate, Goes
  <2>16. ASSUME NEW r \in Requests, PeekTakes(r) PROVE ExcusedOK'
    BY <2>16 DEF PeekTakes, Goes, ServerLockFree
  <2>17. ASSUME NEW r \in Requests, PeekExpires(r) PROVE ExcusedOK'
    BY <2>17 DEF PeekExpires, Starts, Answer, EntryFree, CloseAttempt
  <2>18. ASSUME NEW r \in Requests, FetchCaptcha(r) PROVE ExcusedOK'
    BY <2>18 DEF FetchCaptcha, Goes, Answer, Starts, EntryFree, EnsureAttempt
  <2>19. ASSUME NEW r \in Requests, CaptchaFetched(r) PROVE ExcusedOK'
    BY <2>19 DEF CaptchaFetched, Answer, Starts
  <2>20. ASSUME NEW r \in Requests, CancelSession(r) PROVE ExcusedOK'
    BY <2>20 DEF CancelSession, Goes, EntryFree, CloseAttempt
  <2>21. ASSUME NEW r \in Requests, Submit(r) PROVE ExcusedOK'
    BY <2>21 DEF Submit, Submittable, EnsureAttempt, Goes, Answer, Starts, EntryFree
  <2>22. ASSUME NEW r \in Requests, SiteAccepts(r) PROVE ExcusedOK'
    BY <2>22 DEF SiteAccepts, Goes
  <2>23. ASSUME NEW r \in Requests, SubmitFails(r) PROVE ExcusedOK'
    BY <2>23 DEF SubmitFails, Forget, Answer, Starts, EntryFree
  <2>24. ASSUME NEW r \in Requests, SubmitReturns(r) PROVE ExcusedOK'
    BY <2>24 DEF SubmitReturns, HasLoginCookie, Goes, ServerLockFree
  <2>25. ASSUME NEW r \in Requests, Accept(r) PROVE ExcusedOK'
    BY <2>25 DEF Accept, Acceptable, Goes, CloseAttempt, Forget, Answer, Starts,
       EntryFree
  <2>26. ASSUME NEW r \in Requests, CancelExpiryTask(r) PROVE ExcusedOK'
    BY <2>26 DEF CancelExpiryTask, Goes
  <2>27. ASSUME NEW r \in Requests, HandleLoginSuccess(r) PROVE ExcusedOK'
    BY <2>27 DEF HandleLoginSuccess, Goes
  <2>28. ASSUME NEW r \in Requests, TakeEntry(r) PROVE ExcusedOK'
    BY <2>28 DEF TakeEntry, Goes, ServerLockFree
  <2>29. ASSUME NEW r \in Requests, CloseEntry(r) PROVE ExcusedOK'
    BY <2>29 DEF CloseEntry, Goes, CloseAttempt, EntryFree
  <2>30. CASE UNCHANGED vars
    BY <2>30 DEF vars
  <2> HIDE NoneIsOther DEF TypeOK, LinksOK, LoopOK, RequestsOK, Live, linkVars,
       loopVars, reqVars, endVars, ExcusedOK, LateOK, Excused, SubmissionOK, InFlight,
       Accepted
  <2> QED
    BY <2>1, <2>2, <2>3, <2>4, <2>5, <2>6, <2>7, <2>8, <2>9, <2>10, <2>11, <2>12, <2>13,
       <2>14, <2>15, <2>16, <2>17, <2>18, <2>19, <2>20, <2>21, <2>22, <2>23, <2>24,
       <2>25, <2>26, <2>27, <2>28, <2>29, <2>30
    DEF Next, LoopStep, RequestStep
<1> QED
  BY <1>1, <1>2, TypeCorrect, SubInvKept, PTL DEF Spec, SubInv

(* Who answers for an open attempt: while the form is submitted the thread *)
(* that submits it, and after the login was accepted the thread that saves *)
(* it; the attempt of a link that is expired or cancelled is closed.       *)
AttemptOK ==
  \A t \in Tokens : Open(t) =>
    /\ state[t] \in {"awaiting", "submitting", "done"}
    /\ state[t] = "submitting" => \E r \in Requests : tok[r] = t /\ InFlight(r)
    /\ state[t] = "done" =>
         \E r \in Requests :
           tok[r] = t /\ pc[r] \in {"accepted", "profile", "finally", "close"}

(* Every step that leaves a link without such a thread closes the attempt. *)
LEMMA AttemptOKKept == Spec => []AttemptOK
<1>1. Init => AttemptOK
  BY NoneIsOther DEF Init, AttemptOK, Open, SubmissionOK, InFlight, Accepted, Live
<1>2. ASSUME TypeOK, SubmissionOK, AttemptOK, [Next]_vars PROVE AttemptOK'
  <2> USE <1>2, NoneIsOther DEF TypeOK, LinksOK, LoopOK, RequestsOK, Live, linkVars,
       loopVars, reqVars, endVars, AttemptOK, Open, SubmissionOK, InFlight, Accepted
  <2>1. ASSUME NEW u \in Users, SpLogin(u) PROVE AttemptOK'
    BY <2>1 DEF SpLogin
  <2>2. CASE ScanEntry
    BY <2>2 DEF ScanEntry, Reusable, EntryFree
  <2>3. CASE CreateEntry
    BY <2>3 DEF CreateEntry, Fresh
  <2>4. CASE BuryEntry
    BY <2>4 DEF BuryEntry, EntryFree, Expired, CloseAttempt
  <2>5. CASE SpLoginAnswers
    BY <2>5 DEF SpLoginAnswers
  <2>6. CASE ExpireSession
    BY <2>6 DEF ExpireSession, EntryFree, Expired, CloseAttempt
  <2>7. CASE CancelTask
    BY <2>7 DEF CancelTask
  <2>8. CASE IterationBreaks
    BY <2>8 DEF IterationBreaks
  <2>9. CASE Shutdown
    BY <2>9 DEF Shutdown
  <2>10. CASE Terminate
    BY <2>10 DEF Terminate
  <2>11. ASSUME NEW t \in Tokens, TimerFires(t) PROVE AttemptOK'
    BY <2>11 DEF TimerFires
  <2>12. ASSUME NEW t \in Tokens, TimerCancelled(t) PROVE AttemptOK'
    BY <2>12 DEF TimerCancelled
  <2>13. ASSUME NEW r \in Requests, NEW t \in Tokens, CancelTake(r, t) PROVE AttemptOK'
    BY <2>13 DEF CancelTake, Starts, Answer, ServerLockFree
  <2>14. ASSUME NEW r \in Requests, NEW t \in Tokens,
             NEW next \in {"answered", "captcha", "submit"}, Peek(r, t, next)
         PROVE  AttemptOK'
    BY <2>14 DEF Peek, Starts, Answer, ServerLockFree
  <2>15. ASSUME NEW r \in Requests, PeekLate(r) PROVE AttemptOK'
    BY <2>15 DEF PeekLate, Goes
  <2>16. ASSUME NEW r \in Requests, PeekTakes(r) PROVE AttemptOK'
    BY <2>16 DEF PeekTakes, Goes, ServerLockFree
  <2>17. ASSUME NEW r \in Requests, PeekExpires(r) PROVE AttemptOK'
    BY <2>17 DEF PeekExpires, Starts, Answer, EntryFree, CloseAttempt
  <2>18. ASSUME NEW r \in Requests, FetchCaptcha(r) PROVE AttemptOK'
    BY <2>18 DEF FetchCaptcha, Goes, Answer, Starts, EntryFree, EnsureAttempt
  <2>19. ASSUME NEW r \in Requests, CaptchaFetched(r) PROVE AttemptOK'
    BY <2>19 DEF CaptchaFetched, Answer, Starts
  <2>20. ASSUME NEW r \in Requests, CancelSession(r) PROVE AttemptOK'
    BY <2>20 DEF CancelSession, Goes, EntryFree, CloseAttempt
  <2>21. ASSUME NEW r \in Requests, Submit(r) PROVE AttemptOK'
    BY <2>21 DEF Submit, Submittable, EnsureAttempt, Goes, Answer, Starts, EntryFree
  <2>22. ASSUME NEW r \in Requests, SiteAccepts(r) PROVE AttemptOK'
    BY <2>22 DEF SiteAccepts, Goes
  <2>23. ASSUME NEW r \in Requests, SubmitFails(r) PROVE AttemptOK'
    BY <2>23 DEF SubmitFails, Forget, Answer, Starts, EntryFree
  <2>24. ASSUME NEW r \in Requests, SubmitReturns(r) PROVE AttemptOK'
    BY <2>24 DEF SubmitReturns, HasLoginCookie, Goes, ServerLockFree
  <2>25. ASSUME NEW r \in Requests, Accept(r) PROVE AttemptOK'
    BY <2>25 DEF Accept, Acceptable, Goes, CloseAttempt, Forget, Answer, Starts,
       EntryFree
  <2>26. ASSUME NEW r \in Requests, CancelExpiryTask(r) PROVE AttemptOK'
    BY <2>26 DEF CancelExpiryTask, Goes
  <2>27. ASSUME NEW r \in Requests, HandleLoginSuccess(r) PROVE AttemptOK'
    BY <2>27 DEF HandleLoginSuccess, Goes
  <2>28. ASSUME NEW r \in Requests, TakeEntry(r) PROVE AttemptOK'
    BY <2>28 DEF TakeEntry, Goes, ServerLockFree
  <2>29. ASSUME NEW r \in Requests, CloseEntry(r) PROVE AttemptOK'
    BY <2>29 DEF CloseEntry, Goes, CloseAttempt, EntryFree
  <2>30. CASE UNCHANGED vars
    BY <2>30 DEF vars
  <2> HIDE NoneIsOther DEF TypeOK, LinksOK, LoopOK, RequestsOK, Live, linkVars,
       loopVars, reqVars, endVars, AttemptOK, Open, SubmissionOK, InFlight, Accepted
  <2> QED
    BY <2>1, <2>2, <2>3, <2>4, <2>5, <2>6, <2>7, <2>8, <2>9, <2>10, <2>11, <2>12, <2>13,
       <2>14, <2>15, <2>16, <2>17, <2>18, <2>19, <2>20, <2>21, <2>22, <2>23, <2>24,
       <2>25, <2>26, <2>27, <2>28, <2>29, <2>30
    DEF Next, LoopStep, RequestStep
<1> QED
  BY <1>1, <1>2, TypeCorrect, SubInvKept, PTL DEF Spec, SubInv

(* An attempt is left open only where a request reopened it after expiry   *)
(* or the end had closed it, and left the link awaiting a form.            *)
THEOREM AttemptsAreClosed == Spec => []AttemptsAreKept
<1>1. ASSUME TypeOK, ExcusedOK, AttemptOK PROVE AttemptsAreKept
  <2> SUFFICES ASSUME NEW t \in Tokens, Open(t), ~Kept(t)
               PROVE  state[t] = "awaiting" /\ (shut \/ t \in lapsed \cup timedout)
    BY DEF AttemptsAreKept
  <2>1. state[t] = "awaiting"
    BY <1>1 DEF AttemptOK, Kept, InFlight
  <2>2. Excused(t)
    BY <1>1, <2>1 DEF ExcusedOK, Live
  <2> QED
    BY <2>1, <2>2 DEF Excused, Kept
<1> QED
  BY <1>1, TypeCorrect, ExcusedOKKept, AttemptOKKept, PTL

--------------------------------------------------------------------------------
(* While terminate iterates over the dictionary of expiry tasks, every     *)
(* armed timer is one it has yet to cancel, unless an accepted login took  *)
(* its task out; from then on the iteration can only raise.                *)
SomeAccepted == \E r \in Requests : Accepted(r)
NoneArmed == \A t \in Tokens : timer[t] # "armed"

StopInv ==
  /\ \A t \in Tokens : timer[t] = "armed" => t \in tasks
  /\ loop = "stop" => down /\ tasks \subseteq watched
  /\ loop = "stop" /\ tasks = watched => \A t \in Tokens : timer[t] = "armed" => t \in rest
  /\ loop = "stop" => tasks = watched \/ SomeAccepted
  /\ loop \in {"scan", "bury"} => ~down
  /\ shut => down
  /\ down /\ loop \in {"idle", "expire"} => (shut /\ NoneArmed) \/ SomeAccepted

(* Nothing arms a timer after terminate, and acceptance is not undone.     *)
LEMMA StopInvKept == Spec => []StopInv
<1>1. Init => StopInv
  BY NoneIsOther DEF Init, StopInv, SomeAccepted, NoneArmed, Accepted, Live
<1>2. ASSUME TypeOK, StopInv, [Next]_vars PROVE StopInv'
  <2> USE <1>2, NoneIsOther DEF TypeOK, LinksOK, LoopOK, RequestsOK, Live, linkVars,
       loopVars, reqVars, endVars, StopInv, SomeAccepted, NoneArmed, Accepted
  <2>1. ASSUME NEW u \in Users, SpLogin(u) PROVE StopInv'
    BY <2>1 DEF SpLogin
  <2>2. CASE ScanEntry
    BY <2>2 DEF ScanEntry, Reusable, EntryFree
  <2>3. CASE CreateEntry
    BY <2>3 DEF CreateEntry, Fresh
  <2>4. CASE BuryEntry
    BY <2>4 DEF BuryEntry, EntryFree, Expired, CloseAttempt
  <2>5. CASE SpLoginAnswers
    BY <2>5 DEF SpLoginAnswers
  <2>6. CASE ExpireSession
    BY <2>6 DEF ExpireSession, EntryFree, Expired, CloseAttempt
  <2>7. CASE CancelTask
    BY <2>7 DEF CancelTask
  <2>8. CASE IterationBreaks
    BY <2>8 DEF IterationBreaks
  <2>9. CASE Shutdown
    BY <2>9 DEF Shutdown
  <2>10. CASE Terminate
    BY <2>10 DEF Terminate
  <2>11. ASSUME NEW t \in Tokens, TimerFires(t) PROVE StopInv'
    BY <2>11 DEF TimerFires
  <2>12. ASSUME NEW t \in Tokens, TimerCancelled(t) PROVE StopInv'
    BY <2>12 DEF TimerCancelled
  <2>13. ASSUME NEW r \in Requests, NEW t \in Tokens, CancelTake(r, t) PROVE StopInv'
    BY <2>13 DEF CancelTake, Starts, Answer, ServerLockFree
  <2>14. ASSUME NEW r \in Requests, NEW t \in Tokens,
             NEW next \in {"answered", "captcha", "submit"}, Peek(r, t, next)
         PROVE  StopInv'
    BY <2>14 DEF Peek, Starts, Answer, ServerLockFree
  <2>15. ASSUME NEW r \in Requests, PeekLate(r) PROVE StopInv'
    BY <2>15 DEF PeekLate, Goes
  <2>16. ASSUME NEW r \in Requests, PeekTakes(r) PROVE StopInv'
    BY <2>16 DEF PeekTakes, Goes, ServerLockFree
  <2>17. ASSUME NEW r \in Requests, PeekExpires(r) PROVE StopInv'
    BY <2>17 DEF PeekExpires, Starts, Answer, EntryFree, CloseAttempt
  <2>18. ASSUME NEW r \in Requests, FetchCaptcha(r) PROVE StopInv'
    BY <2>18 DEF FetchCaptcha, Goes, Answer, Starts, EntryFree, EnsureAttempt
  <2>19. ASSUME NEW r \in Requests, CaptchaFetched(r) PROVE StopInv'
    BY <2>19 DEF CaptchaFetched, Answer, Starts
  <2>20. ASSUME NEW r \in Requests, CancelSession(r) PROVE StopInv'
    BY <2>20 DEF CancelSession, Goes, EntryFree, CloseAttempt
  <2>21. ASSUME NEW r \in Requests, Submit(r) PROVE StopInv'
    BY <2>21 DEF Submit, Submittable, EnsureAttempt, Goes, Answer, Starts, EntryFree
  <2>22. ASSUME NEW r \in Requests, SiteAccepts(r) PROVE StopInv'
    BY <2>22 DEF SiteAccepts, Goes
  <2>23. ASSUME NEW r \in Requests, SubmitFails(r) PROVE StopInv'
    BY <2>23 DEF SubmitFails, Forget, Answer, Starts, EntryFree
  <2>24. ASSUME NEW r \in Requests, SubmitReturns(r) PROVE StopInv'
    BY <2>24 DEF SubmitReturns, HasLoginCookie, Goes, ServerLockFree
  <2>25. ASSUME NEW r \in Requests, Accept(r) PROVE StopInv'
    BY <2>25 DEF Accept, Acceptable, Goes, CloseAttempt, Forget, Answer, Starts,
       EntryFree
  <2>26. ASSUME NEW r \in Requests, CancelExpiryTask(r) PROVE StopInv'
    <3>1. SomeAccepted' /\ UNCHANGED <<loop, rest, watched, down, shut>>
      BY <2>26 DEF CancelExpiryTask, Goes
    <3>2. \A t \in Tokens : timer'[t] = "armed" => timer[t] = "armed" /\ t \in tasks'
      BY <2>26 DEF CancelExpiryTask
    <3>3. tasks' \subseteq tasks
      BY <2>26 DEF CancelExpiryTask
    <3>4. loop = "stop" /\ tasks' = watched => tasks = watched
      BY <3>3
    <3> QED
      BY <3>1, <3>2, <3>3, <3>4
  <2>27. ASSUME NEW r \in Requests, HandleLoginSuccess(r) PROVE StopInv'
    BY <2>27 DEF HandleLoginSuccess, Goes
  <2>28. ASSUME NEW r \in Requests, TakeEntry(r) PROVE StopInv'
    BY <2>28 DEF TakeEntry, Goes, ServerLockFree
  <2>29. ASSUME NEW r \in Requests, CloseEntry(r) PROVE StopInv'
    BY <2>29 DEF CloseEntry, Goes, CloseAttempt, EntryFree
  <2>30. CASE UNCHANGED vars
    BY <2>30 DEF vars
  <2> HIDE NoneIsOther DEF TypeOK, LinksOK, LoopOK, RequestsOK, Live, linkVars,
       loopVars, reqVars, endVars, StopInv, SomeAccepted, NoneArmed, Accepted
  <2> QED
    BY <2>1, <2>2, <2>3, <2>4, <2>5, <2>6, <2>7, <2>8, <2>9, <2>10, <2>11, <2>12, <2>13,
       <2>14, <2>15, <2>16, <2>17, <2>18, <2>19, <2>20, <2>21, <2>22, <2>23, <2>24,
       <2>25, <2>26, <2>27, <2>28, <2>29, <2>30
    DEF Next, LoopStep, RequestStep
<1> QED
  BY <1>1, <1>2, TypeCorrect, PTL DEF Spec

(* Terminating the plugin shuts the form server down and leaves no task    *)
(* armed, unless a login was accepted meanwhile.                           *)
THEOREM StopCompletes == Spec => []StopIsComplete
<1>1. StopInv => StopIsComplete
  BY DEF StopInv, StopIsComplete, SomeAccepted, NoneArmed
<1> QED
  BY <1>1, StopInvKept, PTL
================================================================================
