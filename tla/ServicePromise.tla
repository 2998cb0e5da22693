---------------------------- MODULE ServicePromise ----------------------------
(***************************************************************************)
(* What CheckinService promises about one task of one user, as its callers *)
(* may rely on it: the outcomes of a call, and what the site must have     *)
(* recorded for each of them.                                              *)
(*                                                                         *)
(* A call handles a task in two steps a caller can tell apart by what      *)
(* happens to the site between them: the apply request (ApplyOutcomes),    *)
(* which may already settle the task, and the rest, collect and verify     *)
(* (CollectOutcomes).  `collected' is the set of periods of the task whose *)
(* reward the site has handed out, `p' the period the site is in.          *)
(* CheckinService.tla shows that run_checkin keeps this promise.           *)
(*                                                                         *)
(* Only the apply request settles a task as already done.  The docstring   *)
(* of run_checkin (checkin_service.py:204) says that a state C reply at    *)
(* any stage converges to ALREADY_DONE; the code makes a SUCCESS of it     *)
(* once the task was applied for and verified, as the docstring of its     *)
(* module (22-24), CHANGELOG.md:23 and test_checkin_client.py:241 say, and *)
(* this promise follows the code.                                          *)
(***************************************************************************)
EXTENDS Naturals

Status == {"success", "already_done", "failed"}

(* The site answers "already" when the reward of the period was handed     *)
(* out, or when the last application is less than 18 hours old: an         *)
(* application of the period before, then.                                 *)
RepliesAlready(collected, p) == p \in collected \/ (p > 0 /\ p - 1 \in collected)

ApplyOutcomes(collected, p) ==
  {"failed"}
    \cup (IF RepliesAlready(collected, p) THEN {"already_done"} ELSE {})
    \cup (IF p \notin collected THEN {"applied"} ELSE {})

(* Pairs <<status, collected afterwards>> for a call that began in period  *)
(* `began'.  Success comes only with the reward handed out while the call  *)
(* lasted, by this call or by somebody else; failure comes with or without *)
(* it, for the answer may be lost after the reward was handed out.         *)
CollectOutcomes(collected, began, p) ==
  {<<"success", collected \cup {p}>>,
   <<"failed", collected \cup {p}>>,
   <<"failed", collected>>}
    \cup (IF \E q \in began .. p : q \in collected
            THEN {<<"success", collected>>} ELSE {})
================================================================================
