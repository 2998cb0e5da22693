------------------------------- MODULE Dashboard -------------------------------
(***************************************************************************)
(* What the Dashboard shows of the user table (src/pages/handlers.py and   *)
(* src/pages/queries.py): the account list and its filters, the            *)
(* participants of a schedule, and the completions of an input field; and, *)
(* beside it, whom a tick of that schedule signs in.                       *)
(*                                                                         *)
(* The pages only read.  A page reads the table with list_all, which       *)
(* orders by updated_at alone: rows of one second come in any order.  The  *)
(* order matters to the completions and to the pick of a tick.             *)
(*                                                                         *)
(* A keyword is the set of the texts it occurs in, folded to lower case;   *)
(* the empty keyword is the set of all texts.                              *)
(***************************************************************************)
EXTENDS UserStore, Integers, Sequences, FiniteSets, Functions

CONSTANTS
  Unset,      \* a query argument that is left out
  Everyone,   \* params {"mode": "all"} of a schedule; otherwise an account
  Umos,       \* chat sessions
  Boards,     \* the session subscriptions and exclusions looked at
  CaseFold,   \* str.casefold, by text
  Keywords,   \* the keywords that are typed
  Limits      \* the limits that are asked for

Kinds == {"uid", "user", "platform"}
Texts == Uids \cup Accounts \cup Platforms \cup Kinds

(* The enabled session subscriptions <<umo, account>> and the exclusions   *)
(* <<umo, uid>>; Subscriptions says how they come about.                   *)
Board == [subs : SUBSET (Umos \X Accounts), excluded : SUBSET (Umos \X Uids)]

ASSUME QueryAssumption ==
  /\ Boards \subseteq Board
  /\ Unset \notin Texts /\ Unset \notin BOOLEAN /\ Everyone \notin Accounts
  /\ CaseFold \in [Texts -> Texts]
  /\ Keywords \subseteq SUBSET Texts /\ Limits \subseteq Int

--------------------------------------------------------------------------------
(* Filters.  Their order is that of the table and is left out.             *)

Occurs(kw, texts) == kw \cap texts # {}
TextsOf(u) == {u, account[u], platform[u]}
Selects(arg, value) == arg = Unset \/ arg = value

(* filter_users.                                                           *)
FilterUsers(kw, a, p, isActive, isAuto) ==
  {u \in Bound :
    /\ Occurs(kw, TextsOf(u))
    /\ Selects(a, account[u]) /\ Selects(p, platform[u])
    /\ Selects(isActive, u \in active) /\ Selects(isAuto, u \in auto)}

--------------------------------------------------------------------------------
(* The participants of a schedule, and of its tick.                        *)

ActiveUsersForAccount_Bound(a) == RowsOf(a)

ActiveUsersForAccount(a) == RowsOf(a) \cap active

(* build_schedule_participants; ex are the uids excluded in the session.   *)
BuildScheduleParticipants(params, ex, kw, isExcluded) ==
  {u \in IF params = Everyone THEN Bound ELSE ActiveUsersForAccount(params) :
    Selects(isExcluded, u \in ex) /\ Occurs(kw, TextsOf(u))}

(* The will_run of a participant.                                          *)
WillRun(u, ex) == u \in auto /\ u \notin ex

(* _append_checkin_user, for each of some users.                           *)
Appended(users, ex) == {u \in users : u \in auto /\ u \notin ex}

(* _get_active_for_account: none, or the first active row of the account   *)
(* in the order of list_all, one of the newest; and what it may answer for *)
(* every account while a tick collects.                                    *)
GetActiveForAccount(a) ==
  LET found == {u \in Bound : account[u] = a /\ u \in active}
  IN  IF found = {} THEN {{}}
                    ELSE {{u} : u \in {v \in found : \A w \in found : updated[w] <= updated[v]}}

Answers ==
  {answer \in [Accounts -> SUBSET Uids] :
     \A a \in Accounts : answer[a] \in GetActiveForAccount(a)}

ExcludedUids(board, umo) == {u \in Uids : <<umo, u>> \in board.excluded}

(* The users of the session subscriptions of some sessions, each under the *)
(* exclusions of its own session.                                          *)
SubsOf(board, umos) == {s \in board.subs : s[1] \in umos}

SessionUsers(board, umos, answer) ==
  UNION {Appended(answer[s[2]], ExcludedUids(board, s[1])) : s \in SubsOf(board, umos)}

CollectGlobalUsers_OwnExclusions(umo, board, answer) ==
  LET union == SessionUsers(board, Umos, answer) \ ExcludedUids(board, umo)
  IN  IF union # {} THEN union ELSE Appended(Bound, ExcludedUids(board, umo))

(* _collect_global_subscription_users: the union over all sessions, or, if *)
(* it is empty, every bound uid the session that reports does not exclude. *)
CollectGlobalUsers(umo, board, answer) ==
  LET union == SessionUsers(board, Umos, answer)
  IN  IF union # {} THEN union ELSE Appended(Bound, ExcludedUids(board, umo))

(* _collect_tick_users, for the global and the session task of a session.  *)
CollectTickUsers(umo, task, board, answer) ==
  IF task = "all" THEN CollectGlobalUsers(umo, board, answer)
                  ELSE SessionUsers(board, {umo}, answer)

--------------------------------------------------------------------------------
(* Completions.                                                            *)

(* UserStore.list_all.                                                     *)
ListAll ==
  {rows \in Bijection(1 .. Cardinality(Bound), Bound) :
     \A i, j \in DOMAIN rows : i < j => updated[rows[j]] <= updated[rows[i]]}

Suggestion(value, kind, meta) == [value |-> value, kind |-> kind, meta |-> meta]

(* account_keyword: three suggestions for each user.                       *)
SuggestionsOf(u) ==
  << Suggestion(u, "uid", {account[u], platform[u]}),
     Suggestion(account[u], "user", {u, platform[u]}),
     Suggestion(platform[u], "platform", {account[u]}) >>

AccountKeyword(rows) ==
  [n \in 1 .. 3 * Len(rows) |-> SuggestionsOf(rows[(n + 2) \div 3])[((n - 1) % 3) + 1]]

(* _suggestion_values of the resources accounts and participants.          *)
SuggestionValues(rows, field) ==
  CASE field = "keyword"  -> AccountKeyword(rows)
    [] field = "sp_uid"   -> [i \in DOMAIN rows |-> Suggestion(rows[i], "uid", {})]
    [] field = "account"  -> [i \in DOMAIN rows |-> Suggestion(account[rows[i]], "user", {})]
    [] field = "platform" -> [i \in DOMAIN rows |-> Suggestion(platform[rows[i]], "platform", {})]

Fields == {"keyword", "sp_uid", "account", "platform"}

Haystack(s) == {s.value, s.kind} \cup s.meta
AtMost(limit) == IF limit < 1 THEN 1 ELSE limit

(* One turn of the loop of build_suggestions: got holds the folded values  *)
(* seen and the items taken.                                               *)
Consider_SeenFirst(got, s, kw, limit) ==
  IF Len(got.items) >= AtMost(limit) \/ CaseFold[s.value] \in got.seen THEN got
  ELSE [seen  |-> got.seen \cup {CaseFold[s.value]},
        items |-> IF Occurs(kw, Haystack(s)) THEN Append(got.items, s) ELSE got.items]

Consider(got, s, kw, limit) ==
  IF \/ Len(got.items) >= AtMost(limit)
     \/ CaseFold[s.value] \in got.seen
     \/ ~Occurs(kw, Haystack(s))
  THEN got
  ELSE [seen |-> got.seen \cup {CaseFold[s.value]}, items |-> Append(got.items, s)]

BuildSuggestions(suggestions, kw, limit) ==
  LET Got[n \in 0 .. Len(suggestions)] ==
        IF n = 0 THEN [seen |-> {}, items |-> <<>>]
                 ELSE Consider(Got[n - 1], suggestions[n], kw, limit)
  IN  Got[Len(suggestions)].items

--------------------------------------------------------------------------------
(* Properties.  A running cleanup does not matter to what a page shows of  *)
(* a table, and every table is also reached without one: the pages are     *)
(* looked at while none runs.                                              *)

(* The uids of which a page says that they will run; the pages of all      *)
(* session subscriptions of some sessions together.                        *)
Shown(params, ex) ==
  {u \in BuildScheduleParticipants(params, ex, Texts, Unset) : WillRun(u, ex)}

ShownFor(board, umos) ==
  UNION {Shown(s[2], ExcludedUids(board, s[1])) : s \in SubsOf(board, umos)}

OnOnePlatform(a) == \E p \in Platforms : PlatformsOf[a] = {p}
OnOnePlatformEach(subs) == \A s \in subs : OnOnePlatform(s[2])

(* queries.py:138: the page of a schedule lists its participants as the    *)
(* scheduler collects them.  For session schedules of accounts used on one *)
(* platform that is so: the tick of a session signs in exactly what the    *)
(* pages of its session schedules say will run.  An account used on        *)
(* several platforms may have an active uid on each; the pages show them   *)
(* all, the tick takes one at most.                                        *)
SessionPagesFollowTick(umo, board, answer) ==
  LET tick == CollectTickUsers(umo, "session", board, answer) IN
  /\ tick \subseteq ShownFor(board, {umo})
  /\ \A u, v \in tick : account[u] = account[v] => u = v
  /\ OnOnePlatformEach(SubsOf(board, {umo})) => tick = ShownFor(board, {umo})

(* The page of a global schedule shows its tick only if no session         *)
(* subscription selects anybody (ViewFollowsTick of Subscriptions is       *)
(* violated); otherwise the tick signs in what the pages of the session    *)
(* schedules of all sessions show together.                                *)
GlobalTickIsOnPages(umo, board, answer) ==
  OnOnePlatformEach(board.subs) =>
    CollectTickUsers(umo, "all", board, answer) =
      IF ShownFor(board, Umos) # {} THEN ShownFor(board, Umos)
                                    ELSE Shown(Everyone, ExcludedUids(board, umo))

(* Both hold of every table, and whichever of the newest rows comes first; *)
(* and the account list filtered by account, active and auto_checkin shows *)
(* what the page of the schedule of an account shows.                      *)
ParticipantsFollowTick ==
  ~checking =>
    /\ Answers # {}
    /\ \A board \in Boards, umo \in Umos :
         /\ \A answer \in Answers :
              /\ SessionPagesFollowTick(umo, board, answer)
              /\ GlobalTickIsOnPages(umo, board, answer)
         /\ \A a \in Accounts :
              FilterUsers(Texts, a, Unset, TRUE, TRUE) \ ExcludedUids(board, umo)
                = Shown(a, ExcludedUids(board, umo))

(* The completions are the suggestions in which the keyword occurs, the    *)
(* first of each folded value, in their order, up to the limit: a value is *)
(* not lost because an earlier suggestion of it did not match.             *)
Matching(suggestions, kw) ==
  {i \in DOMAIN suggestions : Occurs(kw, Haystack(suggestions[i]))}

Folded(suggestions, i) == CaseFold[suggestions[i].value]

FirstMatches(suggestions, kw) ==
  {i \in Matching(suggestions, kw) :
     \A j \in Matching(suggestions, kw) :
       j < i => Folded(suggestions, j) # Folded(suggestions, i)}

UpTo(n, S) == {i \in S : i <= n}

Complete(items, suggestions, kw, limit) ==
  LET firsts == FirstMatches(suggestions, kw)
      found == Cardinality(firsts)
  IN  /\ Len(items) = IF found < AtMost(limit) THEN found ELSE AtMost(limit)
      /\ \A i \in firsts :
           LET rank == Cardinality(UpTo(i, firsts))
           IN  rank <= Len(items) => items[rank] = suggestions[i]

SuggestionsComplete ==
  ~checking => \A rows \in ListAll, field \in Fields, kw \in Keywords, limit \in Limits :
    LET suggestions == SuggestionValues(rows, field)
    IN  Complete(BuildSuggestions(suggestions, kw, limit), suggestions, kw, limit)
================================================================================
