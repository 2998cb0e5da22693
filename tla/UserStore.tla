------------------------------- MODULE UserStore -------------------------------
(***************************************************************************)
(* The user table of src/core/db/user_store.py: which chat account holds   *)
(* which South Plus uid, and which of its uids is the active one; with the *)
(* commands and Dashboard calls that change it, and /spcleanup, which      *)
(* works on a list of users read before it asks the chat platform about    *)
(* every one of them.                                                      *)
(*                                                                         *)
(* A store method holds its lock and one transaction from start to end, so *)
(* each is one action.  Cookies are left out: no property looks at them.   *)
(***************************************************************************)
EXTENDS Naturals

CONSTANTS
  Uids,        \* South Plus uids
  Accounts,    \* chat accounts (event.get_sender_id())
  PlatformsOf, \* the chat platforms an account id is used on, by account
  MaxTime,     \* last value of the clock, whose unit is the second of _stamp()
  Nobody       \* account and platform of a uid that has no row

Platforms == UNION {PlatformsOf[a] : a \in Accounts}

ASSUME NobodyAssumption == Nobody \notin Accounts /\ Nobody \notin Platforms
ASSUME TimeAssumption == MaxTime \in Nat

VARIABLES
  account,     \* the columns of "user", by sp_uid
  platform,
  active,      \* the uids with is_active = 1
  auto,        \* the uids with auto_checkin = 1
  updated,     \* updated_at
  now,         \* the clock
  checking,    \* a /spcleanup is running
  listed,      \* the users it listed
  unchecked,   \* those it has not asked about yet
  stale        \* stale_uids

columns == <<account, platform, active, auto, updated>>
cleanup == <<checking, listed, unchecked, stale>>
vars == <<columns, now, cleanup>>

Bound == {u \in Uids : account[u] # Nobody}
RowsOf(a) == {u \in Bound : account[u] = a}
RowsAt(a, p) == {u \in RowsOf(a) : platform[u] = p}

--------------------------------------------------------------------------------
(* add_or_update, from a finished web login or /spbindcookie.  A uid held  *)
(* by another account is left alone (OWNED_BY_OTHER).                      *)
HeldByOther_Unchecked(u, a) == FALSE

HeldByOther(u, a) == account[u] \notin {a, Nobody}

(* UPDATE "user" SET is_active = 0 WHERE account = a AND platform = p.     *)
Deactivated(a, p) == active \ RowsAt(a, p)

AddOrUpdate(u, a, p) ==
  /\ ~HeldByOther(u, a)
  /\ active' = Deactivated(a, p) \cup {u}
  /\ updated' = [updated EXCEPT ![u] = now]
  /\ IF account[u] = Nobody
       THEN /\ account' = [account EXCEPT ![u] = a]
            /\ platform' = [platform EXCEPT ![u] = p]
            /\ auto' = auto \cup {u}
       ELSE UNCHANGED <<account, platform, auto>>
  /\ UNCHANGED <<now, cleanup>>

(* The two UPDATEs of switch_active: off by platform, on by uid.           *)
Activate(a, p, u) ==
  /\ active' = Deactivated(a, p) \cup {u}
  /\ updated' = [updated EXCEPT ![u] = now]

(* /spswitch, or the Dashboard.                                            *)
SwitchActive(a, p, u) ==
  /\ account[u] = a
  /\ Activate(a, p, u)
  /\ UNCHANGED <<account, platform, auto, now, cleanup>>

Drop_KeepsAuto(us) ==
  /\ account' = [u \in Uids |-> IF u \in us THEN Nobody ELSE account[u]]
  /\ platform' = [u \in Uids |-> IF u \in us THEN Nobody ELSE platform[u]]
  /\ UNCHANGED auto

(* Rows are deleted: their columns are gone.                               *)
Drop(us) ==
  /\ account' = [u \in Uids |-> IF u \in us THEN Nobody ELSE account[u]]
  /\ platform' = [u \in Uids |-> IF u \in us THEN Nobody ELSE platform[u]]
  /\ auto' = auto \ us

(* The row delete_account falls back to: the newest of the account.        *)
Fallbacks_None(a, u) == {}

Fallbacks(a, u) ==
  LET rest == RowsOf(a) \ {u}
  IN  {f \in rest : \A g \in rest : updated[g] <= updated[f]}

(* delete_account: the row goes; if it was active, the fallback takes over.*)
Remove(a, u) ==
  /\ Drop({u})
  /\ IF u \in active /\ Fallbacks(a, u) # {}
       THEN \E f \in Fallbacks(a, u) :
              /\ active' = (active \ {u}) \cup {f}
              /\ updated' = [updated EXCEPT ![u] = 0, ![f] = now]
       ELSE /\ active' = active \ {u}
            /\ updated' = [updated EXCEPT ![u] = 0]

(* /spdelete, or the Dashboard.                                            *)
DeleteAccount(a, u) ==
  /\ account[u] = a
  /\ Remove(a, u)
  /\ UNCHANGED <<now, cleanup>>

(* The UPDATE of set_auto_checkin.                                         *)
SetAuto(u, on) ==
  /\ auto' = IF on THEN auto \cup {u} ELSE auto \ {u}
  /\ updated' = [updated EXCEPT ![u] = now]

(* /spautocheckin flips the active row of the sender, the Dashboard sets   *)
(* any row.                                                                *)
SetAutoCheckin(u, on) ==
  /\ u \in Bound
  /\ SetAuto(u, on)
  /\ UNCHANGED <<account, platform, active, now, cleanup>>

--------------------------------------------------------------------------------
(* /spcleanup: list the users, ask about each (an await per user), then    *)
(* delete every row that is not to be kept.                                *)
BeginCleanup ==
  /\ ~checking
  /\ checking' = TRUE
  /\ listed' = Bound /\ unchecked' = Bound /\ stale' = {}
  /\ UNCHANGED <<columns, now>>

(* is_friend tells, or cannot tell (or raises); only a clear no is stale.  *)
IsFriend == {TRUE, FALSE, Nobody}

CheckFriend(u) ==
  /\ checking /\ u \in unchecked
  /\ unchecked' = unchecked \ {u}
  /\ \E friend \in IsFriend :
       stale' = IF friend = FALSE THEN stale \cup {u} ELSE stale
  /\ UNCHANGED <<columns, now, checking, listed>>

(* delete_stale(keep_uids): NOT IN keep, so everything when keep is empty. *)
FinishCleanup ==
  LET keep == listed \ stale
      gone == IF stale = {} THEN {} ELSE Uids \ keep
  IN
  /\ checking /\ unchecked = {}
  /\ Drop(gone)
  /\ active' = active \ gone
  /\ updated' = [u \in Uids |-> IF u \in gone THEN 0 ELSE updated[u]]
  /\ checking' = FALSE
  /\ listed' = {} /\ unchecked' = {} /\ stale' = {}
  /\ UNCHANGED now

Clock ==
  /\ now < MaxTime
  /\ now' = now + 1
  /\ UNCHANGED <<columns, cleanup>>

Init ==
  /\ account = [u \in Uids |-> Nobody]
  /\ platform = [u \in Uids |-> Nobody]
  /\ active = {} /\ auto = {}
  /\ updated = [u \in Uids |-> 0]
  /\ now = 0
  /\ checking = FALSE /\ listed = {} /\ unchecked = {} /\ stale = {}

Next ==
  \/ \E u \in Uids, a \in Accounts : \E p \in PlatformsOf[a] :
       AddOrUpdate(u, a, p) \/ SwitchActive(a, p, u)
  \/ \E u \in Uids, a \in Accounts : DeleteAccount(a, u)
  \/ \E u \in Uids, on \in BOOLEAN : SetAutoCheckin(u, on)
  \/ \E u \in Uids : CheckFriend(u)
  \/ BeginCleanup \/ FinishCleanup \/ Clock

Spec == Init /\ [][Next]_vars

--------------------------------------------------------------------------------
(* Properties.                                                             *)

(* Columns hold what their types say, and only existing rows are active,   *)
(* switched on, or have a platform.                                        *)
TableOK ==
  /\ account \in [Uids -> Accounts \cup {Nobody}]
  /\ platform \in [Uids -> Platforms \cup {Nobody}]
  /\ \A u \in Uids : account[u] = Nobody <=> platform[u] = Nobody
  /\ active \subseteq Bound /\ auto \subseteq Bound
  /\ now \in 0 .. MaxTime /\ updated \in [Uids -> 0 .. now]

CleanupOK ==
  /\ checking \in BOOLEAN
  /\ listed \subseteq Uids /\ unchecked \subseteq listed /\ stale \subseteq listed

TypeOK == TableOK /\ CleanupOK

(* user_store.py: an (account, platform) has at most one active uid.       *)
AtMostOneActive ==
  \A u, v \in active : account[u] = account[v] /\ platform[u] = platform[v] => u = v

(* That is so of every account id that is used on one platform only,       *)
(* whatever others do and however cleanups interleave.                     *)
OneActiveOnOnePlatform ==
  \A a \in Accounts, p \in Platforms :
    PlatformsOf[a] = {p} => \A u, v \in RowsOf(a) \cap active : u = v

(* Whatever a command, a login or the Dashboard does, it changes rows of   *)
(* one account only, and no uid passes from one account to another; the    *)
(* end of a cleanup alone reaches across accounts.                         *)
Touched(u) ==
  \/ account'[u] # account[u] \/ platform'[u] # platform[u] \/ updated'[u] # updated[u]
  \/ ~(u \in active' <=> u \in active) \/ ~(u \in auto' <=> u \in auto)

Owners(u) == {account[u], account'[u]} \ {Nobody}

StaysWithinAccount ==
  [][(checking => checking') =>
       \A u, v \in Uids : Touched(u) /\ Touched(v) =>
         \A b \in Owners(u), c \in Owners(v) : b = c]_vars

(* Only a cleanup leaves an account that keeps a row without an active     *)
(* one: logging in, switching, deleting and the Dashboard never do.        *)
HasActive(a) == RowsOf(a) \cap active # {}

ActiveLostOnlyByCleanup ==
  [][\A a \in Accounts :
       HasActive(a) /\ ~HasActive(a)' /\ RowsOf(a)' # {} => checking /\ ~checking']_vars

(* main.py: /spcleanup deletes the bindings of users who left the group or *)
(* are no friends, and of nobody else.                                     *)
CleanupTakesOnlyStale ==
  [][checking /\ ~checking' => Bound \ Bound' \subseteq stale]_vars
================================================================================
