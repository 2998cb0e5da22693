---------------------------- MODULE UserStoreProofs ----------------------------
(***************************************************************************)
(* Proofs about UserStore, for any number of uids, accounts and platforms  *)
(* and any length of time.                                                 *)
(***************************************************************************)
EXTENDS UserStore, TLAPS, WellFoundedInduction


--------------------------------------------------------------------------------
(* Type correctness: the columns of the table keep to their types, and the *)
(* rows that are active or switched on exist.                              *)
THEOREM TypeCorrect == Spec => []TypeOK
<1>1. Init => TypeOK
  <2> SUFFICES ASSUME Init PROVE TypeOK
    OBVIOUS
  <2>1. TableOK
    BY NobodyAssumption, TimeAssumption, SMT DEF Init, TableOK, Bound
  <2>2. CleanupOK
    BY Zenon DEF Init, CleanupOK
  <2> QED
    BY <2>1, <2>2 DEF TypeOK
<1>2. ASSUME TypeOK, [Next]_vars
      PROVE  TypeOK'
  <2> USE DEF TypeOK
  <2>a. ASSUME UNCHANGED cleanup PROVE CleanupOK'
    BY <1>2, <2>a, Zenon DEF CleanupOK, cleanup
  <2>b. ASSUME UNCHANGED <<columns, now>> PROVE TableOK'
    BY <1>2, <2>b DEF TableOK, Bound, columns
  <2>1. ASSUME NEW u \in Uids, NEW a \in Accounts, NEW p \in PlatformsOf[a],
               AddOrUpdate(u, a, p)
        PROVE  TypeOK'
    <3>1. TableOK'
      BY <1>2, <2>1, NobodyAssumption, TimeAssumption
         DEF TableOK, Bound, Platforms, AddOrUpdate, HeldByOther, Deactivated
    <3> QED
      BY <2>1, <2>a, <3>1 DEF AddOrUpdate
  <2>2. ASSUME NEW u \in Uids, NEW a \in Accounts, NEW p \in PlatformsOf[a],
               SwitchActive(a, p, u)
        PROVE  TypeOK'
    <3>1. TableOK'
      BY <1>2, <2>2, NobodyAssumption, TimeAssumption
         DEF TableOK, Bound, Platforms, SwitchActive, Activate, Deactivated
    <3> QED
      BY <2>2, <2>a, <3>1 DEF SwitchActive, Activate
  <2>3. ASSUME NEW u \in Uids, NEW a \in Accounts, DeleteAccount(a, u)
        PROVE  TypeOK'
    <3>1. TableOK'
      BY <1>2, <2>3, NobodyAssumption, TimeAssumption
         DEF TableOK, Bound, DeleteAccount, Remove, Drop, Fallbacks, RowsOf
    <3> QED
      BY <2>3, <2>a, <3>1 DEF DeleteAccount, Remove
  <2>4. ASSUME NEW u \in Uids, NEW on \in BOOLEAN, SetAutoCheckin(u, on)
        PROVE  TypeOK'
    <3>1. TableOK'
      BY <1>2, <2>4, TimeAssumption DEF TableOK, Bound, SetAutoCheckin, SetAuto
    <3> QED
      BY <2>4, <2>a, <3>1 DEF SetAutoCheckin, SetAuto
  <2>5. ASSUME NEW u \in Uids, CheckFriend(u)
        PROVE  TypeOK'
    <3>1. CleanupOK'
      BY <1>2, <2>5 DEF CleanupOK, CheckFriend
    <3> QED
      BY <2>5, <2>b, <3>1 DEF CheckFriend
  <2>6. CASE BeginCleanup
    <3>1. CleanupOK'
      BY <2>6, Zenon DEF CleanupOK, BeginCleanup, Bound
    <3> QED
      BY <2>6, <2>b, <3>1 DEF BeginCleanup
  <2>7. CASE FinishCleanup
    <3>1. CleanupOK'
      BY <2>7, Zenon DEF CleanupOK, FinishCleanup
    <3>2. TableOK'
      BY <1>2, <2>7, TimeAssumption DEF TableOK, Bound, FinishCleanup, Drop
    <3> QED
      BY <3>1, <3>2
  <2>8. CASE Clock
    <3>1. TableOK'
      BY <1>2, <2>8, TimeAssumption DEF TableOK, Bound, Clock, columns
    <3> QED
      BY <2>8, <2>a, <3>1 DEF Clock
  <2>9. CASE UNCHANGED vars
    BY <2>9, <2>a, <2>b DEF vars
  <2> QED
    BY <1>2, <2>1, <2>2, <2>3, <2>4, <2>5, <2>6, <2>7, <2>8, <2>9 DEF Next
<1> QED
  BY <1>1, <1>2, PTL DEF Spec

--------------------------------------------------------------------------------
(* A step changes rows of one account only and hands no uid over           *)
(* (StaysWithinAccount), because every method looks at the owner of the    *)
(* uid it is given; the end of a cleanup is the only exception.            *)
THEOREM WithinAccount == Spec => StaysWithinAccount
<1> DEFINE Within == \A u, v \in Uids : Touched(u) /\ Touched(v) =>
                       \A b \in Owners(u), c \in Owners(v) : b = c
<1>1. ASSUME TypeOK, [Next]_vars, checking => checking'
      PROVE  Within
  <2> USE DEF TypeOK, TableOK, Touched, Owners, Bound
  <2>1. ASSUME NEW u \in Uids, NEW a \in Accounts, NEW p \in PlatformsOf[a],
               AddOrUpdate(u, a, p)
        PROVE  Within
    <3>1. \A v \in Uids : Touched(v) => Owners(v) \subseteq {a}
      BY <1>1, <2>1
         DEF AddOrUpdate, HeldByOther, Deactivated, RowsAt, RowsOf
    <3> QED
      BY <3>1
  <2>2. ASSUME NEW u \in Uids, NEW a \in Accounts, NEW p \in PlatformsOf[a],
               SwitchActive(a, p, u)
        PROVE  Within
    <3>1. \A v \in Uids : Touched(v) => Owners(v) \subseteq {a}
      BY <1>1, <2>2 DEF SwitchActive, Activate, Deactivated, RowsAt, RowsOf
    <3> QED
      BY <3>1
  <2>3. ASSUME NEW u \in Uids, NEW a \in Accounts, DeleteAccount(a, u)
        PROVE  Within
    <3>1. \A v \in Uids : Touched(v) => Owners(v) \subseteq {a}
      BY <1>1, <2>3 DEF DeleteAccount, Remove, Drop, Fallbacks, RowsOf
    <3> QED
      BY <3>1
  <2>4. ASSUME NEW u \in Uids, NEW on \in BOOLEAN, SetAutoCheckin(u, on)
        PROVE  Within
    BY <1>1, <2>4 DEF SetAutoCheckin, SetAuto
  <2>5. CASE FinishCleanup
    BY <1>1, <2>5 DEF FinishCleanup
  <2>6. CASE UNCHANGED columns
    BY <2>6 DEF columns
  <2> HIDE DEF Within
  <2> QED
    BY <1>1, <2>1, <2>2, <2>3, <2>4, <2>5, <2>6
       DEF Next, CheckFriend, BeginCleanup, Clock, vars
<1>2. TypeOK /\ [Next]_vars =>
        ((checking => checking') =>
           \A u, v \in Uids : Touched(u) /\ Touched(v) =>
             \A b \in Owners(u), c \in Owners(v) : b = c)
  BY <1>1
<1> QED
  BY <1>2, TypeCorrect, PTL DEF Spec, StaysWithinAccount

--------------------------------------------------------------------------------
(* An account id that is used on a single platform has at most one active *)
(* uid.  One that is used on two may have two on one of them: TLC shows    *)
(* how.                                                                    *)
THEOREM OneActive == Spec => []OneActiveOnOnePlatform
<1> DEFINE Lone(a) == \E p \in Platforms : PlatformsOf[a] = {p}
           One(a) == \A u, v \in RowsOf(a) \cap active : u = v
           Inv == \A a \in Accounts : Lone(a) =>
                    One(a) /\ \A u \in RowsOf(a) : PlatformsOf[a] = {platform[u]}
<1>1. Init => Inv
  BY NobodyAssumption DEF Init, RowsOf, Bound
<1>2. ASSUME TypeOK, Inv, [Next]_vars, NEW a \in Accounts, Lone(a)
      PROVE  One(a)' /\ \A u \in RowsOf(a)' : PlatformsOf[a] = {platform'[u]}
  <2> USE NobodyAssumption DEF TypeOK, TableOK, Bound, RowsOf, RowsAt
  <2>0. One(a) /\ \A u \in RowsOf(a) : PlatformsOf[a] = {platform[u]}
    BY <1>2
  <2>1. ASSUME NEW u \in Uids, NEW b \in Accounts, NEW p \in PlatformsOf[b],
               AddOrUpdate(u, b, p)
        PROVE  One(a)' /\ \A v \in RowsOf(a)' : PlatformsOf[a] = {platform'[v]}
    <3>1. b = a => PlatformsOf[a] = {p}
      BY <1>2
    <3> QED
      BY <1>2, <2>0, <2>1, <3>1 DEF AddOrUpdate, HeldByOther, Deactivated
  <2>2. ASSUME NEW u \in Uids, NEW b \in Accounts, NEW p \in PlatformsOf[b],
               SwitchActive(b, p, u)
        PROVE  One(a)' /\ \A v \in RowsOf(a)' : PlatformsOf[a] = {platform'[v]}
    <3>1. b = a => PlatformsOf[a] = {p}
      BY <1>2
    <3> QED
      BY <1>2, <2>0, <2>2, <3>1 DEF SwitchActive, Activate, Deactivated
  <2>3. ASSUME NEW u \in Uids, NEW b \in Accounts, DeleteAccount(b, u)
        PROVE  One(a)' /\ \A v \in RowsOf(a)' : PlatformsOf[a] = {platform'[v]}
    BY <1>2, <2>0, <2>3 DEF DeleteAccount, Remove, Drop, Fallbacks
  <2>4. CASE FinishCleanup
    BY <1>2, <2>0, <2>4 DEF FinishCleanup, Drop
  <2>5. CASE UNCHANGED <<account, platform, active>>
    BY <2>0, <2>5
  <2> QED
    BY <1>2, <2>1, <2>2, <2>3, <2>4, <2>5
       DEF Next, SetAutoCheckin, SetAuto, CheckFriend, BeginCleanup, Clock, vars, columns
<1>3. TypeOK /\ Inv /\ [Next]_vars => Inv'
  BY <1>2
<1>4. Inv => OneActiveOnOnePlatform
  BY DEF OneActiveOnOnePlatform
<1> HIDE DEF Inv
<1> QED
  BY <1>1, <1>3, <1>4, TypeCorrect, PTL DEF Spec

--------------------------------------------------------------------------------
(* ORDER BY updated_at DESC LIMIT 1 finds a row whenever there is one: a   *)
(* nonempty set of bounded stamps has a newest member.                     *)
LEMMA NewestExists ==
  ASSUME NEW S, S # {}, NEW f, NEW n \in Nat, \A s \in S : f[s] \in 0 .. n
  PROVE  \E m \in S : \A s \in S : f[s] <= f[m]
<1> DEFINE T == {n - f[s] : s \in S}
<1>1. T \subseteq Nat /\ T # {}
  OBVIOUS
<1>2. PICK x \in T : \A y \in T : ~ (<<y, x>> \in OpToRel(<, Nat))
  BY <1>1, NatLessThanWellFounded, WFMin, Zenon
<1>3. PICK m \in S : x = n - f[m]
  OBVIOUS
<1>4. ASSUME NEW s \in S PROVE f[s] <= f[m]
  <2>1. n - f[s] \in T /\ n - f[s] \in Nat /\ x \in Nat
    BY <1>1
  <2>2. ~ (n - f[s] < x)
    BY <1>2, <2>1 DEF OpToRel
  <2> QED
    BY <1>3, <2>2
<1> QED
  BY <1>4

(* Only the end of a cleanup leaves an account that keeps a row without an *)
(* active one (ActiveLostOnlyByCleanup).                                   *)
THEOREM OnlyCleanupStrands == Spec => ActiveLostOnlyByCleanup
<1> DEFINE Stranded(a) == HasActive(a) /\ ~HasActive(a)' /\ RowsOf(a)' # {}
<1>1. ASSUME TypeOK, [Next]_vars, NEW a \in Accounts, Stranded(a)
      PROVE  checking /\ ~checking'
  <2> USE DEF HasActive, RowsOf, Bound, TypeOK, TableOK
  <2>1. ASSUME NEW u \in Uids, NEW b \in Accounts, NEW p \in PlatformsOf[b],
               AddOrUpdate(u, b, p)
        PROVE  FALSE
    BY <1>1, <2>1, NobodyAssumption
       DEF AddOrUpdate, HeldByOther, Deactivated, RowsAt
  <2>2. ASSUME NEW u \in Uids, NEW b \in Accounts, NEW p \in PlatformsOf[b],
               SwitchActive(b, p, u)
        PROVE  FALSE
    BY <1>1, <2>2, NobodyAssumption DEF SwitchActive, Activate, Deactivated, RowsAt
  <2>3. ASSUME NEW u \in Uids, NEW b \in Accounts, DeleteAccount(b, u)
        PROVE  FALSE
    <3>1. RowsOf(a) \cap active = {u} /\ b = a
      BY <1>1, <2>3 DEF DeleteAccount, Remove, Drop
    <3>2. RowsOf(a) \ {u} # {}
      BY <1>1, <2>3 DEF DeleteAccount, Remove, Drop
    <3>3. Fallbacks(a, u) # {}
      <4>1. \A s \in RowsOf(a) \ {u} : updated[s] \in 0 .. now
        BY <1>1
      <4>2. now \in Nat
        BY <1>1, TimeAssumption
      <4> HIDE DEF RowsOf
      <4>3. PICK m \in RowsOf(a) \ {u} :
                   \A s \in RowsOf(a) \ {u} : updated[s] <= updated[m]
        BY <3>2, <4>1, <4>2, NewestExists
      <4> QED
        BY <4>3 DEF Fallbacks
    <3>4. PICK f \in Fallbacks(a, u) : active' = (active \ {u}) \cup {f}
      BY <2>3, <3>1, <3>3 DEF DeleteAccount, Remove
    <3>5. f \in RowsOf(a)'
      BY <2>3, <3>4 DEF Fallbacks, DeleteAccount, Remove, Drop
    <3> QED
      BY <1>1, <3>4, <3>5
  <2>4. CASE FinishCleanup
    BY <2>4 DEF FinishCleanup
  <2>5. CASE UNCHANGED <<account, active>>
    BY <1>1, <2>5
  <2> QED
    BY <1>1, <2>1, <2>2, <2>3, <2>4, <2>5
       DEF Next, SetAutoCheckin, SetAuto, CheckFriend, BeginCleanup, Clock, vars, columns
<1>2. TypeOK /\ [Next]_vars =>
        \A a \in Accounts :
          HasActive(a) /\ ~HasActive(a)' /\ RowsOf(a)' # {} => checking /\ ~checking'
  BY <1>1
<1> QED
  BY <1>2, TypeCorrect, PTL DEF Spec, ActiveLostOnlyByCleanup
================================================================================
