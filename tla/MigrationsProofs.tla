--------------------------- MODULE MigrationsProofs ---------------------------
(***************************************************************************)
(* Proofs about Migrations: for any migration scripts and stores that      *)
(* SchemaAssumption allows, any release the file comes from, and any       *)
(* number of starts interrupted anywhere, a recorded version is complete,  *)
(* no start is refused, and a plugin that runs has the whole schema.       *)
(*                                                                         *)
(* The properties speak of the file and of the end of a start.  What makes *)
(* them inductive is what the connection sees in the middle of one: the    *)
(* versions behind are applied, and of the script at hand the statements   *)
(* before the next one have been executed.                                 *)
(***************************************************************************)
EXTENDS Migrations, TLAPS

(* Every version a database has recorded is complete in it.                *)
Upgraded(db) == \A v \in db.applied : Range(Scripts[v]) \subseteq db.objects

(* How far a start has come.                                               *)
Behind == \A v \in 1 .. version - 1 : v \in view.applied

Done ==
  AtScript /\ version \in pending =>
    /\ step <= Len(Scripts[version]) + 1
    /\ \A i \in 1 .. step - 1 : Scripts[version][i] \in view.objects

Progress ==
  /\ status \in {"migrating", "creating"} => Behind
  /\ status = "migrating" => Versions \ pending \subseteq view.applied /\ Done
  /\ status # "migrating" => ~open
  /\ status \in {"creating", "ready"} => Versions \subseteq view.applied

Inv == TypeOK /\ Upgraded(disk) /\ Upgraded(view) /\ Progress /\ NeverRefused

--------------------------------------------------------------------------------
(* The scripts.                                                            *)

(* A script is a finite list of what it makes, all of it in the schema.    *)
LEMMA ScriptFacts ==
  /\ Len(Scripts) \in Nat /\ Versions = 1 .. Len(Scripts)
  /\ \A v \in Versions :
       /\ Len(Scripts[v]) \in Nat /\ DOMAIN Scripts[v] = 1 .. Len(Scripts[v])
       /\ Range(Scripts[v]) = {Scripts[v][i] : i \in DOMAIN Scripts[v]}
       /\ Range(Scripts[v]) \subseteq Schema
<1>1. Scripts \in Seq(Seq(STRING))
  BY SchemaAssumption
<1>2. Len(Scripts) \in Nat /\ Versions = 1 .. Len(Scripts)
  BY <1>1 DEF Versions
<1> SUFFICES ASSUME NEW v \in Versions
             PROVE  /\ Len(Scripts[v]) \in Nat /\ DOMAIN Scripts[v] = 1 .. Len(Scripts[v])
                    /\ Range(Scripts[v]) = {Scripts[v][i] : i \in DOMAIN Scripts[v]}
                    /\ Range(Scripts[v]) \subseteq Schema
  BY <1>2
<1>3. Scripts[v] \in Seq(STRING)
  BY <1>1, <1>2
<1>4. Len(Scripts[v]) \in Nat /\ DOMAIN Scripts[v] = 1 .. Len(Scripts[v])
  BY <1>3
<1>5. Range(Scripts[v]) \subseteq Schema
  BY <1>2 DEF Schema, SchemaUpTo
<1>6. Range(Scripts[v]) = {Scripts[v][i] : i \in DOMAIN Scripts[v]}
  BY DEF Range
<1> QED
  BY <1>4, <1>5, <1>6

(* Once the versions up to n are applied, what they make is there.         *)
LEMMA AppliedIsThere ==
  ASSUME NEW db, Upgraded(db), NEW n, \A v \in 1 .. n : v \in db.applied
  PROVE  SchemaUpTo(n) \subseteq db.objects
BY DEF Upgraded, SchemaUpTo

(* Of the statement that is next, sqlite has all it wants.                 *)
LEMMA NeedsAreMet ==
  ASSUME Inv, AtStatement
  PROVE  Needs[Scripts[version][step]] \subseteq view.objects
<1>1. /\ version \in Versions /\ step \in DOMAIN Scripts[version]
      /\ Behind /\ Done /\ Upgraded(view)
  BY DEF Inv, Progress, AtStatement, AtScript
<1>2. SchemaUpTo(version - 1) \subseteq view.objects
  BY <1>1, AppliedIsThere DEF Behind
<1>3. \A k \in 1 .. step - 1 : Scripts[version][k] \in view.objects
  BY <1>1 DEF Done, AtStatement
<1>4. Needs[Scripts[version][step]] \subseteq
        SchemaUpTo(version - 1) \cup {Scripts[version][k] : k \in 1 .. step - 1}
  BY <1>1, SchemaAssumption
<1> QED
  BY <1>2, <1>3, <1>4

(* The first script has made the table of the records by the time that a   *)
(* version is recorded.                                                    *)
LEMMA RecordTableIsThere ==
  ASSUME Inv, AtScript, version \in pending, step = Len(Scripts[version]) + 1
  PROVE  /\ Range(Scripts[version]) \subseteq view.objects
         /\ RecordTable \in view.objects
<1>1. /\ version \in Versions /\ Behind /\ Done /\ Upgraded(view)
  BY DEF Inv, Progress, AtScript
<1>2. Range(Scripts[version]) \subseteq view.objects
  <2>1. /\ Range(Scripts[version]) = {Scripts[version][i] : i \in DOMAIN Scripts[version]}
        /\ Len(Scripts[version]) \in Nat
        /\ DOMAIN Scripts[version] = 1 .. Len(Scripts[version])
    BY <1>1, ScriptFacts
  <2>2. step - 1 = Len(Scripts[version])
    BY <2>1
  <2>3. \A i \in DOMAIN Scripts[version] : Scripts[version][i] \in view.objects
    BY <1>1, <2>1, <2>2 DEF Done
  <2> QED
    BY <2>1, <2>3
<1>3. RecordTable \in Range(Scripts[1])
  BY <1>1, SchemaAssumption
<1>4. CASE version = 1
  BY <1>2, <1>3, <1>4
<1>5. CASE version # 1
  <2>1. 1 \in 1 .. version - 1
    BY <1>1, <1>5, ScriptFacts
  <2>2. Range(Scripts[1]) \subseteq view.objects
    <3>1. 1 \in view.applied
      BY <1>1, <2>1 DEF Behind
    <3> QED
      BY <1>1, <3>1, Zenon DEF Upgraded
  <2> QED
    BY <1>2, <1>3, <2>2
<1> QED
  BY <1>2, <1>4, <1>5

(* With all versions applied, nothing of the schema is missing.            *)
LEMMA AllAppliedIsAll ==
  ASSUME NEW db \in Database, Upgraded(db), Versions \subseteq db.applied
  PROVE  db = [objects |-> Schema, applied |-> Versions]
<1>1. Schema \subseteq db.objects
  BY AppliedIsThere, ScriptFacts DEF Schema
<1> QED
  BY <1>1 DEF Database

(* So a store finds what it would make.                                    *)
LEMMA StoreFinds ==
  ASSUME Inv, InitStore
  PROVE  Exists(Stores[step]) /\ NextStatement /\ UNCHANGED <<disk, view, open>>
<1>1. view = [objects |-> Schema, applied |-> Versions]
  BY AllAppliedIsAll DEF Inv, TypeOK, Progress, InitStore
<1>2. Stores[step] \in Schema
  BY SchemaAssumption DEF InitStore, Range
<1> QED
  BY <1>1, <1>2 DEF InitStore, Ensure, Exists

--------------------------------------------------------------------------------
(* The steps.                                                              *)

(* A statement of a script finds what it makes, or makes it.               *)
LEMMA RunUpgradeStep == ASSUME Inv, RunUpgrade PROVE Inv'
<1> DEFINE o == Scripts[version][step]
<1>1. /\ version \in Versions /\ version \in pending
      /\ step \in DOMAIN Scripts[version] /\ status = "migrating"
      /\ Ensure(o, {o})
  BY DEF RunUpgrade, AtStatement, AtScript
<1>2. o \in Schema
  BY <1>1, ScriptFacts
<1>3. Needs[o] \subseteq view.objects
  BY NeedsAreMet DEF RunUpgrade
<1>4. NextStatement /\ UNCHANGED open
  BY <1>1, <1>3 DEF Ensure, Exists, Execute
<1>5. /\ view' = [view EXCEPT !.objects = @ \cup {o}]
      /\ disk' = disk \/ (~open /\ disk' = view')
  <2>1. view \in Database
    BY DEF Inv, TypeOK
  <2>2. CASE Exists(o)
    BY <1>1, <2>1, <2>2 DEF Ensure, Exists, Database
  <2>3. CASE ~Exists(o)
    BY <1>1, <1>3, <2>3 DEF Ensure, Exists, Execute
  <2> QED
    BY <2>2, <2>3
<1> HIDE DEF o
<1>6. /\ view' \in Database /\ view'.applied = view.applied
      /\ view'.objects = view.objects \cup {o}
  BY <1>2, <1>5 DEF Inv, TypeOK, Database
<1>7. (~open' => view' = disk') /\ disk' \in Database
  <2>1. CASE open
    BY <1>4, <1>5, <2>1 DEF Inv, TypeOK
  <2>2. CASE ~open /\ disk' = view'
    BY <1>6, <2>2
  <2>3. CASE ~open /\ disk' = disk
    <3>1. view = disk
      BY <2>3 DEF Inv, TypeOK
    <3>2. disk' = view'
      BY <1>1, <1>3, <2>3, <3>1 DEF Ensure, Execute, o
    <3> QED
      BY <1>6, <3>2
  <2> QED
    BY <1>5, <2>1, <2>2, <2>3
<1>8. TypeOK'
  BY <1>1, <1>4, <1>6, <1>7 DEF Inv, TypeOK, NextStatement
<1>9. Upgraded(view)' /\ Upgraded(disk)'
  BY <1>5, <1>6 DEF Inv, Upgraded
<1>10. Progress'
  <2>1. /\ status' = "migrating" /\ pending' = pending /\ version' = version
        /\ step' = step + 1
    BY <1>1, <1>4 DEF NextStatement
  <2>2. Behind' /\ Versions \ pending' \subseteq view'.applied
    BY <1>1, <1>6, <2>1 DEF Inv, Progress, Behind
  <2>3. step <= Len(Scripts[version]) /\ step \in Nat
    BY <1>1, ScriptFacts
  <2>4. \A i \in 1 .. step' - 1 : Scripts[version][i] \in view'.objects
    BY <1>1, <1>6, <2>1, <2>3 DEF Inv, Progress, Done, AtScript, o
  <2>5. Done'
    BY <1>1, <2>1, <2>3, <2>4, ScriptFacts DEF Done, AtScript
  <2> QED
    BY <2>1, <2>2, <2>5 DEF Progress
<1> QED
  BY <1>1, <1>4, <1>8, <1>9, <1>10 DEF Inv, NeverRefused, NextStatement

(* A version is recorded when its script is done.                          *)
LEMMA RecordMigrationStep == ASSUME Inv, RecordMigration PROVE Inv'
<1>1. /\ version \in Versions /\ status = "migrating"
      /\ Range(Scripts[version]) \subseteq view.objects /\ Exists(RecordTable)
  BY RecordTableIsThere DEF RecordMigration, AtScript, Exists
<1>2. /\ view' = [view EXCEPT !.applied = @ \cup {version}]
      /\ open' = TRUE /\ NextScript /\ disk' = disk
  BY <1>1 DEF RecordMigration
<1>3. /\ view' \in Database /\ view'.objects = view.objects
      /\ view'.applied = view.applied \cup {version}
  BY <1>1, <1>2 DEF Inv, TypeOK, Database
<1>4. TypeOK'
  BY <1>1, <1>2, <1>3, ScriptFacts DEF Inv, TypeOK, NextScript
<1>5. Upgraded(view)' /\ Upgraded(disk)'
  BY <1>1, <1>2, <1>3 DEF Inv, Upgraded
<1>6. Progress'
  <2>1. Behind'
    BY <1>1, <1>2, <1>3, ScriptFacts DEF Inv, Progress, Behind, NextScript
  <2>2. Done'
    BY <1>2, ScriptFacts DEF Done, AtScript, NextScript
  <2> QED
    BY <1>1, <1>2, <1>3, <2>1, <2>2 DEF Inv, Progress, NextScript
<1> QED
  BY <1>1, <1>2, <1>4, <1>5, <1>6 DEF Inv, NeverRefused, NextScript

(* A version that was applied before is passed over.                       *)
LEMMA SkipStep == ASSUME Inv, Skip PROVE Inv'
<1>1. /\ version \in Versions /\ version \in view.applied
      /\ status = "migrating" /\ NextScript /\ UNCHANGED <<disk, view, open>>
  BY DEF Inv, Progress, Skip, AtScript
<1>2. TypeOK'
  BY <1>1, ScriptFacts DEF Inv, TypeOK, NextScript
<1>3. Behind'
  BY <1>1, ScriptFacts DEF Inv, Progress, Behind, NextScript
<1>4. Done'
  BY <1>1, ScriptFacts DEF Done, AtScript, NextScript
<1> QED
  BY <1>1, <1>2, <1>3, <1>4 DEF Inv, Progress, Upgraded, NeverRefused, NextScript

(* A start reads what was recorded.                                        *)
LEMMA StartStep == ASSUME Inv, Start PROVE Inv'
<1>1. /\ status' = "migrating" /\ version' = 1 /\ step' = 1
      /\ pending' = Versions \ disk.applied /\ view = disk
      /\ UNCHANGED <<disk, view, open>>
  BY DEF Inv, TypeOK, Progress, Start, Pending
<1>2. TypeOK'
  BY <1>1, ScriptFacts DEF Inv, TypeOK
<1>3. Done' /\ Behind'
  BY <1>1, ScriptFacts DEF Done, AtScript, Behind
<1> QED
  BY <1>1, <1>2, <1>3 DEF Inv, Progress, Upgraded, NeverRefused

(* The commit makes durable what the connection sees.                      *)
LEMMA CommitStep == ASSUME Inv, Commit PROVE Inv'
<1>1. /\ status' = "creating" /\ step' = 1 /\ version = Len(Scripts) + 1
      /\ disk' = view /\ open' = FALSE /\ UNCHANGED <<view, pending, version>>
      /\ Behind
  BY DEF Inv, Progress, Commit, AllRun
<1>2. TypeOK'
  <2>1. open' \in BOOLEAN /\ view' = disk'
    BY <1>1
  <2>2. disk' \in Database /\ view' \in Database
    BY <1>1 DEF Inv, TypeOK
  <2>3. /\ pending' \subseteq Versions /\ version' \in 1 .. Len(Scripts) + 1
        /\ step' \in Nat \ {0}
    BY <1>1 DEF Inv, TypeOK
  <2> QED
    BY <1>1, <2>1, <2>2, <2>3, Zenon DEF TypeOK
<1>3. Versions \subseteq view.applied
  BY <1>1, ScriptFacts DEF Behind
<1> QED
  BY <1>1, <1>2, <1>3 DEF Inv, Progress, Behind, Upgraded, NeverRefused

(* A failure or the end of the process throws away what is not committed.  *)
LEMMA RollbackStep ==
  ASSUME Inv, status' = "off", view' = disk, open' = FALSE, UNCHANGED <<disk, at>>
  PROVE  Inv'
<1>1. TypeOK'
  BY DEF Inv, TypeOK, at
<1> QED
  BY <1>1 DEF Inv, Progress, Upgraded, NeverRefused

(* The stores change nothing.                                              *)
LEMMA StoresStep == ASSUME Inv, InitStore \/ Ready PROVE Inv'
<1>1. CASE InitStore
  <2>1. NextStatement /\ UNCHANGED <<disk, view, open>> /\ status = "creating"
    BY <1>1, StoreFinds DEF InitStore
  <2>2. TypeOK'
    BY <2>1 DEF Inv, TypeOK, NextStatement
  <2> QED
    BY <2>1, <2>2 DEF Inv, Progress, Behind, Upgraded, NeverRefused, NextStatement
<1>2. CASE Ready
  <2>1. TypeOK'
    BY <1>2 DEF Inv, TypeOK, Ready, at
  <2> QED
    BY <1>2, <2>1 DEF Inv, Progress, Behind, Upgraded, NeverRefused, Ready, at
<1> QED
  BY <1>1, <1>2

(* Every step keeps the invariant.                                         *)
LEMMA InvStep == Inv /\ [Next]_vars => Inv'
<1> SUFFICES ASSUME Inv, [Next]_vars PROVE Inv'
  OBVIOUS
<1>1. CASE Fails \/ Dies
  BY <1>1, RollbackStep DEF Fails, Dies
<1>2. CASE UNCHANGED vars
  BY <1>2 DEF vars, at, Inv, TypeOK, Upgraded, Progress, Behind, Done, AtScript, NeverRefused
<1> QED
  BY <1>1, <1>2, StartStep, SkipStep, RunUpgradeStep, RecordMigrationStep, CommitStep,
     StoresStep DEF Next

(* A file that is new, or of an older release, is complete for what it has *)
(* recorded.                                                               *)
LEMMA InitInv == Init => Inv
<1> SUFFICES ASSUME Init PROVE Inv
  OBVIOUS
<1>1. PICK n \in 0 .. Len(Scripts) : disk = [objects |-> SchemaUpTo(n), applied |-> 1 .. n]
  BY DEF Init
<1>2. SchemaUpTo(n) \subseteq Schema /\ 1 .. n \subseteq Versions
  BY ScriptFacts DEF Schema, SchemaUpTo
<1>3. disk \in Database
  BY <1>1, <1>2 DEF Database
<1>4. Upgraded(disk)
  BY <1>1 DEF Upgraded, SchemaUpTo
<1>5. TypeOK
  <2>1. open \in BOOLEAN /\ view = disk /\ status = "off"
    BY DEF Init
  <2>2. pending \subseteq Versions /\ version \in 1 .. Len(Scripts) + 1 /\ step \in Nat \ {0}
    BY ScriptFacts DEF Init
  <2> QED
    BY <1>3, <2>1, <2>2, Zenon DEF TypeOK
<1> QED
  BY <1>4, <1>5 DEF Init, Inv, Progress, NeverRefused

(* The invariant holds throughout.                                         *)
LEMMA InvHolds == Spec => []Inv
BY InitInv, InvStep, PTL DEF Spec

--------------------------------------------------------------------------------
(* Type correctness: only an open transaction keeps anything back from the *)
(* file.                                                                   *)
THEOREM TypeCorrect == Spec => []TypeOK
<1>1. Inv => TypeOK
  BY DEF Inv
<1> QED
  BY <1>1, InvHolds, PTL

(* No version is ever recorded in the file ahead of what its script makes, *)
(* wherever the starts before were interrupted.                            *)
THEOREM RecordedIsComplete == Spec => []RecordedMeansUpgraded
<1>1. Inv => RecordedMeansUpgraded
  BY DEF Inv, Upgraded, RecordedMeansUpgraded
<1> QED
  BY <1>1, InvHolds, PTL

(* No interrupted start leaves a file on which a later one is refused.     *)
THEOREM StartsAreSafe == Spec => []NeverRefused
<1>1. Inv => NeverRefused
  BY DEF Inv
<1> QED
  BY <1>1, InvHolds, PTL

(* The plugin runs on the schema of all versions only.                     *)
THEOREM ReadyIsComplete == Spec => []ReadyIsUpToDate
<1>1. Inv => ReadyIsUpToDate
  <2> SUFFICES ASSUME Inv, status = "ready"
               PROVE  disk = [objects |-> Schema, applied |-> Versions]
    BY DEF ReadyIsUpToDate
  <2>1. disk = view /\ view \in Database /\ Upgraded(view) /\ Versions \subseteq view.applied
    BY DEF Inv, TypeOK, Progress
  <2> QED
    BY <2>1, AllAppliedIsAll
<1> QED
  BY <1>1, InvHolds, PTL

(* After the migrations no store changes the file.                         *)
THEOREM StoresAgree == Spec => StoresFindTheirTables
<1>1. Inv /\ [Next]_vars => [InitStore => disk' = disk]_vars
  BY StoreFinds
<1> QED
  BY <1>1, InvHolds, PTL DEF Spec, StoresFindTheirTables
================================================================================
