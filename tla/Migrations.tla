------------------------------ MODULE Migrations ------------------------------
(***************************************************************************)
(* The start of the plugin on its SQLite file: setup_db runs the missing   *)
(* migration scripts (src/core/db/migrations/), then every store creates   *)
(* what it needs if it is not there.  Which scripts and stores there are   *)
(* is a parameter; PluginSchema.tla has those of this release.             *)
(*                                                                         *)
(* Python's sqlite3 opens a transaction before an INSERT but not before    *)
(* DDL.  So the first statements of a start are durable one by one, and    *)
(* what follows the first record of a version becomes durable with the     *)
(* commit at the end.  The process may die, or a statement fail (a locked  *)
(* database, a full disk), between any two statements; the next start      *)
(* meets what was left.                                                    *)
(***************************************************************************)
EXTENDS Naturals, Sequences, Functions

CONSTANTS
  Scripts,      \* by version: the tables, indexes and columns a script makes
  Stores,       \* those the stores make, in the order the plugin makes them
  Columns,      \* columns of later versions in the tables of the stores
  Needs,        \* what sqlite wants to be there before it makes something
  RecordTable   \* the table of the versions that were run

Versions == DOMAIN Scripts               \* what _discover_scripts finds
SchemaUpTo(n) == UNION {Range(Scripts[v]) : v \in 1 .. n}
Schema == SchemaUpTo(Len(Scripts))

(* A script makes a table before its columns and indexes, the first one    *)
(* makes the table of the records, and no store wants more than scripts.   *)
ASSUME SchemaAssumption ==
  /\ Scripts \in Seq(Seq(STRING)) /\ Stores \in Seq(STRING)
  /\ \A v \in Versions : \A i \in DOMAIN Scripts[v] :
       Needs[Scripts[v][i]] \subseteq SchemaUpTo(v - 1) \cup {Scripts[v][k] : k \in 1 .. i - 1}
  /\ Versions # {} => RecordTable \in Range(Scripts[1])
  /\ Range(Stores) \subseteq Schema

Database == [objects : SUBSET Schema, applied : SUBSET Versions]

VARIABLES
  disk,      \* the database file: what is there, which versions are recorded
  view,      \* what the connection sees
  open,      \* the connection is in a transaction
  pending,   \* the versions run_all found missing
  version,   \* the script run_all has come to
  step,      \* the next statement of the script, or of the stores
  status     \* "off", "migrating", "creating", "ready", or "refused" by sqlite

at == <<pending, version, step>>
vars == <<disk, view, open, at, status>>

--------------------------------------------------------------------------------
Pending(applied) == Versions \ applied

Start ==
  /\ status = "off"
  /\ status' = "migrating" /\ version' = 1 /\ step' = 1
  /\ pending' = Pending(disk.applied)
  /\ UNCHANGED <<disk, view, open>>

AtScript == status = "migrating" /\ version \in Versions
AtStatement == AtScript /\ version \in pending /\ step \in DOMAIN Scripts[version]

NextStatement == step' = step + 1 /\ UNCHANGED <<pending, version, status>>
NextScript == version' = version + 1 /\ step' = 1 /\ UNCHANGED <<pending, status>>

Skip ==
  /\ AtScript /\ version \notin pending
  /\ NextScript /\ UNCHANGED <<disk, view, open>>

(* sqlite creates, at once or as part of the open transaction, or refuses. *)
Execute(o, new) ==
  IF Needs[o] \subseteq view.objects /\ o \notin view.objects
    THEN /\ view' = [view EXCEPT !.objects = @ \cup new]
         /\ disk' = IF open THEN disk ELSE view'
         /\ NextStatement
    ELSE status' = "refused" /\ UNCHANGED <<disk, view, at>>

Exists_NotAsked(o) == o # "auto_checkin" /\ o \in view.objects

(* _table_exists, _index_exists, PRAGMA table_info, IF NOT EXISTS.         *)
Exists(o) == o \in view.objects

Ensure(o, new) ==
  /\ IF Exists(o) THEN NextStatement /\ UNCHANGED <<disk, view>> ELSE Execute(o, new)
  /\ UNCHANGED open

RunUpgrade ==
  /\ AtStatement
  /\ LET o == Scripts[version][step] IN Ensure(o, {o})

(* The INSERT of _record_migration: the first one opens the transaction.   *)
RecordMigration ==
  /\ AtScript /\ version \in pending /\ step = Len(Scripts[version]) + 1
  /\ IF Exists(RecordTable)
       THEN /\ view' = [view EXCEPT !.applied = @ \cup {version}]
            /\ open' = TRUE
            /\ NextScript
       ELSE status' = "refused" /\ UNCHANGED <<view, open, at>>
  /\ UNCHANGED disk

AllRun == status = "migrating" /\ version = Len(Scripts) + 1

Commit_Forgotten ==
  /\ AllRun
  /\ view' = disk /\ open' = FALSE
  /\ status' = "creating" /\ step' = 1
  /\ UNCHANGED <<disk, pending, version>>

Commit ==
  /\ AllRun
  /\ disk' = view /\ open' = FALSE
  /\ status' = "creating" /\ step' = 1
  /\ UNCHANGED <<view, pending, version>>

(* The stores are made, each with a connection that opens no transaction.  *)
InitStore ==
  /\ status = "creating" /\ step \in DOMAIN Stores
  /\ LET o == Stores[step] IN Ensure(o, {o} \cup Columns[o])

Ready ==
  /\ status = "creating" /\ step = Len(Stores) + 1
  /\ status' = "ready"
  /\ UNCHANGED <<disk, view, open, at>>

(* A statement fails: what is not committed is rolled back, setup_db       *)
(* raises and the plugin is not loaded.                                    *)
Fails_Swallowed ==
  /\ AtStatement /\ NextStatement
  /\ UNCHANGED <<disk, view, open>>

Fails_NoRollback ==
  /\ status \in {"migrating", "creating"}
  /\ status' = "off" /\ open' = FALSE
  /\ UNCHANGED <<disk, view, at>>

Fails ==
  /\ status \in {"migrating", "creating"}
  /\ status' = "off"
  /\ view' = disk /\ open' = FALSE
  /\ UNCHANGED <<disk, at>>

(* The plugin is stopped or the process dies; it is started again some day.*)
Dies ==
  /\ status # "off"
  /\ status' = "off"
  /\ view' = disk /\ open' = FALSE
  /\ UNCHANGED <<disk, at>>

(* The file is new, or a release with the first n scripts has used it.     *)
Init ==
  /\ \E n \in 0 .. Len(Scripts) : disk = [objects |-> SchemaUpTo(n), applied |-> 1 .. n]
  /\ view = disk /\ open = FALSE
  /\ pending = {} /\ version = 1 /\ step = 1 /\ status = "off"

Next ==
  \/ Start \/ Skip \/ RunUpgrade \/ RecordMigration \/ Commit \/ InitStore
  \/ Ready \/ Fails \/ Dies

Spec == Init /\ [][Next]_vars

--------------------------------------------------------------------------------
(* Properties.                                                             *)

(* Every variable keeps to its set of values; what is not committed is     *)
(* only what the open transaction holds.                                   *)
TypeOK ==
  /\ disk \in Database /\ view \in Database
  /\ open \in BOOLEAN /\ (~open => view = disk)
  /\ pending \subseteq Versions
  /\ version \in 1 .. Len(Scripts) + 1 /\ step \in Nat \ {0}
  /\ status \in {"off", "migrating", "creating", "ready", "refused"}

(* A version that is recorded in the file has everything its script makes  *)
(* in the file, whatever the starts before were interrupted by: otherwise  *)
(* no later start would ever make up for it.                               *)
RecordedMeansUpgraded ==
  \A v \in disk.applied : Range(Scripts[v]) \subseteq disk.objects

(* docs/dev/maintenance.md: scripts are idempotent.  No start meets a      *)
(* statement that sqlite refuses on what an interrupted start left: the    *)
(* plugin could never be loaded again.                                     *)
NeverRefused == status # "refused"

(* The stores repeat the schema of the scripts; they agree: after the      *)
(* migrations no store has anything left to create.  (If one had, a table  *)
(* made by a store and one made by a script could differ.)                 *)
StoresFindTheirTables == [][InitStore => disk' = disk]_vars

(* A plugin that runs has the schema of all versions, recorded.            *)
ReadyIsUpToDate ==
  status = "ready" => disk = [objects |-> Schema, applied |-> Versions]
================================================================================
