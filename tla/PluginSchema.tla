----------------------------- MODULE PluginSchema -----------------------------
(***************************************************************************)
(* The migration scripts and the stores of this release, and the start of  *)
(* the plugin with them.                                                   *)
(***************************************************************************)
EXTENDS Migrations

(* The scripts, statement by statement: the tables and indexes of V1, the  *)
(* column of V2, the table and the index of V3.                            *)
V1 == <<"user", "idx_user_account_platform", "checkin_record", "idx_checkin_lookup",
        "group", "schedule", "user_group", "sp_migration_record">>
V2 == <<"auto_checkin">>
V3 == <<"checkin_session_exclusion", "idx_checkin_session_exclusion_umo">>

PluginScripts == <<V1, V2, V3>>

(* The DDL of the stores, in the order in which the plugin makes them.     *)
UserTable      == <<"user", "idx_user_account_platform">>
CheckinTable   == <<"checkin_record", "idx_checkin_lookup">>
ExclusionTable == <<"checkin_session_exclusion", "idx_checkin_session_exclusion_umo">>
GroupTable     == <<"group">>
UserGroupTable == <<"user_group">>
ScheduleTable  == <<"schedule">>

PluginStores == UserTable \o CheckinTable \o ExclusionTable
                  \o GroupTable \o UserGroupTable \o ScheduleTable

(* The user table of the store has the column of V2 from the beginning.    *)
PluginColumns == [o \in Range(PluginStores) |-> IF o = "user" THEN {"auto_checkin"} ELSE {}]

(* An index needs its table, a new column too.                             *)
PluginNeeds ==
  [o \in UNION {Range(PluginScripts[v]) : v \in DOMAIN PluginScripts} |->
     CASE o \in {"idx_user_account_platform", "auto_checkin"} -> {"user"}
       [] o = "idx_checkin_lookup" -> {"checkin_record"}
       [] o = "idx_checkin_session_exclusion_umo" -> {"checkin_session_exclusion"}
       [] OTHER -> {}]
================================================================================
