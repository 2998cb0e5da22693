SPECIFICATION Spec
CONSTANTS
  Scripts <- PluginScripts
  Stores <- PluginStores
  Columns <- PluginColumns
  Needs <- PluginNeeds
  RecordTable = "sp_migration_record"
INVARIANTS TypeOK RecordedMeansUpgraded NeverRefused ReadyIsUpToDate
PROPERTIES StoresFindTheirTables
