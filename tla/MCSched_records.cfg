SPECIFICATION Spec
CONSTANTS
  t1 = t1
  m1 = m1
  u1 = u1
  Ticks = {t1}
  AllCommands = {}
  Spcheckins = {m1}
  Uids = {u1}
  Tasks = {"daily", "weekly"}
  MaxDay = 1
  WeekOf <- OneWeek
  Concurrency = 1
  MaxCrash = 1
  Legacy <- LegacyDaily
  None = None
INVARIANTS TypeOK TrustedIsBacked ReportAddsUp
PROPERTIES SettledStaysSettled
CHECK_DEADLOCK FALSE
