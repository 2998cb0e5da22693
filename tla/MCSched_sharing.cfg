SPECIFICATION FairSpec
CONSTANTS
  t1 = t1
  t2 = t2
  a1 = a1
  u1 = u1
  Ticks = {t1, t2}
  AllCommands = {a1}
  Spcheckins = {}
  Uids = {u1}
  Tasks = {"daily"}
  MaxDay = 0
  WeekOf <- OneWeek
  Concurrency = 1
  MaxCrash = 0
  Legacy = {}
  None = None
INVARIANTS AtMostOneRunPerKey EntryHasOwner PermitsConserved NoMixedPush CompletedIsRecorded
PROPERTIES FlightSpec CallerEnds InflightDrains
CHECK_DEADLOCK FALSE
