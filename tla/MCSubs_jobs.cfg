SPECIFICATION Spec
CONSTANTS
  admins = admins
  friends = friends
  alice = alice
  qq = qq
  Everyone = Everyone
  None = None
  Nobody = Nobody
  Umos = {admins, friends}
  Subs <- GlobalAndAlice
  Crons = {morning, night}
  MaxBoots = 2
  Uids = {u1, u2}
  Accounts = {alice, bob}
  PlatformsOf <- OnePlatform
  MaxTime = 0
SYMMETRY Interchangeable
INVARIANTS TypeOK JobsFollowRows  ReportsMatchSessions
CHECK_DEADLOCK FALSE
