SPECIFICATION Spec
CONSTANTS
  Uids = {u1, u2, u3}
  alice = alice
  bob = bob
  qq = qq
  Accounts = {alice, bob}
  tg = tg
  PlatformsOf <- OnePlatform
  MaxTime = 1
  Nobody = Nobody
PROPERTIES CleanupTakesOnlyStale
CHECK_DEADLOCK FALSE
