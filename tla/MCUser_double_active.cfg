SPECIFICATION Spec
CONSTANTS
  Uids = {u1, u2, u3}
  alice = alice
  bob = bob
  qq = qq
  tg = tg
  Accounts = {alice, bob}
  PlatformsOf <- BobOnTwo
  MaxTime = 1
  Nobody = Nobody
INVARIANTS AtMostOneActive
CHECK_DEADLOCK FALSE
