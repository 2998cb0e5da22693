SPECIFICATION Spec
CONSTANTS
  Uids = {u1, u2, u3}
  alice = alice
  bob = bob
  qq = qq
  tg = tg
  Accounts = {alice, bob}
  PlatformsOf <- BobOnTwo
  MaxTime = 1
  Nobody = Nobody
  Unset = Unset
  Everyone = Everyone
  admins = admins
  friends = friends
  Umos = {admins, friends}
  Boards <- SomeBoards
  CaseFold <- SameButForCase
  Keywords <- Typed
  Limits = {0, 2, 12}
SYMMETRY Interchangeable
INVARIANTS TypeOK OneActiveOnOnePlatform ParticipantsFollowTick SuggestionsComplete
PROPERTIES StaysWithinAccount ActiveLostOnlyByCleanup
CHECK_DEADLOCK FALSE
