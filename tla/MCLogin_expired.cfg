SPECIFICATION FairSpec
CONSTANTS
  Users = {u1}
  Tokens = {t1}
  Requests = {r1, r2}
  None = None
PROPERTY ExpiredLinkIsDead
CHECK_DEADLOCK FALSE
