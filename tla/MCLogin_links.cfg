SPECIFICATION FairSpec
CONSTANTS
  Users = {u1}
  Tokens = {t1, t2}
  Requests = {r1, r2}
  None = None
INVARIANTS TypeOK OneLiveLink OneSubmission AttemptsAreKept StopIsComplete
PROPERTIES LinksSpec TimeoutStopsSubmission NobodyWaitsForEver LinksEnd
CHECK_DEADLOCK FALSE
