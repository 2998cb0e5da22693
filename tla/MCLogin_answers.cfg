SPECIFICATION Spec
CONSTANTS
  Users = {u1}
  Tokens = {t1}
  Requests = {r1, r2}
  None = None
INVARIANT NoFailureAsSuccess
CHECK_DEADLOCK FALSE
