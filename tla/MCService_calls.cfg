SPECIFICATION Spec
CONSTANTS
  c1 = c1
  c2 = c2
  c3 = c3
  Calls = {c1, c2, c3}
  MaxTime = 8
  PeriodLen = 4
  Cooldown = 3
  Never = Never
SYMMETRY Symmetry
INVARIANTS TypeOK SuccessMeansCollected NoFalseFailure
PROPERTIES PromiseSpec
CHECK_DEADLOCK FALSE
