CONSTANTS
  Members = {a, b}
  Tickers = {t1}
  JobRunner = jr
  MaxFaults = 0
  Overtaking = TRUE
SPECIFICATION Spec
PROPERTIES LockedTakesNoMember
CHECK_DEADLOCK FALSE
