CONSTANTS
  Members = {a, b}
  Tickers = {t1, t2}
  JobRunner = jr
  MaxFaults = 2
  Overtaking = FALSE
SPECIFICATION FairSpec
INVARIANTS UntouchedUntilStarted StartedWhenDue PurgedOnce
PROPERTIES LeavesNothing DueIsPurged ImplementsFate
CHECK_DEADLOCK FALSE
