CONSTANTS
  Tabs = {t1, t2}
  Accounts = {u1, u2}
  Nobody = Nobody
  MaxFamilies = 2
  MaxGen = 2
  Renewing = {1}
  Callers = {t1}
SPECIFICATION FairSpec
INVARIANTS TypeOK NeverReplayed
PROPERTIES AccountsApart  SplashEnds
CHECK_DEADLOCK FALSE
