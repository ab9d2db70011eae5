\* --skip-expired, fresh and replayed answers mixed.
SPECIFICATION Spec
CONSTANTS
  t1 = t1
  t2 = t2
  c1 = c1
  c2 = c2
  None = None
  Term = {t1, t2}
  Cert = {c1, c2}
  NotAfter <- MCNotAfter
  Within = 3
  LookBack = 0
  Lifetime = 2
  Slowest = 1
  TicksPerMilli = 2
  MillisPerDay = 2
  MaxTime = 6
INVARIANTS ExpiredIsTrue LiveIsRecent FreshRunHonoursWindow DriftIsBounded DaysLeftFloored
CHECK_DEADLOCK FALSE
