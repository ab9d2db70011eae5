\* A later --skip-expired run replays what an earlier one cached.
SPECIFICATION Spec
CONSTANTS
  t1 = t1
  t2 = t2
  c1 = c1
  c2 = c2
  None = None
  Term = {t1, t2}
  Cert = {c1}
  NotAfter <- MCOneNotAfter
  Within = 5
  LookBack = 0
  Lifetime = 3
  Slowest = 1
  TicksPerMilli = 2
  MillisPerDay = 2
  MaxTime = 7
INVARIANTS SkipExpiredShowsNone
CHECK_DEADLOCK FALSE
