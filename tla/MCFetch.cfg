\* Three terms, a window of one row; a connect phase of at most two attempts.
SPECIFICATION FetchSpec
CONSTANTS
  t1 = t1
  t2 = t2
  t3 = t3
  NoRows = NoRows
  Term = {t1, t2, t3}
  Terms <- MCTerms
  Limit = 1
  Mode = "enabled"
  Attempts = 2
  FirstDelay = 1
  MaxDelay = 1
  Budget = 3
  Timeout = 0
  Lag = 0
INVARIANTS ReportIsWhole OneStatementPerTerm
PROPERTIES CachedRunSurvives RunEnds
CHECK_DEADLOCK FALSE
