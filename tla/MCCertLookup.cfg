\* One certificate, looked up by an ordinary run and by --refresh.
SPECIFICATION Spec
CONSTANTS
  p1 = p1
  p2 = p2
  k1 = k1
  None = None
  Proc = {p1, p2}
  Key = {k1}
  Mode <- MCMode
  ShortTTL <- MCShortTTL
  CertTTL = 3
  StoreDelay = 1
  MaxTime = 4
INVARIANTS MissingIsRecent FoundWins
CHECK_DEADLOCK FALSE
