\* Two runs storing and pruning one entry, with different cache_ttl_secs; the
\* clock only advances, and every process that is not killed is scheduled.
SPECIFICATION FairSpec
CONSTANTS
  p1 = p1
  p2 = p2
  k1 = k1
  h1 = h1
  a1 = a1
  None = None
  Proc = {p1, p2}
  Key = {k1}
  Hash = {h1}
  Payload = {a1}
  Digest <- MCDigest
  AnswerTo <- MCAnswerTo
  Mode <- MCMode
  ShortTTL <- MCShortTTL
  CertTTL = 1
  ScratchGrace = 1
  ClockSteps = {}
  MaxPuts = 1
  MaxTime = 2
INVARIANTS InFlightScratchKept CondemnedIsOutlived PruneSweeps
PROPERTIES OperationsEnd
CHECK_DEADLOCK FALSE
