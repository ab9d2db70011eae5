\* A --refresh run beside an ordinary one; two keys that collide on one digest,
\* only the first of them ever answered; the clock may be set back by one.
SPECIFICATION Spec
CONSTANTS
  p1 = p1
  p2 = p2
  k1 = k1
  k2 = k2
  h1 = h1
  a1 = a1
  None = None
  Proc = {p1, p2}
  Key = {k1, k2}
  Hash = {h1}
  Payload = {a1}
  Digest <- MCDigest
  AnswerTo <- MCAnswerTo
  Mode <- MCMode
  ShortTTL <- MCShortTTL
  CertTTL = 0
  ScratchGrace = 0
  ClockSteps = {1}
  MaxPuts = 1
  MaxTime = 1
INVARIANTS HitIsSound ScratchIsPrivate
PROPERTIES PublishedWhole ImplementsMap
CHECK_DEADLOCK FALSE
