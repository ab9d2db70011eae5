\* All arrival orders of up to three rows of up to three certificates.
SPECIFICATION Spec
CONSTANTS
  i1 = i1
  i2 = i2
  s1 = s1
  w1 = w1
  w2 = w2
  a = a
  b = b
  None = None
  Id = {1, 2, 3}
  Identity = {a, b}
  Facts <- MCFacts
  MaxRows = 3
INVARIANTS OneRowPerCertificate IdentitiesAreItsOwn NothingLost
CHECK_DEADLOCK FALSE
