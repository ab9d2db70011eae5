\* A run whose standard output fails after its CSV report is in place.
SPECIFICATION Spec
CONSTANTS
  r1 = r1
  r2 = r2
  u1 = u1
  u2 = u2
  None = None
  Run = {r1, r2}
  Target = {u1, u2}
  Json = {r1}
INVARIANTS FailedRunKeepsReport
CHECK_DEADLOCK FALSE
