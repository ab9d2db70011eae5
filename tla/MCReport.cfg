\* Two runs, one with --json; a destination rotated between two files.
SPECIFICATION Spec
CONSTANTS
  r1 = r1
  r2 = r2
  u1 = u1
  u2 = u2
  None = None
  Run = {r1, r2}
  Target = {u1, u2}
  Json = {r1}
INVARIANTS ExitIsDecided ExitPromisesReport NoLitter
PROPERTIES ReportsReplacedWhole
CHECK_DEADLOCK FALSE
