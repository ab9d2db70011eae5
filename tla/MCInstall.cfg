\* Releases 1 to 3, the second of which does not start on this system.
SPECIFICATION Spec
CONSTANTS
  p1 = p1
  p2 = p2
  None = None
  Before = Before
  Proc = {p1, p2}
  Release = {1, 2, 3}
  Pinned <- MCPinned
  RunsHere = {1, 3}
INVARIANTS InstalledRuns NoLeftovers
PROPERTIES StoppedInstallsNothing
CHECK_DEADLOCK FALSE
