\* The constants of db.rs; a timer may be one unit late.
SPECIFICATION ConnectSpec
CONSTANTS
  Attempts = 5
  FirstDelay = 1
  MaxDelay = 8
  Budget = 120
  Timeout = 60
  Lag = 1
INVARIANTS PhaseBounded EndsHonestly GivesUpOnlyWhenSpent
PROPERTIES NoWaitInVain ConnectEnds
CHECK_DEADLOCK FALSE
