\* Reading through the cache, with times: the interval 0 or 1 second, 1 second
\* to a transmission, two transmissions, a clock of 4 seconds in half seconds.
SPECIFICATION Spec
CONSTANTS
  TIMEOUT_DURATION = 1
  NUM_TIMEOUTS = 2
  MaxLosses = 1
  Horizon = 8
  Intervals = {0, 1}
  MaxReads = 3
  MaxEdits = 2
INVARIANT ReadsFresh
INVARIANT FreshnessInv
PROPERTY ValidatedByThisCall
PROPERTY GivesUpInTime
\* the clock stops at the horizon
CHECK_DEADLOCK FALSE
