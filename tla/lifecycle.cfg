SPECIFICATION Spec
CONSTANTS
  Sessions = {s1, s2}
CHECK_DEADLOCK FALSE
INVARIANTS NothingMisused FailedStartReleases
