\* A page of the archive's listing cannot be read.
CONSTANTS
  a1 = a1
  a2 = a2
  a3 = a3
  b1 = b1
  w1 = w1
  None = None
  Contents <- MCContents
  Workers = {w1}
  QueueSize = 1
  Limits = {0}
SPECIFICATION Spec
INVARIANTS RestoreReportsFailures
CHECK_DEADLOCK FALSE
