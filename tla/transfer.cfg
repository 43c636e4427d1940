\* All three commands, dry and real, with and without a limit; an interrupt at
\* any moment.
CONSTANTS
  a1 = a1
  a2 = a2
  a3 = a3
  b1 = b1
  w1 = w1
  w2 = w2
  None = None
  Contents <- MCContents
  Workers = {w1, w2}
  QueueSize = 1
  Limits = {0, 2}
SPECIFICATION FairSpec
INVARIANTS TypeOK OneBucketAtATime Accounting LimitKept ReportsFailures
PROPERTIES Ends
CHECK_DEADLOCK FALSE
