\* Four calls of Add against batches of two and a channel of one: an Add that
\* waits behind a retry, a Stop at any moment.
CONSTANTS
  i1 = i1
  i2 = i2
  i3 = i3
  i4 = i4
  Items = {i1, i2, i3, i4}
  BatchSize = 2
  QueueSize = 1
  MaxRetries = 1
SPECIFICATION FairBatchSpec
INVARIANTS
  TypeOK
  NothingDropped
  GivenUpAfterRetries
PROPERTIES
  SucceededNotRetried
  AddedProcessed
  AddReturns
  StopReturns
CHECK_DEADLOCK FALSE
