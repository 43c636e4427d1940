\* Three requests for two workers and a queue of one: full queues, retries, a
\* stop at any moment, downloads that hang.
CONSTANTS
  d1 = d1
  d2 = d2
  d3 = d3
  w1 = w1
  w2 = w2
  NoJob = NoJob
  Jobs = {d1, d2, d3}
  Workers = {w1, w2}
  QueueSize = 1
  MaxRetries = 1
SPECIFICATION FairSpec
INVARIANTS TypeOK OnePlace AnswerTruthful StatusTruthful EndRecorded
PROPERTIES CompletedFinal AcceptedAnswered StopReturns
CHECK_DEADLOCK FALSE
