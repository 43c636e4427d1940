\* The archive may store less than it was sent and call it a success.  Copies
\* are made by one caller at a time and nothing is restored (README, "Bounds").
CONSTANTS
  fresh = fresh
  p1 = p1
  Objects = {fresh}
  Procs = {p1}
  FullSize = 2
  Enabled = TRUE
  Scope = {fresh}
  Parity = TRUE
  Ops = {"upload", "archive", "backfill", "retention"}
  Faults = {"short_put", "lost_reply"}
  Legacy = {}
  Drained = {}
SPECIFICATION FairSpec
INVARIANTS Durable
PROPERTIES EvictionVerified EventuallyFreed
