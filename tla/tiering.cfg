\* Every operation at once, on whole copies: two callers racing over a fresh
\* object and over an archived one whose bucket has left the scope.
CONSTANTS
  fresh = fresh
  outside = outside
  p1 = p1
  p2 = p2
  Objects = {fresh, outside}
  Procs = {p1, p2}
  FullSize = 2
  Enabled = TRUE
  Scope = {fresh}
  Parity = TRUE
  Ops = {"upload", "archive", "backfill", "retention", "restore", "read", "delete"}
  Faults = {"lost_reply"}
  Legacy = {outside}
  Drained = {}
SPECIFICATION Spec
SYMMETRY Symmetry
INVARIANTS TypeOK Durable ReportedArchived FallThroughFinds
PROPERTIES LifecycleSpec DryRunsWriteNothing
