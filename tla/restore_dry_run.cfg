\* The restore command without -apply beside reads, over one old object.
CONSTANTS
  old = old
  p1 = p1
  Objects = {old}
  Procs = {p1}
  FullSize = 2
  Enabled = TRUE
  Scope = {old}
  Parity = TRUE
  Ops = {"restore", "read"}
  Faults = {}
  Legacy = {old}
  Drained = {}
SPECIFICATION Spec
PROPERTIES RestoreDryRunWritesNothing
