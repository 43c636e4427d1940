\* The restore command beside reads, over an object the zero-byte bug mirrored.
CONSTANTS
  old = old
  p1 = p1
  Objects = {old}
  Procs = {p1}
  FullSize = 2
  Enabled = TRUE
  Scope = {old}
  Parity = TRUE
  Ops = {"restore", "read"}
  Faults = {}
  Legacy = {old}
  Drained = {old}
SPECIFICATION Spec
INVARIANTS Durable
