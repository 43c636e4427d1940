\* A read while POST /archive frees the local copy; no call fails for another
\* reason than the object being gone.
CONSTANTS
  old = old
  p1 = p1
  p2 = p2
  Objects = {old}
  Procs = {p1, p2}
  FullSize = 2
  Enabled = TRUE
  Scope = {old}
  Parity = TRUE
  Ops = {"archive", "read"}
  Faults = {}
  Legacy = {old}
  Drained = {}
SPECIFICATION Spec
PROPERTIES EvictedIsServed
