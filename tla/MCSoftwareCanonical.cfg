\* Two PATCHes on stale reads: violated.
SPECIFICATION Spec
CONSTANTS
  Ids = {s1}
  Requests = {r1, r2}
  Workloads = {{"patch"}}
  Urls = {u1, u2}
  Namespaces = {n1, n2}
  Seed = Seed
  None = None
  Unborn = Unborn
  Gone = Gone
SYMMETRY Symmetry
INVARIANT CanonicalExists
CHECK_DEADLOCK FALSE
