\* A PATCH that commits after the DELETE: violated.
SPECIFICATION Spec
CONSTANTS
  Ids = {s1}
  Requests = {r1, r2}
  Workloads = {{"patch", "delete"}}
  Urls = {u1}
  Namespaces = {n1, n2}
  Seed = Seed
  None = None
  Unborn = Unborn
  Gone = Gone
SYMMETRY Symmetry
INVARIANT NothingAfterDelete
CHECK_DEADLOCK FALSE
