\* A catalog with resources is PATCHed to the root: violated.
SPECIFICATION Spec
CONSTANTS
  Ids = {c1}
  Requests = {r1, r2}
  Workloads = {{"patch"}}
  Urls = {u1}
  Copies = {1}
  Alts = {a1}
  Patched = {Root}
  Root = Root
  Seed = Seed
  None = None
  Unborn = Unborn
  Gone = Gone
SYMMETRY Symmetry
INVARIANT RootUntied
CHECK_DEADLOCK FALSE
