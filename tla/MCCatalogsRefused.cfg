\* A resource created while its catalog is deleted: violated.
SPECIFICATION Spec
CONSTANTS
  Ids = {c1}
  Requests = {r1, r2}
  Workloads = {{"delete", "item"}}
  Urls = {u1}
  Copies = {1}
  Alts = {a1}
  Patched = {a1}
  Root = Root
  Seed = Seed
  None = None
  Unborn = Unborn
  Gone = Gone
SYMMETRY Symmetry
PROPERTY DeleteRefused
CHECK_DEADLOCK FALSE
