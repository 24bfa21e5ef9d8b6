\* Every handler, three requests on a catalog.
SPECIFICATION Spec
CONSTANTS
  Ids = {c1}
  Requests = {r1, r2, r3}
  Workloads = {
    {"post", "patch", "delete", "item", "remove"},
    {"post", "delete", "log", "patchItem"},
    {"patch", "delete", "analysis"}}
  Urls = {u1, u2}
  Copies = {1, 2}
  Alts = {a1}
  Patched = {a1, Root}
  Root = Root
  Seed = Seed
  None = None
  Unborn = Unborn
  Gone = Gone
SYMMETRY Symmetry
INVARIANTS TypeOK OneDelete NoSourceLeftBehind PlainUntied PlainSources
PROPERTIES PlainDelete PlainWithin PlainInLine
CHECK_DEADLOCK FALSE
