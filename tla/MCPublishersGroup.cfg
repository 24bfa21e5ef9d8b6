\* A PATCH that names the group of its code hosting: violated.
SPECIFICATION Spec
CONSTANTS
  Ids = {p1}
  Requests = {r1, r2}
  Workloads = {{"patch"}}
  Urls = {u1, u2}
  Groups = {TRUE, FALSE}
  Alts = {a1}
  Seed = Seed
  None = None
  Unborn = Unborn
  Gone = Gone
SYMMETRY Symmetry
PROPERTY HostingInSync
CHECK_DEADLOCK FALSE
