\* Every handler of software and bundles, three requests.
SPECIFICATION BSpec
CONSTANTS
  Ids = {s1, s2}
  Requests = {r1, r2, r3}
  Workloads = {
    {"create", "patch", "delete", "analysis", "log"},
    {"delete", "log", "patchLog", "deleteLog"},
    {"create", "delete", "bundle", "patchBundle", "deleteBundle"}}
  Urls = {u1, u2, u3}
  Namespaces = {n1, n2}
  BundleIds = {b1}
  Seed = Seed
  None = None
  Unborn = Unborn
  Gone = Gone
SYMMETRY Symmetry
INVARIANTS
  BTypeOK
  OneDelete
  NoUrlLeftBehind
  AnalysisKept
  SerialCanonical
  SerialDelete
  MembersExist
  BundleTrailEnds
PROPERTIES UrlsInSync LogsStayDeleted SerialMembers
CHECK_DEADLOCK FALSE
