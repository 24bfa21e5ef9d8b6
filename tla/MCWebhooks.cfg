\* Every handler of publishers and webhooks, three requests.
SPECIFICATION WSpec
CONSTANTS
  Ids = {p1, p2}
  Requests = {r1, r2, r3}
  Workloads = {
    {"create", "patch", "delete", "log"},
    {"create", "delete", "hook", "unhook"}}
  Urls = {u1, u2, u3}
  Groups = {TRUE}
  Alts = {a1}
  Targets = {t1}
  All = All
  Seed = Seed
  None = None
  Unborn = Unborn
  Gone = Gone
SYMMETRY Symmetry
INVARIANTS
  WTypeOK
  OneDelete
  OneName
  NoHostLeftBehind
  SerialDelete
  Subscribed
  HookTrail
PROPERTY UrlsInSync
CHECK_DEADLOCK FALSE
