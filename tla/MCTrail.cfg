\* Two writes, a channel of one, a crash or an exit, and a restart; or three
\* events, a client that follows the links and the purge.
SPECIFICATION TrailSpec
CONSTANTS
  Requests = {r1, r2}
  Keys = {k1, k2}
  Subscribers = {s1}
  None = None
  Buffer = 1
  MaxEvents = 2
  MaxRestarts = 1
  Entities = {x1, x2}
  Filters = {{x1}}
  Sizes = {1}
  MaxWritten = 3
  MaxDowns = 1
INVARIANTS
  TrailTypeOK
  NoPhantom
  EverythingAccounted
  OneLeg
  QuietDrainDispatches
  WalkFaithful
PROPERTIES ChannelDispatched AgedPurged
CHECK_DEADLOCK FALSE
