\* Two keys, four events, debouncing on and off, timers started on time.
SPECIFICATION FairSpec
CONSTANTS
  Keys = {k1, k2}
  None = None
  Delays = {0, 2}
  Cap = 3
  Lateness = 0
  MaxEvents = 4
  MaxTime = 5
INVARIANTS TypeOK NothingStranded CapHonoured
PROPERTIES Coalesces EventuallyDispatched
CHECK_DEADLOCK FALSE
