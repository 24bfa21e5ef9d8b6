\* A timer that was started while a Submit was re-arming: violated.
SPECIFICATION Spec
CONSTANTS
  Keys = {k1, k2}
  None = None
  Delays = {2}
  Cap = 3
  Lateness = 1
  MaxEvents = 4
  MaxTime = 6
PROPERTY TrailingEdge
CHECK_DEADLOCK FALSE
