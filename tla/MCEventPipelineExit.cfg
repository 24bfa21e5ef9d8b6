\* A shutdown under load leaves events behind: violated.
SPECIFICATION Spec
CONSTANTS
  Requests = {r1, r2}
  Keys = {k1, k2}
  Subscribers = {s1}
  None = None
  Buffer = 1
  MaxEvents = 2
  MaxRestarts = 0
INVARIANT ExitDispatches
CHECK_DEADLOCK FALSE
