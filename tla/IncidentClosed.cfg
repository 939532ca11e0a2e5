\* Two requests in flight, of which one closes the incident.
CONSTANTS
  Requests = {r1, r2}
  MaxTimeline = 3
  MaxBranches = 2
  Idle = Idle
SPECIFICATION Spec
PROPERTY ClosedIsFinal
CHECK_DEADLOCK FALSE
