\* Two requests in flight; four transitions after NEW reach a pull request and beyond.
CONSTANTS
  Requests = {r1, r2}
  MaxTimeline = 5
  MaxBranches = 2
  Idle = Idle
SPECIFICATION Spec
SYMMETRY Symmetry
INVARIANTS
  StatusFollowsTimeline
  SerialTimelineIsPath
  
  RecordsArePulls
  PullWasApproved
CHECK_DEADLOCK FALSE
