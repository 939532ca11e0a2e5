\* Two runs that overlap over two events, or three of which a run takes two.
CONSTANTS
  acme = acme
  other = other
  s1 = s1
  s2 = s2
  Platform = Platform
  Events = {1, 2, 3}
  Subs = {s1, s2}
  EventOf <- MCEvents
  SubOf <- MCSubs
  Runs = {r1, r2}
  Limit = 2
SPECIFICATION MCSpec
INVARIANTS
  DispatchedReachedAll
  FailureIsItsOwn
  NoPhantomEvent
  NoLockCycle
PROPERTIES
  EveryEventSettles
  SettledOnce
CHECK_DEADLOCK FALSE
