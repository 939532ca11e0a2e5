\* One run at a time; one subscription.
CONSTANTS
  acme = acme
  other = other
  s1 = s1
  s2 = s2
  Platform = Platform
  Events = {1, 2}
  Subs = {s1, s2}
  EventOf <- MCEvents
  SubOf <- MCSubs
  Runs = {r1}
  Limit = 1
SPECIFICATION Spec
PROPERTY RetryableIsRetried
CHECK_DEADLOCK FALSE
