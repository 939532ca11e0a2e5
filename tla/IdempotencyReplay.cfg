\* The instance of IdempotencyGate.cfg.
CONSTANTS
  r1 = r1
  r2 = r2
  r3 = r3
  r4 = r4
  Requests = {r1, r2, r3, r4}
  HashOf <- ThreeAlike
  NoRow = NoRow
  Nothing = Nothing
SPECIFICATION Spec
INVARIANT ReplayReturnsStoredResponse
CHECK_DEADLOCK FALSE
