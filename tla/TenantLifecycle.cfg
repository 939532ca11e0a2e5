\* Two jobs, so that two tasks of one tenant overlap; one retry each.
CONSTANTS
  t1 = t1
  t2 = t2
  Tenants = {t1}
  Workers = {w1, w2}
  Jobs = {j1, j2}
  MaxRetries = 1
  Mode <- Brought
  NoTenant = NoTenant
  NoJob = NoJob
SPECIFICATION Spec
SYMMETRY Symmetry
INVARIANTS
  TypeOK
  SingleCarrier
  SettledIsOver
  ReadyIsEarned
  RowFollowsHistory
  SoleJobKeepsChain
  AuditAgreesWithOutcome
PROPERTIES
  ImplementsDelivery
CHECK_DEADLOCK FALSE
