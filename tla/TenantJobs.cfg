\* One worker process serving a provisioned tenant and one of an unknown mode.
CONSTANTS
  t1 = t1
  t2 = t2
  Tenants = {t1, t2}
  Workers = {w1}
  Jobs = {j1, j2}
  MaxRetries = 1
  Mode <- ProvisionedAndOdd
  NoTenant = NoTenant
  NoJob = NoJob
SPECIFICATION Spec
PROPERTIES
  EveryJobEnds
CHECK_DEADLOCK FALSE
