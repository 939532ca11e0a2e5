\* Nothing fails: one request, one task, one worker process.
CONSTANTS
  t1 = t1
  t2 = t2
  Tenants = {t1}
  Workers = {w1}
  Jobs = {j1}
  MaxRetries = 1
  Mode <- Brought
  NoTenant = NoTenant
  NoJob = NoJob
SPECIFICATION BestDaySpec
PROPERTY CreatedBecomesReady
CHECK_DEADLOCK FALSE
