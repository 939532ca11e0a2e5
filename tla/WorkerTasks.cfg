\* Each behaviour exercises one component.
\* exports: two exports, two facts.  drift: two runs of three detectors.
\* metering: three collections, of which the summary adds up two; three ticks.
\* provisioning: three runs.
CONSTANTS
  Tasks = {"exports", "drift", "metering", "provisioning"}
  f1 = f1
  f2 = f2
  Bundles = {e1, e2}
  Facts = {f1, f2}
  TableOf <- MCTableOf
  Tables <- MCTables
  Sweeps = {s1, s2}
  Detectors <- MCDetectors
  Verdicts = {"clean"}
  MaxCollections = 3
  Hour = 1
  Day = 2
  SummaryRows = 2
  MaxRetries = 1
  LastTick = 3
  TerraformRuns = {p1, p2, p3}
  Specs = {sp1, sp2}
  VaultSpecs = {sp1}
  FirstSpec = sp1
  Nothing = nothing
  Partial = partial
SPECIFICATION Spec
INVARIANTS
  TypeOK
  BundleHoldsTogether
  QueuedIsUnderWay
  SummaryIsOfOneRun
  RecentUsageIsBilled
  ProvisionedAsAsked
CHECK_DEADLOCK FALSE
