\* Two callers of one tenant at one process.
CONSTANTS
  Parts = {"gate"}
  Catalog <- MCCatalog
  Adapters <- MCAdapters
  Shared = shared
  Toggles = {q1, q2}
  Products = {"lake", "lab"}
  ProductOf <- MCProductOf
  Tenant = tenant
  Template = template
  TenantSpecs <- MCTenantSpecs
  Providers <- MCProviders
  Reports <- MCReports
  Nobody = nobody
  MaxCalls = 2
  Routes = {route}
  Services = {service}
  Repositories = {home, repo1, repo2}
  Tags = {v1, v2}
  CheckSets = {{}, {test}}
  Home = home
  None = none
  Senders = 3
  Processes = {p1}
  Tenants = {acme}
  Callers = {ann, ben}
  Keys = {k1, k2}
  FirstKey = k1
  Window = 1
  MaxRequests = 1
  CacheSeconds = 1
  Latency = 1
  MaxTime = 3
  Never = never
  Permissions <- MCPermissions
  UnlistedAllowed = FALSE
  MaxRows = 4
  RowTenants = {"acme", "beta"}
  Readers = {reader}
  Accounts <- MCAccounts
  ReadPermission = "audit.read"
  PageCap = 2
  Limits = {1, 2, 3}
  Unnamed = unnamed
  alice = alice
  bob = bob
  Calls = {c1, c2, c3}
  Principals = {alice, bob}
  RolesOf <- Admins
  RuleBooks <- SmallBooks
  DenyByDefault = TRUE
SPECIFICATION Spec
INVARIANTS
  LimitIsPerCaller
CHECK_DEADLOCK FALSE
