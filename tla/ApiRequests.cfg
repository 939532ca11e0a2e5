\* Each behaviour exercises one part.
\* modules: requests for two products beside onboarding runs of one tenant.
\* git: two calls, on one route with two tags or for one service in
\* two repositories or the one that promotions change, and one check.
\* gate: three requests of one tenant to one process, two signing keys, three ticks.
\* listing: at most four rows of two tenants, paged through by one client.
\* approvals: one call creates the request, two decide it, in any order and overlap.
CONSTANTS
  Parts = {"modules", "git", "gate", "listing", "approvals"}
  Catalog <- MCCatalog
  Adapters <- MCAdapters
  Shared = shared
  Toggles = {q1, q2}
  Products = {"lake", "lab"}
  ProductOf <- MCProductOf
  Tenant = tenant
  Template = template
  TenantSpecs <- MCTenantSpecs
  Providers <- MCProviders
  Reports <- MCReports
  Nobody = nobody
  MaxCalls = 2
  Routes = {route}
  Services = {service}
  Repositories = {home, repo1, repo2}
  Tags = {v1, v2}
  CheckSets = {{}, {test}}
  Home = home
  None = none
  Senders = 3
  Processes = {p1}
  Tenants = {acme}
  Callers = {anyone}
  Keys = {k1, k2}
  FirstKey = k1
  Window = 1
  MaxRequests = 1
  CacheSeconds = 1
  Latency = 1
  MaxTime = 3
  Never = never
  Permissions <- MCPermissions
  UnlistedAllowed = FALSE
  MaxRows = 4
  RowTenants = {"acme", "beta"}
  Readers = {reader}
  Accounts <- MCAccounts
  ReadPermission = "audit.read"
  PageCap = 2
  Limits = {1, 2, 3}
  Unnamed = unnamed
  alice = alice
  bob = bob
  Calls = {c1, c2, c3}
  Principals = {alice, bob}
  RolesOf <- Admins
  RuleBooks <- SmallBooks
  DenyByDefault = TRUE
SPECIFICATION Spec
INVARIANTS
  EnabledWasInstalled
  TogglesTakeEffect
  ReadyHasItsModules
  
  WindowIsHonest
  KeyViewIsRecent
  PagesAreComplete
  PagesKeepToTenants
  NothingAgainstPolicy
  DecisionsAreOfEffects
  DecisionIsAttributed
CHECK_DEADLOCK FALSE
