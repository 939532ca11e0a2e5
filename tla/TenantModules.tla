----------------------------- MODULE TenantModules -----------------------------
(***************************************************************************)
(* What a tenant has installed and what its metadata column says of it:    *)
(* the modules an onboarding run applies through Argo CD                   *)
(* (onboarding/pipeline.py, worker.py) and the data products that API      *)
(* requests enable and disable (api/routes.py).                            *)
(*                                                                         *)
(* tenants.metadata is one JSON column.  Every writer reads it, changes a  *)
(* copy and writes it back whole; no writer locks the row before it reads. *)
(* A request keeps the row lock from its flush to its commit, with calls   *)
(* to Argo CD in between, which a rollback does not take back.             *)
(***************************************************************************)
EXTENDS ModulePlanner

CONSTANTS
  Toggles,    \* API requests that enable or disable a product
  Products,   \* product ids
  ProductOf,  \* their descriptors: [modules, needs, allowed]
  Tenant,     \* the tenant
  Template,   \* stands for the text "{{tenant_id}}" where nobody filled it in
  TenantSpecs, Providers, Reports,  \* what may be configured and probed
  Nobody

\* No tenant has the text for its id, or for its applications a name that others
\* use; a module is in the catalogue once, which the loader does not check.
ASSUME ModulesAssumption ==
  /\ Tenant \notin {Template, Shared} /\ Nobody \notin Toggles
  /\ DOMAIN Catalog \subseteq Nat
  /\ \A i, j \in DOMAIN Catalog : Catalog[i].id = Catalog[j].id => i = j
  /\ \A p \in Products : DOMAIN ProductOf[p].modules \subseteq Nat

VARIABLES
  config,    \* spec, provider profile and probe report of this behaviour
  metadata,  \* the committed column: enabled_products and integrations
  lock,      \* the request whose flush holds the row
  apps,      \* the applications in Argo CD: name -> chart values written into them
  toggle,    \* the requests
  onboard,   \* the onboarding run
  wanted,    \* the column as the committed changes alone make it (ghost)
  overlap    \* some change was read before another committed (ghost)

modulesVars == <<config, metadata, lock, apps, toggle, onboard, wanted, overlap>>

\* listed: whether the column has its key enabled_products yet.
NoMetadata == [listed |-> FALSE, products |-> {}, integrations |-> {}]

NewToggle == [pc |-> "new", op |-> "enable", product |-> Nobody,
              saw |-> NoMetadata, todo |-> {}]

IdleRun == [pc |-> "idle", todo |-> {}, refs |-> {}, saw |-> NoMetadata]

Columns == [listed : BOOLEAN, products : SUBSET Products, integrations : SUBSET ModuleIds]

Toggle ==
  [pc : {"new", "read", "install", "commit", "done", "refused"}, op : {"enable", "disable"},
   product : Products \union {Nobody}, saw : Columns, todo : SUBSET Nat]

Onboarding ==
  [pc : {"idle", "install", "record", "store", "ready"}, todo : SUBSET DOMAIN Catalog,
   refs : SUBSET ModuleIds, saw : Columns]

ModulesTypeOK ==
  /\ config \in [spec : TenantSpecs, provider : Providers, report : Reports]
  /\ {metadata, wanted} \subseteq Columns
  /\ lock \in Toggles \union {Nobody}
  /\ DOMAIN apps \subseteq {Tenant, Template, Shared} \X ModuleIds
  /\ toggle \in [Toggles -> Toggle]
  /\ onboard \in Onboarding
  /\ overlap \in BOOLEAN

ModulesInit ==
  /\ config \in [spec : TenantSpecs, provider : Providers, report : Reports]
  /\ metadata = NoMetadata /\ wanted = NoMetadata
  /\ lock = Nobody
  /\ apps = <<>>
  /\ toggle = [q \in Toggles |-> NewToggle]
  /\ onboard = IdleRun
  /\ overlap = FALSE

\* apply_application: GET, then PUT over the application of that name, or POST.
Applied(name, values) ==
  [a \in DOMAIN apps \union {name} |-> IF a = name THEN values ELSE apps[a]]

--------------------------------------------------------------------------------
(* enable_product and disable_product *)

Toggled(op, column, p) ==
  [column EXCEPT !.listed = TRUE,
                 !.products = IF op = "enable" THEN @ \union {p} ELSE @ \ {p}]

\* Permission, allowed_tenants and the policy have let the request through; it
\* reads the tenant.
BeginToggle(q) ==
  /\ toggle[q].pc = "new"
  /\ \E op \in {"enable", "disable"}, p \in Products :
       /\ op = "disable" \/ ProductOf[p].allowed
       /\ toggle' = [toggle EXCEPT ![q] =
            [NewToggle EXCEPT !.pc = "read", !.op = op, !.product = p, !.saw = metadata]]
  /\ UNCHANGED <<config, metadata, lock, apps, onboard, wanted, overlap>>

\* enable_product installs what it finds in the catalogue as it stands there: the
\* places of such modules in the product's list.
Templates(p) ==
  {i \in DOMAIN ProductOf[p].modules :
     LET id == ProductOf[p].modules[i]
     IN  id \in ModuleIds /\ Module(id).type = "INSTALL" /\ Module(id).template}

TemplateOf(p, i) == Module(ProductOf[p].modules[i])

TemplateName(p, i) == Named(TemplateOf(p, i), Template)

Refuse(q) ==
  /\ toggle' = [toggle EXCEPT ![q].pc = "refused"]
  /\ lock' = IF lock = q THEN Nobody ELSE lock

\* update_metadata: the UPDATE, if the column changes, waits for the row.  Then
\* enable compares the product's capabilities with the profile's, or ends in 400.
FlushToggle(q) ==
  LET me == toggle[q]
      changes == Toggled(me.op, me.saw, me.product) # me.saw
      capable == CapabilitiesMatch(ProductOf[me.product].needs, config.provider.capabilities)
  IN  /\ me.pc = "read"
      /\ changes => lock = Nobody
      /\ IF me.op = "enable" /\ ~capable THEN Refuse(q)
         ELSE /\ toggle' = [toggle EXCEPT ![q].pc = IF me.op = "enable" THEN "install" ELSE "commit",
                                          ![q].todo = Templates(me.product)]
              /\ lock' = IF changes THEN q ELSE lock
      /\ UNCHANGED <<config, metadata, apps, onboard, wanted, overlap>>

\* Mutant: the answer of Argo CD is not looked at.
InstallTemplateUnchecked(q) ==
  LET me == toggle[q]
  IN  /\ me.pc = "install"
      /\ \E i \in me.todo :
           /\ First(i, me.todo)
           /\ \/ apps' = Applied(TemplateName(me.product, i), <<>>)
              \/ apps' = apps
           /\ toggle' = [toggle EXCEPT ![q].todo = @ \ {i}]
      /\ UNCHANGED <<config, metadata, lock, onboard, wanted, overlap>>

\* apply_application with the template, as it stands in the catalogue: one without
\* a name is an error.
InstallTemplate(q) ==
  LET me == toggle[q]
  IN  /\ me.pc = "install"
      /\ \E i \in me.todo :
           /\ First(i, me.todo)
           /\ IF TemplateOf(me.product, i).naming = "none"
              THEN Refuse(q) /\ UNCHANGED apps
              ELSE /\ apps' = Applied(TemplateName(me.product, i), <<>>)
                   /\ toggle' = [toggle EXCEPT ![q].todo = @ \ {i}]
                   /\ UNCHANGED lock
      /\ UNCHANGED <<config, metadata, onboard, wanted, overlap>>

\* Argo CD answers with an error, or the process dies: the session rolls back,
\* the applications that were applied stay.
AbortToggle(q) ==
  /\ toggle[q].pc \in {"read", "install", "commit"}
  /\ Refuse(q)
  /\ UNCHANGED <<config, metadata, apps, onboard, wanted, overlap>>

\* The column, the audit event and the event commit.
CommitToggle(q) ==
  LET me == toggle[q]
      new == Toggled(me.op, me.saw, me.product)
  IN  /\ me.pc \in {"install", "commit"}
      /\ me.pc = "install" => me.todo = {}
      /\ toggle' = [toggle EXCEPT ![q].pc = "done"]
      /\ lock' = IF lock = q THEN Nobody ELSE lock
      /\ metadata' = IF new = me.saw THEN metadata ELSE new
      /\ wanted' = Toggled(me.op, wanted, me.product)
      /\ overlap' = (overlap \/ metadata # me.saw)
      /\ UNCHANGED <<config, apps, onboard>>

--------------------------------------------------------------------------------
(* The onboarding run *)

TenantPlan == Plan(Tenant, config.spec, config.provider, config.report)

\* Mutant: the plan's errors are not looked at.
StartInstallAnyway ==
  /\ onboard.pc \in {"idle", "ready"}
  /\ onboard' = [IdleRun EXCEPT !.pc = "install", !.todo = Installs(TenantPlan)]
  /\ UNCHANGED <<config, metadata, lock, apps, toggle, wanted, overlap>>

\* A run, a retry or another onboarding gets past the probe with a plan that has
\* no errors; with any error it ends before anything is applied.
StartInstall ==
  /\ onboard.pc \in {"idle", "ready"}
  /\ TenantPlan.errors = {}
  /\ onboard' = [IdleRun EXCEPT !.pc = "install", !.todo = Installs(TenantPlan)]
  /\ UNCHANGED <<config, metadata, lock, apps, toggle, wanted, overlap>>

\* The next item, allowed by the policy: applied, or its reference noted.
InstallItem ==
  /\ onboard.pc = "install"
  /\ \E i \in onboard.todo :
       LET x == TenantPlan.items[i]
       IN  /\ First(i, onboard.todo)
           /\ IF x.action = "install"
              THEN /\ apps' = Applied(x.name, x.values)
                   /\ onboard' = [onboard EXCEPT !.todo = @ \ {i}]
              ELSE /\ onboard' = [onboard EXCEPT !.todo = @ \ {i}, !.refs = @ \union {x.module}]
                   /\ UNCHANGED apps
  /\ UNCHANGED <<config, metadata, lock, toggle, wanted, overlap>>

\* _update_metadata reads the tenant; a run without integrations skips it.
ReadMetadata ==
  /\ onboard.pc = "install"
  /\ onboard.todo = {}
  /\ onboard' = [onboard EXCEPT !.pc = IF onboard.refs = {} THEN "record" ELSE "store",
                                !.saw = metadata]
  /\ UNCHANGED <<config, metadata, lock, apps, toggle, wanted, overlap>>

Stored(column) == [column EXCEPT !.integrations = onboard.refs]

\* Mutant: the column is replaced by what the run has to say.
StoreIntegrationsOnly ==
  /\ onboard.pc = "store"
  /\ lock = Nobody
  /\ metadata' = [NoMetadata EXCEPT !.integrations = onboard.refs]
  /\ wanted' = Stored(wanted)
  /\ overlap' = (overlap \/ metadata # onboard.saw)
  /\ onboard' = [onboard EXCEPT !.pc = "record"]
  /\ UNCHANGED <<config, lock, apps, toggle>>

\* Flush and commit; the flush waits for a request that holds the row.
StoreIntegrations ==
  LET new == Stored(onboard.saw)
  IN  /\ onboard.pc = "store"
      /\ new # onboard.saw => lock = Nobody
      /\ metadata' = IF new = onboard.saw THEN metadata ELSE new
      /\ wanted' = Stored(wanted)
      /\ overlap' = (overlap \/ metadata # onboard.saw)
      /\ onboard' = [onboard EXCEPT !.pc = "record"]
      /\ UNCHANGED <<config, lock, apps, toggle>>

\* The status READY commits.
RecordReady ==
  /\ onboard.pc = "record"
  /\ onboard' = [onboard EXCEPT !.pc = "ready"]
  /\ UNCHANGED <<config, metadata, lock, apps, toggle, wanted, overlap>>

\* The policy denies a module, Argo CD answers with an error, or the process dies.
AbortInstall ==
  /\ onboard.pc \in {"install", "store", "record"}
  /\ onboard' = IdleRun
  /\ UNCHANGED <<config, metadata, lock, apps, toggle, wanted, overlap>>

--------------------------------------------------------------------------------

OnboardStep ==
  \/ StartInstall \/ InstallItem \/ ReadMetadata
  \/ StoreIntegrations \/ RecordReady \/ AbortInstall

ModulesNext ==
  \/ \E q \in Toggles :
       BeginToggle(q) \/ FlushToggle(q) \/ InstallTemplate(q) \/ AbortToggle(q) \/ CommitToggle(q)
  \/ OnboardStep

ModulesSpec == ModulesInit /\ [][ModulesNext]_modulesVars

(* Properties *)

\* A product that the committed metadata calls enabled had every template of
\* its modules accepted by Argo CD: no failure or rollback of a request, and no
\* other writer of the column, leaves a product enabled but not installed.
EnabledWasInstalled ==
  \A p \in metadata.products : \A i \in Templates(p) : TemplateName(p, i) \in DOMAIN apps

\* Unless two writers of the column overlapped, it says what the committed
\* requests and runs together made of it: neither forgets what the other wrote.
TogglesTakeEffect == ~overlap => metadata = wanted

\* A tenant that is READY has, of every module it was to get and the catalogue
\* knows, the application, under the name that its template gives it there; in a
\* helm chart under a name of the tenant's own its values win over the provider's
\* and the module's, whatever products are enabled meanwhile; and the adapters and
\* capabilities that the modules require are there.
ReadyHasItsModules ==
  LET caps == CapabilityUnion(config.provider, config.report)
  IN  onboard.pc = "ready" =>
        \A id \in EnabledModules(config.spec) \cap ModuleIds :
          LET m == Module(id)
              name == Named(m, Tenant)
          IN  /\ m.adapters \subseteq Adapters /\ CapabilitiesMatch(m.needs, caps)
              /\ m.type = "INSTALL" =>
                   /\ name \in DOMAIN apps
                   /\ m.helm /\ m.naming # "fixed" =>
                        \A k \in config.spec.overrides[id] : apps[name][k] = "tenant"
              /\ m.type = "INTEGRATE" => id \in onboard.refs

================================================================================
