----------------------------- MODULE ModulePlanner -----------------------------
(***************************************************************************)
(* ModuleEngine of modules/engine.py, as operators: which modules a tenant *)
(* gets, which of them can be installed, with which chart values, and the  *)
(* items the onboarding pipeline then applies one by one.                  *)
(*                                                                         *)
(* A module descriptor is a record                                         *)
(*   [id, type, optional, adapters, needs, configs, template, naming,      *)
(*    helm, values]                                                        *)
(* where needs maps a capability to the value it must have, configs are    *)
(* the adapters an INTEGRATE module relies on, template says whether there *)
(* is an Argo CD template, naming and helm what is in it, and values are   *)
(* the chart keys the module sets itself.  A template's metadata.name has  *)
(* "{{tenant_id}}" in it ("tenant"), is the same for everybody ("fixed")   *)
(* or is missing ("none"); templates of two modules do not share a name.   *)
(* Of a chart value only the layer that set it is kept.                    *)
(***************************************************************************)
EXTENDS Naturals, FiniteSets, TLC

CONSTANTS
  Catalog,   \* the module catalogue, a sequence of descriptors
  Adapters,  \* the adapter keys of PlatformConfig
  Shared     \* owner of the applications whose template has a fixed name

ModuleIds == {Catalog[i].id : i \in DOMAIN Catalog}
Module(id) == Catalog[CHOOSE i \in DOMAIN Catalog : Catalog[i].id = id]

\* _get_enabled_modules: an empty list counts as none given.
EnabledModules(spec) ==
  IF spec.enabled # {} THEN spec.enabled
  ELSE {id \in ModuleIds : ~Module(id).optional}

\* The probe's report wins over what the provider profile claims.
CapabilityUnion(provider, report) == report @@ provider.capabilities

Holds(caps, key, value) == key \in DOMAIN caps /\ caps[key] = value

CapabilitiesMatch(needs, caps) == \A k \in DOMAIN needs : Holds(caps, k, needs[k])

\* What the plan does with one module.
Action(m, caps) ==
  IF ~(m.adapters \subseteq Adapters /\ CapabilitiesMatch(m.needs, caps)) THEN "error"
  ELSE CASE m.type = "INSTALL" -> IF m.template THEN "install" ELSE "error"
         [] m.type = "INTEGRATE" -> IF m.configs \subseteq Adapters THEN "integrate" ELSE "error"
         [] m.type = "SUPPLYCHAIN" -> "supplychain"
         [] OTHER -> "unknown"

\* _merge_overrides, key by key: the tenant's over the provider's over the module's.
Merged(m, provider, spec) ==
  [k \in m.values \union provider.overrides[m.id] \union spec.overrides[m.id] |->
     IF k \in spec.overrides[m.id] THEN "tenant"
     ELSE IF k \in provider.overrides[m.id] THEN "provider" ELSE "module"]

\* What is written into the template's own values: nothing unless its source is a
\* helm chart and there is something to write.
Values(m, provider, spec) == IF m.helm THEN Merged(m, provider, spec) ELSE <<>>

AppName(owner, id) == <<owner, id>>

\* The name of the application: what the template says, placeholders filled in, or
\* "<tenant>-<module>" if it says nothing.
Named(m, tenant) == AppName(IF m.naming = "fixed" THEN Shared ELSE tenant, m.id)

Item(m, tenant, spec, provider, caps) ==
  [module |-> m.id, action |-> Action(m, caps),
   name |-> Named(m, tenant), values |-> Values(m, provider, spec)]

\* One item per selected module, at its place in the catalogue.  An id that is
\* not in the catalogue is passed over; a module of an unknown type is an error
\* without an item.
Plan(tenant, spec, provider, report) ==
  LET caps == CapabilityUnion(provider, report)
      selected == {i \in DOMAIN Catalog : Catalog[i].id \in EnabledModules(spec)}
      planned == {i \in selected : Action(Catalog[i], caps) # "unknown"}
  IN  [items |-> [i \in planned |-> Item(Catalog[i], tenant, spec, provider, caps)],
       errors |-> {Catalog[i].id : i \in {j \in selected :
                     Action(Catalog[j], caps) \in {"error", "unknown"}}}]

\* What the pipeline goes through, place by place: the applications and the
\* references to record.
Installs(plan) ==
  {i \in DOMAIN plan.items : plan.items[i].action \in {"install", "integrate"}}

\* The next place of those that are left.
First(i, places) == i \in places /\ \A j \in places : i <= j

================================================================================
