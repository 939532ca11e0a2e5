------------------------------ MODULE MCApiRequests ------------------------------
(***************************************************************************)
(* Instances, for TLC, of what API requests do besides tenants, incidents  *)
(* and keys: the modules and products of a tenant, changes sent to Git,    *)
(* the way of a request past the rate limiter and the token check, paged   *)
(* listings, and access requests behind the policy gate.                   *)
(*                                                                         *)
(* They share no state, so a behaviour exercises one of them, chosen at    *)
(* the start, and leaves the others as they begin.                         *)
(***************************************************************************)
EXTENDS TenantModules, GitChanges, RequestGate, Listing, AccessApproval

CONSTANTS
  Parts,  \* the components exercised
  alice, bob

VARIABLE part

vars == <<part, modulesVars, gitVars, gateVars, listVars, approvalVars>>

--------------------------------------------------------------------------------
(* A catalogue with a module of every type and a template of every kind. *)

NoNeeds == <<>>
Needs == "lb" :> "yes"

Descriptor ==
  [id |-> "", type |-> "INSTALL", optional |-> TRUE, adapters |-> {}, needs |-> NoNeeds,
   configs |-> {}, template |-> FALSE, naming |-> "none", helm |-> FALSE, values |-> {}]

MCCatalog == <<
  [Descriptor EXCEPT !.id = "ingress", !.optional = FALSE, !.adapters = {"gitops"},
     !.needs = Needs, !.template = TRUE, !.naming = "tenant", !.helm = TRUE, !.values = {"size"}],
  [Descriptor EXCEPT !.id = "mesh", !.template = TRUE, !.naming = "fixed", !.helm = TRUE],
  [Descriptor EXCEPT !.id = "bare", !.template = TRUE, !.values = {"size"}],
  [Descriptor EXCEPT !.id = "logs", !.type = "INTEGRATE", !.configs = {"observability"}],
  [Descriptor EXCEPT !.id = "scan", !.type = "SUPPLYCHAIN"]>>

MCModules == {"ingress", "mesh", "bare", "logs", "scan"}

MCAdapters == {"gitops", "observability"}

MCProductOf ==
  "lake" :> [modules |-> <<"ingress", "logs", "mesh">>, needs |-> NoNeeds, allowed |-> TRUE] @@
  "lab" :> [modules |-> <<"mesh", "bare">>, needs |-> Needs, allowed |-> TRUE]

SameFor(keys) == [id \in MCModules |-> keys]

MCTenantSpecs ==
  {[enabled |-> {}, overrides |-> SameFor({})],
   [enabled |-> MCModules \union {"odd"}, overrides |-> SameFor({"size"})]}

MCProviders ==
  {[capabilities |-> NoNeeds, overrides |-> SameFor({"size", "class"})],
   [capabilities |-> Needs, overrides |-> SameFor({"class"})]}

MCReports == {NoNeeds, "lb" :> "no", Needs}

--------------------------------------------------------------------------------
(* Listings: an administrator, a viewer of each tenant, one without permission. *)

MCPermissions == "audit.read" :> {"viewer", "platform_admin"}

MCAccounts ==
  {[realm |-> {"platform_admin"}, tenants |-> <<>>],
   [realm |-> {}, tenants |-> "acme" :> {"viewer"}],
   [realm |-> {}, tenants |-> "acme" :> {"guest"} @@ "beta" :> {"viewer"}]}

--------------------------------------------------------------------------------
(* Access requests: every list of at most two of four rules, the first of which is *)
(* the one the platform ships for approvals.                                       *)

Admins == alice :> {"tenant_admin"} @@ bob :> {"tenant_admin", "platform_admin"}

AccessActions == {"access.request.create", "access.request.approve"}

Rule(actions, roles, effect, obligations) ==
  [actions |-> actions, roles |-> roles, risk |-> "none", payloads |-> {"role"},
   effect |-> effect, obligations |-> obligations]

SmallRules ==
  {Rule({"access.request.approve"}, {"tenant_admin", "platform_admin"}, "allow",
        {"require_2person_rule"}),
   Rule(AccessActions, {"platform_admin"}, "allow", {}),
   Rule({"access.request.approve"}, {"platform_admin"}, "deny", {}),
   Rule({"access.request.create"}, {"tenant_admin"}, "allow", {"require_approval"})}

SmallBooks == SeqOf(SmallRules, 2)

--------------------------------------------------------------------------------

Init ==
  /\ part \in Parts
  /\ ModulesInit /\ GitInit /\ GateInit /\ ListInit /\ ApprovalInit
  /\ part # "modules" =>
       config = CHOOSE x \in [spec : TenantSpecs, provider : Providers, report : Reports] : TRUE
  /\ part # "listing" => kind = "recent"
  /\ part # "approvals" => rules = CHOOSE book \in RuleBooks : TRUE

Next ==
  \/ /\ part = "modules" /\ ModulesNext
     /\ UNCHANGED <<part, gitVars, gateVars, listVars, approvalVars>>
  \/ /\ part = "git" /\ GitNext
     /\ UNCHANGED <<part, modulesVars, gateVars, listVars, approvalVars>>
  \/ /\ part = "gate" /\ GateNext
     /\ UNCHANGED <<part, modulesVars, gitVars, listVars, approvalVars>>
  \/ /\ part = "listing" /\ ListNext
     /\ UNCHANGED <<part, modulesVars, gitVars, gateVars, approvalVars>>
  \/ /\ part = "approvals" /\ ApprovalNext
     /\ UNCHANGED <<part, modulesVars, gitVars, gateVars, listVars>>

Spec == Init /\ [][Next]_vars

\* Every variable keeps its type.
TypeOK ==
  ModulesTypeOK /\ GitTypeOK /\ GateTypeOK /\ ListTypeOK /\ ApprovalTypeOK

================================================================================
