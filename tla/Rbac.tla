---------------------------------- MODULE Rbac ----------------------------------
(***************************************************************************)
(* Who may do what (auth/policy.py, auth/rbac.py, models/identity.py), as  *)
(* operators.  A principal is [realm, tenants]: its realm roles and, for   *)
(* each tenant it has roles in, those roles.                               *)
(***************************************************************************)

CONSTANTS
  Permissions,   \* rbac.permissions: permission -> the roles that have it
  UnlistedAllowed  \* rbac.defaults.deny_by_default, negated

\* The realm roles count in every tenant, the others in their own.
RolesIn(principal, tenant) ==
  principal.realm \union
    {role \in UNION {principal.tenants[t] : t \in DOMAIN principal.tenants} :
       tenant \in DOMAIN principal.tenants /\ role \in principal.tenants[tenant]}

\* Mutant: a role counts in every tenant.
HasPermissionAnywhere(principal, permission, tenant) ==
  IF permission \in DOMAIN Permissions
  THEN (principal.realm \union UNION {principal.tenants[t] : t \in DOMAIN principal.tenants})
         \cap Permissions[permission] # {}
  ELSE UnlistedAllowed

HasPermission(principal, permission, tenant) ==
  IF permission \in DOMAIN Permissions
  THEN RolesIn(principal, tenant) \cap Permissions[permission] # {}
  ELSE UnlistedAllowed

IsPlatformAdmin(principal) == "platform_admin" \in principal.realm

\* The tenants whose rows a listing over all tenants shows to the principal.
TenantScope(principal, tenants) ==
  IF IsPlatformAdmin(principal) THEN tenants ELSE tenants \cap DOMAIN principal.tenants

================================================================================
