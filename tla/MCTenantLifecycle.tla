--------------------------- MODULE MCTenantLifecycle ---------------------------
(***************************************************************************)
(* Instances of TenantLifecycle for TLC.                                   *)
(***************************************************************************)
EXTENDS TenantLifecycle, TLC

CONSTANTS t1, t2

\* A brought cluster: two tasks of one tenant overlap in every way.
Brought == t1 :> "BYOC"

\* A cluster to provision, and a mode the pipeline rejects.
ProvisionedAndOdd == t1 :> "PROVISIONED" @@ t2 :> "OTHER"

Symmetry == Permutations(Jobs) \union Permutations(Workers)

================================================================================
