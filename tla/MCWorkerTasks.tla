------------------------------ MODULE MCWorkerTasks ------------------------------
(***************************************************************************)
(* Instances, for TLC, of what the worker does besides onboarding and      *)
(* event dispatch: exports, drift runs, metering, and Terraform runs.      *)
(*                                                                         *)
(* They share no state that any of them decides on, so a behaviour         *)
(* exercises one of them, chosen at the start, and leaves the others as    *)
(* they begin.                                                             *)
(***************************************************************************)
EXTENDS Exports, DriftRuns, Metering, Provisioning, TLC

CONSTANTS
  Tasks,  \* the components exercised
  f1, f2

VARIABLE exercised

vars == <<exercised, exportVars, driftVars, meteringVars, provisioningVars>>

\* One fact about the tenant's row, which is read before the audit trail, and one in
\* the table that is read last.
MCTables == <<"tenant", "audit", "policy", "incident", "provisioning", "runbook", "drift">>
MCTableOf == f1 :> "tenant" @@ f2 :> "drift"

MCDetectors == <<"terraform", "argocd", "posture">>

Init ==
  /\ exercised \in Tasks
  /\ ExportsInit /\ DriftInit /\ MeteringInit /\ ProvisioningInit

Next ==
  \/ /\ exercised = "exports" /\ ExportsNext
     /\ UNCHANGED <<exercised, driftVars, meteringVars, provisioningVars>>
  \/ /\ exercised = "drift" /\ DriftNext
     /\ UNCHANGED <<exercised, exportVars, meteringVars, provisioningVars>>
  \/ /\ exercised = "metering" /\ MeteringNext
     /\ UNCHANGED <<exercised, exportVars, driftVars, provisioningVars>>
  \/ /\ exercised = "provisioning" /\ ProvisioningNext
     /\ UNCHANGED <<exercised, exportVars, driftVars, meteringVars>>

Spec == Init /\ [][Next]_vars

\* Every variable keeps its type.
TypeOK == ExportsTypeOK /\ DriftTypeOK /\ MeteringTypeOK /\ ProvisioningTypeOK

================================================================================
