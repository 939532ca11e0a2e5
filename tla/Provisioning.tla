------------------------------- MODULE Provisioning -------------------------------
(***************************************************************************)
(* The clusters of PROVISIONED tenants: the Terraform runner               *)
(* (provisioning/terraform_runner.py), called by onboarding and by the     *)
(* drift detector, and ProvisioningService (provisioning/service.py).      *)
(*                                                                         *)
(* All of them work in one directory per tenant and under fixed names of   *)
(* plan files, without a lock: runs of one tenant overwrite each other's.  *)
(* Terraform is external: it refuses a plan whose state has changed since, *)
(* and its own lock makes plan, apply and destroy one step each, which may *)
(* stop half way.  What was built, the vault and the work directory        *)
(* survive a failed run.  All versions use one Terraform workspace.        *)
(***************************************************************************)
EXTENDS Naturals, FiniteSets

CONSTANTS
  TerraformRuns,  \* calls of the runner or the service
  Specs,          \* versions of the tenant's specification
  VaultSpecs,     \* those with a reference for the cluster's access data in the vault
  FirstSpec,
  Nothing,
  Partial         \* of a cluster: an apply or a destroy stopped half way

ASSUME SpecsAssumption == FirstSpec \in Specs

VARIABLES
  spec,     \* the configured version
  workdir,  \* exists, and in it the variables and plan files: name -> the plan
  infra,    \* what is built, and the serial of Terraform's state
  secret,   \* the version whose access data is stored
  work      \* the calls; changed and alone are ghosts

provisioningVars == <<spec, workdir, infra, secret, work>>

NoPlan == [of |-> Nothing, serial |-> 0]
PlanFile == [provision |-> "provision.tfplan", drift |-> "drift.tfplan",
             plan |-> "plan.tfplan", apply |-> "plan.tfplan"]
AllFiles == {"provision.tfplan", "drift.tfplan", "plan.tfplan"}
Operations == {"provision", "drift", "plan", "apply", "destroy"}

Versions == Specs \union {Nothing, Partial}

\* changed: the cluster was changed by this call, which did not write to the vault
\* since.  alone: see Disturb.
NewWork == [pc |-> "new", op |-> "plan", of |-> Nothing, built |-> Nothing,
            changed |-> FALSE, alone |-> TRUE]

Call == [pc : {"new", "init", "plan", "apply", "output", "vault", "record", "done",
               "failed"},
         op : Operations, of : Versions, built : Versions,
         changed : BOOLEAN, alone : BOOLEAN]

ProvisioningTypeOK ==
  /\ spec \in Specs
  /\ workdir \in [exists : BOOLEAN, vars : Specs \union {Nothing},
                  plan : [AllFiles -> [of : Versions, serial : Nat]]]
  /\ infra \in [of : Versions, serial : Nat]
  /\ secret \in Versions
  /\ work \in [TerraformRuns -> Call]

ProvisioningInit ==
  /\ spec = FirstSpec
  /\ workdir = [exists |-> FALSE, vars |-> Nothing, plan |-> [f \in AllFiles |-> NoPlan]]
  /\ infra = [of |-> Nothing, serial |-> 0]
  /\ secret = Nothing
  /\ work = [r \in TerraformRuns |-> NewWork]

File(r) == PlanFile[work[r].op]

\* The specification is changed in the configuration.
ChangeSpec ==
  /\ \E s \in Specs \ {spec} : spec' = s
  /\ UNCHANGED <<workdir, infra, secret, work>>

--------------------------------------------------------------------------------
(* The runner and the service *)

Refused(r) == work' = [work EXCEPT ![r].pc = "failed"]

\* A call reads the specification.  apply takes the plan that is there; plan writes
\* its variables before init has made the directory, and fails if nobody has yet.
BeginWork(r) ==
  /\ work[r].pc = "new"
  /\ \E op \in Operations :
       /\ work' = [work EXCEPT ![r] = [NewWork EXCEPT !.op = op, !.of = spec,
            !.pc = CASE op \in {"provision", "drift"} -> "init"
                     [] op = "plan" -> IF workdir.exists THEN "init" ELSE "failed"
                     [] op = "apply" -> IF workdir.plan["plan.tfplan"] # NoPlan
                                        THEN "apply" ELSE "failed"
                     [] op = "destroy" -> IF workdir.exists THEN "apply" ELSE "failed"]]
       /\ workdir' = IF op = "plan" /\ workdir.exists THEN [workdir EXCEPT !.vars = spec]
                     ELSE workdir
  /\ UNCHANGED <<spec, infra, secret>>

InitDir(r) ==
  /\ work[r].pc = "init"
  /\ workdir' = [workdir EXCEPT !.exists = TRUE]
  /\ work' = [work EXCEPT ![r].pc = "plan"]
  /\ UNCHANGED <<spec, infra, secret>>

\* Another call is about to apply the file that r writes, or to use the outputs of
\* what r changes: from then on it is not alone.
Disturb(r, w, pcs, files) ==
  [x \in TerraformRuns |->
     IF x # r /\ w[x].pc \in pcs /\ w[x].op # "destroy" /\ PlanFile[w[x].op] \in files
     THEN [w[x] EXCEPT !.alone = FALSE] ELSE w[x]]

NextAfterPlan == [provision |-> "apply", drift |-> "done", plan |-> "record"]

\* The version that is planned: a plan of the service is of the variables in the
\* directory, which another one may have written.
Planned(r) == IF work[r].op = "plan" THEN workdir.vars ELSE work[r].of

\* Mutant: a plan file that is there is used.
MakePlanReused(r) ==
  LET f == File(r)
  IN  /\ work[r].pc = "plan"
      /\ workdir' = IF workdir.plan[f] # NoPlan THEN workdir
                    ELSE [workdir EXCEPT !.plan[f] = [of |-> Planned(r), serial |-> infra.serial]]
      /\ work' = Disturb(r, [work EXCEPT ![r].pc = NextAfterPlan[work[r].op]], {"apply"}, {f})
      /\ UNCHANGED <<spec, infra, secret>>

\* plan -out overwrites the file of that name.  A drift run ends with it, and a plan
\* of the service is recorded.
MakePlan(r) ==
  /\ work[r].pc = "plan"
  /\ workdir' = [workdir EXCEPT !.plan[File(r)] = [of |-> Planned(r), serial |-> infra.serial]]
  /\ work' = Disturb(r, [work EXCEPT ![r].pc = NextAfterPlan[work[r].op]], {"apply"}, {File(r)})
  /\ UNCHANGED <<spec, infra, secret>>

\* The cluster becomes of the version; if nothing changes the state keeps its serial.
Change(r, version, pc) ==
  IF version = infra.of /\ version # Partial
  THEN work' = [work EXCEPT ![r].pc = pc] /\ UNCHANGED infra
  ELSE /\ infra' = [of |-> version, serial |-> infra.serial + 1]
       /\ work' = Disturb(r, [work EXCEPT ![r].pc = pc, ![r].changed = TRUE],
                          {"output", "vault"}, AllFiles)

\* What the file holds is built, wholly or in part, or refused as stale.
ApplyPlan(r) ==
  LET p == workdir.plan[File(r)]
  IN  /\ work[r].pc = "apply"
      /\ work[r].op # "destroy"
      /\ \/ p.serial # infra.serial /\ Refused(r) /\ UNCHANGED infra
         \/ p.serial = infra.serial /\ Change(r, p.of, "output")
         \/ p.serial = infra.serial /\ p.of # infra.of /\ Change(r, Partial, "failed")
      /\ UNCHANGED <<spec, workdir, secret>>

DestroyAll(r) ==
  /\ work[r].pc = "apply"
  /\ work[r].op = "destroy"
  /\ \/ Change(r, Nothing, "record")
     \/ infra.of # Nothing /\ Change(r, Partial, "failed")
  /\ UNCHANGED <<spec, workdir, secret>>

ReadOutputs(r) ==
  /\ work[r].pc = "output"
  /\ work' = [work EXCEPT ![r].pc = "vault", ![r].built = infra.of]
  /\ UNCHANGED <<spec, workdir, infra, secret>>

\* Whether the outputs have access data: of a part of a cluster, perhaps.
Usable(version) == IF version = Partial THEN BOOLEAN ELSE {version # Nothing}

\* The access data goes to the vault, also when there is none: then a run of
\* onboarding fails after it, and one of the service does not.
WriteSecret(r) ==
  LET me == work[r]
  IN  /\ me.pc = "vault"
      /\ me.of \in VaultSpecs
      /\ secret' = me.built
      /\ \E ok \in Usable(me.built) :
           work' = [work EXCEPT ![r].changed = FALSE,
             ![r].pc = IF me.op = "apply" THEN "record" ELSE IF ok THEN "done" ELSE "failed"]
      /\ UNCHANGED <<spec, workdir, infra>>

\* Without a reference nothing is written: a run of onboarding goes on if there is
\* access data, and the service refuses, after it applied.
SkipSecret(r) ==
  LET me == work[r]
  IN  /\ me.pc = "vault"
      /\ me.of \notin VaultSpecs
      /\ \E ok \in Usable(me.built) :
           work' = [work EXCEPT ![r].pc = IF ok /\ me.op # "apply" THEN "done" ELSE "failed"]
      /\ UNCHANGED <<spec, workdir, infra, secret>>

\* The service's run and artifact are recorded by the caller's commit.
RecordWork(r) ==
  /\ work[r].pc = "record"
  /\ work' = [work EXCEPT ![r].pc = "done"]
  /\ UNCHANGED <<spec, workdir, infra, secret>>

\* A command fails before it changes anything, or the process dies; what was built
\* stays.
FailWork(r) ==
  /\ work[r].pc \in {"init", "plan", "apply", "output", "vault", "record"}
  /\ Refused(r)
  /\ UNCHANGED <<spec, workdir, infra, secret>>

--------------------------------------------------------------------------------

ProvisioningNext ==
  \/ ChangeSpec
  \/ \E r \in TerraformRuns :
       \/ BeginWork(r) \/ InitDir(r) \/ MakePlan(r) \/ ApplyPlan(r) \/ DestroyAll(r)
       \/ ReadOutputs(r) \/ WriteSecret(r) \/ SkipSecret(r) \/ RecordWork(r)
       \/ FailWork(r)

ProvisioningSpec == ProvisioningInit /\ [][ProvisioningNext]_provisioningVars

(* Properties *)

\* A run that onboarding reports as provisioned has built the version it was started
\* with, whatever plans and half-done work earlier runs left in the directory, if
\* it was alone: no other onboarding run planned before it applied, and no other
\* run changed the cluster before it wrote to the vault.  Drift runs and the plans
\* of the service never come between.
BuiltAsPlanned ==
  \A r \in TerraformRuns :
    work[r].op = "provision" /\ work[r].pc = "done" /\ work[r].alone
    => work[r].built = work[r].of

\* The vault has the access data of the cluster as it stands, unless a run that
\* changed the cluster did not write it (it has not come to it, it failed or was a
\* destroy, or its version has no reference), or runs were not alone.
VaultFollowsCluster ==
  secret = infra.of \/ \E r \in TerraformRuns : work[r].changed \/ ~work[r].alone

\* What onboarding goes on with is the cluster that was asked for.
ProvisionedAsAsked == BuiltAsPlanned /\ VaultFollowsCluster

================================================================================
