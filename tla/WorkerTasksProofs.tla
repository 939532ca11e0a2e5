---------------------------- MODULE WorkerTasksProofs ----------------------------
(***************************************************************************)
(* Safety of what the worker does besides onboarding and event dispatch,   *)
(* for any number of exports, facts, tables, drift runs, detectors,        *)
(* collections and Terraform calls.  The components share no state, so     *)
(* each has an inductive invariant and theorems of its own.                *)
(***************************************************************************)
EXTENDS MCWorkerTasks, FiniteSetTheorems, SequenceTheorems,
        WellFoundedInduction, TLAPS

--------------------------------------------------------------------------------
(* Provisioning *)

Planners == {"provision", "drift", "plan"}

\* A call that has not begun has left no trace, and each stage is reached only by
\* the operations that have it.
CallShape ==
  \A r \in TerraformRuns :
    /\ work[r].pc = "new" => ~work[r].changed /\ work[r].alone
    /\ work[r].pc \in {"init", "plan"} => work[r].op \in Planners
    /\ work[r].pc \in {"output", "vault"} => work[r].op # "destroy"
    /\ work[r].pc = "record" => work[r].op # "provision"

\* What a call that was alone has to go on with at each stage: the plan file holds
\* its version, what is built is what was in the file, what it read is what is built.
AloneShape ==
  \A r \in TerraformRuns : work[r].alone =>
    /\ work[r].pc = "vault" => work[r].built = infra.of
    /\ work[r].op = "provision" =>
         /\ work[r].pc = "apply" => workdir.plan["provision.tfplan"].of = work[r].of
         /\ work[r].pc = "output" => infra.of = work[r].of
         /\ work[r].pc \in {"vault", "done"} => work[r].built = work[r].of

PInv == ProvisioningTypeOK /\ CallShape /\ AloneShape /\ VaultFollowsCluster

LEMMA InitPInv == ProvisioningInit => PInv
<1> SUFFICES ASSUME ProvisioningInit PROVE PInv
  OBVIOUS
<1>1. NewWork \in Call /\ NoPlan \in [of : Versions, serial : Nat]
  BY DEF NewWork, Call, Operations, Versions, NoPlan
<1>2. ProvisioningTypeOK
  BY <1>1, SpecsAssumption DEF ProvisioningInit, ProvisioningTypeOK, Versions
<1>3. CallShape /\ AloneShape /\ VaultFollowsCluster
  BY DEF ProvisioningInit, CallShape, AloneShape, VaultFollowsCluster, NewWork
<1> QED
  BY <1>2, <1>3 DEF PInv

\* A step of one call that leaves the cluster, the vault and the others' plan files
\* alone keeps the invariant if the call itself is in order after it.
LEMMA CallStep ==
  ASSUME PInv, NEW r \in TerraformRuns, NEW me \in Call, ProvisioningTypeOK',
         work' = [work EXCEPT ![r] = me],
         UNCHANGED <<infra, secret>>,
         workdir'.plan["provision.tfplan"] = workdir.plan["provision.tfplan"],
         me.pc # "new", work[r].changed => me.changed, me.alone => work[r].alone,
         me.pc \in {"init", "plan"} => me.op \in Planners,
         me.pc \in {"output", "vault"} => me.op # "destroy",
         me.pc = "record" => me.op # "provision",
         me.alone =>
           /\ me.pc = "vault" => me.built = infra.of
           /\ me.op = "provision" =>
                /\ me.pc = "apply" => workdir'.plan["provision.tfplan"].of = me.of
                /\ me.pc = "output" => infra.of = me.of
                /\ me.pc \in {"vault", "done"} => me.built = me.of
  PROVE  PInv'
<1>1. ProvisioningTypeOK /\ CallShape /\ AloneShape /\ VaultFollowsCluster
  BY DEF PInv
<1>2. work'[r] = me /\ \A x \in TerraformRuns \ {r} : work'[x] = work[x]
  BY <1>1 DEF ProvisioningTypeOK
<1>3. CallShape'
  BY <1>1, <1>2 DEF CallShape
<1>4. AloneShape'
  BY <1>1, <1>2 DEF AloneShape
<1>5. VaultFollowsCluster'
  BY <1>1, <1>2 DEF VaultFollowsCluster
<1> QED
  BY <1>3, <1>4, <1>5 DEF PInv

\* What a call does to another one that would use what it overwrites: nothing but
\* that the other is not alone any more.
LEMMA DisturbEffect ==
  ASSUME NEW r, NEW w \in [TerraformRuns -> Call], NEW pcs, NEW names
  PROVE  LET d == Disturb(r, w, pcs, names)
         IN  /\ d \in [TerraformRuns -> Call]
             /\ r \in TerraformRuns => d[r] = w[r]
             /\ \A x \in TerraformRuns :
                  /\ d[x].pc = w[x].pc /\ d[x].op = w[x].op /\ d[x].of = w[x].of
                  /\ d[x].built = w[x].built /\ d[x].changed = w[x].changed
                  /\ d[x].alone =>
                       /\ w[x].alone
                       /\ x = r \/ w[x].pc \notin pcs \/ w[x].op = "destroy"
                            \/ PlanFile[w[x].op] \notin names
<1> DEFINE d == Disturb(r, w, pcs, names)
<1>1. ASSUME NEW x \in TerraformRuns
      PROVE  /\ d[x] \in Call
             /\ x = r => d[x] = w[x]
             /\ d[x].pc = w[x].pc /\ d[x].op = w[x].op /\ d[x].of = w[x].of
             /\ d[x].built = w[x].built /\ d[x].changed = w[x].changed
             /\ d[x].alone =>
                  /\ w[x].alone
                  /\ x = r \/ w[x].pc \notin pcs \/ w[x].op = "destroy"
                       \/ PlanFile[w[x].op] \notin names
  <2>1. w[x] \in Call
    OBVIOUS
  <2>2. CASE x # r /\ w[x].pc \in pcs /\ w[x].op # "destroy" /\ PlanFile[w[x].op] \in names
    <3>1. d[x] = [w[x] EXCEPT !.alone = FALSE]
      BY <2>2 DEF Disturb
    <3> QED
      BY <2>1, <2>2, <3>1 DEF Call
  <2>3. CASE ~(x # r /\ w[x].pc \in pcs /\ w[x].op # "destroy" /\ PlanFile[w[x].op] \in names)
    <3>1. d[x] = w[x]
      BY <2>3 DEF Disturb
    <3> QED
      BY <2>1, <2>3, <3>1
  <2> QED
    BY <2>2, <2>3
<1>2. d \in [TerraformRuns -> Call]
  BY <1>1 DEF Disturb
<1> QED
  BY <1>1, <1>2

\* The plan file is overwritten: a call that was about to apply it is not alone.
LEMMA MakePlanStep ==
  ASSUME PInv, NEW r \in TerraformRuns, MakePlan(r)
  PROVE  PInv'
<1> DEFINE f == File(r)
           next == NextAfterPlan[work[r].op]
           plan == [of |-> Planned(r), serial |-> infra.serial]
           moved == [work EXCEPT ![r].pc = next]
<1>0. /\ ProvisioningTypeOK /\ CallShape /\ AloneShape /\ VaultFollowsCluster
      /\ work[r].pc = "plan" /\ work[r] \in Call
  BY DEF PInv, MakePlan, ProvisioningTypeOK
<1>1. work[r].op \in Planners
  BY <1>0 DEF CallShape
<1>2. /\ work' = Disturb(r, moved, {"apply"}, {f})
      /\ workdir' = [workdir EXCEPT !.plan[f] = plan]
      /\ UNCHANGED <<spec, infra, secret>>
  BY DEF MakePlan
<1>3. /\ f \in AllFiles /\ next \in {"apply", "done", "record"}
      /\ work[r].op = "provision" => f = "provision.tfplan"
      /\ next = "done" => work[r].op = "drift"
      /\ next = "record" => work[r].op = "plan"
  BY <1>1 DEF File, PlanFile, AllFiles, Planners, NextAfterPlan
<1>4. plan \in [of : Versions, serial : Nat] /\ plan.of = Planned(r)
  BY <1>0 DEF Planned, ProvisioningTypeOK, Versions, Call
<1>5. /\ moved \in [TerraformRuns -> Call]
      /\ moved[r] = [work[r] EXCEPT !.pc = next]
      /\ \A x \in TerraformRuns \ {r} : moved[x] = work[x]
  BY <1>0, <1>3 DEF ProvisioningTypeOK, Call
<1>6. /\ moved[r].pc = next /\ moved[r].op = work[r].op /\ moved[r].of = work[r].of
      /\ moved[r].changed = work[r].changed /\ moved[r].alone = work[r].alone
  BY <1>0, <1>5 DEF Call
<1> HIDE DEF moved
<1>7. /\ work' \in [TerraformRuns -> Call]
      /\ \A x \in TerraformRuns :
           /\ work'[x].pc = moved[x].pc /\ work'[x].op = moved[x].op
           /\ work'[x].of = moved[x].of /\ work'[x].built = moved[x].built
           /\ work'[x].changed = moved[x].changed
           /\ work'[x].alone =>
                /\ moved[x].alone
                /\ x = r \/ moved[x].pc # "apply" \/ moved[x].op = "destroy"
                     \/ PlanFile[moved[x].op] # f
  BY <1>2, <1>5, DisturbEffect
<1> HIDE DEF plan
<1>8. /\ workdir'.plan[f] = plan
      /\ \A g \in AllFiles \ {f} : workdir'.plan[g] = workdir.plan[g]
      /\ workdir' \in [exists : BOOLEAN, vars : Specs \union {Nothing},
                       plan : [AllFiles -> [of : Versions, serial : Nat]]]
  BY <1>0, <1>2, <1>3, <1>4 DEF ProvisioningTypeOK
<1>9. ProvisioningTypeOK'
  BY <1>0, <1>2, <1>7, <1>8 DEF ProvisioningTypeOK
<1>10. CallShape'
  <2> SUFFICES ASSUME NEW x \in TerraformRuns
               PROVE  CallShape!(x)'
    BY DEF CallShape
  <2>0. work'[x].alone \/ ~work'[x].alone
    OBVIOUS
  <2>1. CASE x = r
    BY <1>3, <1>6, <1>7, <2>1
  <2>2. CASE x # r
    <3>1. work[x].pc = "new" => work'[x].alone
      <4>1. ASSUME work[x].pc = "new" PROVE work'[x] = work[x]
        BY <1>2, <1>5, <2>2, <4>1 DEF Disturb
      <4> QED
        BY <1>0, <4>1 DEF CallShape
    <3> QED
      BY <1>0, <1>5, <1>7, <2>2, <3>1 DEF CallShape
  <2> QED
    BY <2>1, <2>2
<1>11. AloneShape'
  <2> SUFFICES ASSUME NEW x \in TerraformRuns, work'[x].alone
               PROVE  AloneShape!(x)!2'
    BY DEF AloneShape
  <2>1. CASE x = r
    <3>1. work[r].op = "provision" => plan.of = work[r].of
      BY <1>4 DEF Planned
    <3> QED
      BY <1>3, <1>6, <1>7, <1>8, <2>1, <3>1
  <2>2. CASE x # r
    <3>1. work[x].alone /\ moved[x] = work[x]
      BY <1>5, <1>7, <2>2
    <3>2. AloneShape!(x)!2
      BY <1>0, <3>1 DEF AloneShape
    <3>3. ASSUME work[x].op = "provision", work[x].pc = "apply"
          PROVE  workdir'.plan["provision.tfplan"] = workdir.plan["provision.tfplan"]
      <4>1. f # "provision.tfplan"
        BY <1>7, <2>2, <3>1, <3>3 DEF PlanFile
      <4> QED
        BY <1>8, <4>1 DEF AllFiles
    <3>4. /\ work'[x].pc = work[x].pc /\ work'[x].op = work[x].op
          /\ work'[x].of = work[x].of /\ work'[x].built = work[x].built
          /\ infra' = infra
      BY <1>2, <1>7, <3>1, ZenonT(40)
    <3> QED
      BY <3>2, <3>3, <3>4
  <2> QED
    BY <2>1, <2>2
<1>12. VaultFollowsCluster'
  <2>1. \A x \in TerraformRuns :
          /\ work[x].changed => work'[x].changed
          /\ ~work[x].alone => ~work'[x].alone
    BY <1>5, <1>6, <1>7
  <2> QED
    BY <1>0, <1>2, <2>1 DEF VaultFollowsCluster
<1> QED
  BY <1>9, <1>10, <1>11, <1>12 DEF PInv

\* An apply or a destroy that changes the cluster: a call that was about to use its
\* outputs is not alone, and the vault is behind until this call writes to it.
LEMMA ChangeStep ==
  ASSUME PInv, NEW r \in TerraformRuns, NEW version \in Versions, NEW pc,
         work[r].pc = "apply", Change(r, version, pc), pc \in {"output", "record", "failed"},
         pc = "output" =>
           /\ work[r].op # "destroy"
           /\ work[r].op = "provision" /\ work[r].alone => version = work[r].of,
         pc = "record" => work[r].op # "provision",
         UNCHANGED <<spec, workdir, secret>>
  PROVE  PInv'
<1>0. /\ ProvisioningTypeOK /\ CallShape /\ AloneShape /\ VaultFollowsCluster
      /\ work[r] \in Call
  BY DEF PInv, ProvisioningTypeOK
<1>1. CASE version = infra.of /\ version # Partial
  <2> DEFINE me == [work[r] EXCEPT !.pc = pc]
  <2>1. work' = [work EXCEPT ![r] = me] /\ UNCHANGED infra
    BY <1>0, <1>1 DEF Change, ProvisioningTypeOK, Call
  <2>2. /\ me \in Call /\ me.pc = pc /\ me.op = work[r].op /\ me.of = work[r].of
        /\ me.alone = work[r].alone /\ me.changed = work[r].changed
    BY <1>0 DEF Call
  <2> HIDE DEF me
  <2>3. ProvisioningTypeOK'
    BY <1>0, <2>1, <2>2 DEF ProvisioningTypeOK
  <2> QED
    BY <1>0, <1>1, <2>1, <2>2, <2>3, CallStep
<1>2. CASE ~(version = infra.of /\ version # Partial)
  <2> DEFINE me == [work[r] EXCEPT !.pc = pc, !.changed = TRUE]
             moved == [work EXCEPT ![r].pc = pc, ![r].changed = TRUE]
  <2>1. /\ infra' = [of |-> version, serial |-> infra.serial + 1]
        /\ work' = Disturb(r, moved, {"output", "vault"}, AllFiles)
    BY <1>2 DEF Change
  <2>2. /\ me \in Call /\ me.pc = pc /\ me.op = work[r].op /\ me.of = work[r].of
        /\ me.alone = work[r].alone /\ me.changed
    BY <1>0 DEF Call
  <2>3. moved = [work EXCEPT ![r] = me]
    BY <1>0 DEF ProvisioningTypeOK, Call
  <2> HIDE DEF me
  <2>4. /\ moved \in [TerraformRuns -> Call]
        /\ moved[r] = me
        /\ \A x \in TerraformRuns \ {r} : moved[x] = work[x]
    BY <1>0, <2>2, <2>3 DEF ProvisioningTypeOK
  <2> HIDE DEF moved
  <2>5. /\ work' \in [TerraformRuns -> Call]
        /\ work'[r] = me
        /\ \A x \in TerraformRuns :
             /\ work'[x].pc = moved[x].pc /\ work'[x].op = moved[x].op
             /\ work'[x].of = moved[x].of /\ work'[x].built = moved[x].built
             /\ work'[x].changed = moved[x].changed
             /\ work'[x].alone =>
                  /\ moved[x].alone
                  /\ x = r \/ moved[x].pc \notin {"output", "vault"}
                       \/ moved[x].op = "destroy" \/ PlanFile[moved[x].op] \notin AllFiles
    BY <2>1, <2>4, DisturbEffect
  <2>6. infra' \in [of : Versions, serial : Nat] /\ infra'.of = version
    BY <1>0, <2>1 DEF ProvisioningTypeOK
  <2>7. ProvisioningTypeOK'
    BY <1>0, <2>5, <2>6 DEF ProvisioningTypeOK
  <2>8. CallShape'
    <3> SUFFICES ASSUME NEW x \in TerraformRuns
                 PROVE  CallShape!(x)'
      BY DEF CallShape
    <3>1. CASE x = r
      BY <2>2, <2>5, <3>1
    <3>2. CASE x # r
      <4>1. ASSUME work[x].pc = "new" PROVE work'[x] = work[x]
        BY <2>1, <2>4, <3>2, <4>1 DEF Disturb
      <4> QED
        BY <1>0, <2>4, <2>5, <3>2, <4>1 DEF CallShape
    <3> QED
      BY <3>1, <3>2
  <2>9. AloneShape'
    <3> SUFFICES ASSUME NEW x \in TerraformRuns, work'[x].alone
                 PROVE  AloneShape!(x)!2'
      BY DEF AloneShape
    <3>1. CASE x = r
      BY <2>2, <2>5, <2>6, <3>1
    <3>2. CASE x # r
      <4>1. moved[x] = work[x] /\ work[x].alone /\ work[x].op \in Operations
        BY <1>0, <2>4, <2>5, <3>2 DEF ProvisioningTypeOK, Call
      <4>2. work[x].op # "destroy" => PlanFile[work[x].op] \in AllFiles
        BY <4>1 DEF Operations, PlanFile, AllFiles
      <4>3. work[x].pc \notin {"output", "vault"}
        BY <1>0, <2>5, <3>2, <4>1, <4>2 DEF CallShape
      <4> QED
        BY <1>0, <2>5, <4>1, <4>3 DEF AloneShape
    <3> QED
      BY <3>1, <3>2
  <2>10. VaultFollowsCluster'
    BY <2>2, <2>5 DEF VaultFollowsCluster
  <2> QED
    BY <2>7, <2>8, <2>9, <2>10 DEF PInv
<1> QED
  BY <1>1, <1>2

LEMMA NextPInv == PInv /\ [ProvisioningNext]_provisioningVars => PInv'
<1> SUFFICES ASSUME PInv, [ProvisioningNext]_provisioningVars PROVE PInv'
  OBVIOUS
<1>0. ProvisioningTypeOK /\ CallShape /\ AloneShape /\ VaultFollowsCluster
  BY DEF PInv
<1>1. CASE ChangeSpec
  <2>1. spec' \in Specs /\ UNCHANGED <<workdir, infra, secret, work>>
    BY <1>1 DEF ChangeSpec
  <2> QED
    BY <1>0, <2>1
    DEF PInv, ProvisioningTypeOK, CallShape, AloneShape, VaultFollowsCluster
<1>2. ASSUME NEW r \in TerraformRuns, BeginWork(r)
      PROVE  PInv'
  <2>1. /\ work[r].pc = "new" /\ ~work[r].changed /\ work[r].alone
        /\ UNCHANGED <<spec, infra, secret>>
    BY <1>0, <1>2 DEF BeginWork, CallShape
  <2>2. PICK op \in Operations :
          /\ work' = [work EXCEPT ![r] = [NewWork EXCEPT !.op = op, !.of = spec,
               !.pc = CASE op \in {"provision", "drift"} -> "init"
                        [] op = "plan" -> IF workdir.exists THEN "init" ELSE "failed"
                        [] op = "apply" -> IF workdir.plan["plan.tfplan"] # NoPlan
                                           THEN "apply" ELSE "failed"
                        [] op = "destroy" -> IF workdir.exists THEN "apply" ELSE "failed"]]
          /\ workdir' = IF op = "plan" /\ workdir.exists THEN [workdir EXCEPT !.vars = spec]
                        ELSE workdir
    BY <1>2 DEF BeginWork
  <2>3. PICK pc \in {"init", "apply", "failed"} :
          /\ work' = [work EXCEPT ![r] = [NewWork EXCEPT !.op = op, !.of = spec, !.pc = pc]]
          /\ pc = "init" => op \in Planners
          /\ pc = "apply" => op \in {"apply", "destroy"}
    BY <2>2 DEF Operations, Planners
  <2> DEFINE me == [NewWork EXCEPT !.op = op, !.of = spec, !.pc = pc]
  <2>4. /\ me \in Call /\ me.pc = pc /\ me.op = op /\ me.alone /\ ~me.changed
    BY <1>0 DEF NewWork, Call, Versions, ProvisioningTypeOK
  <2>5. work' = [work EXCEPT ![r] = me]
    BY <2>3
  <2> HIDE DEF me
  <2>6. /\ workdir'.plan = workdir.plan
        /\ workdir' \in [exists : BOOLEAN, vars : Specs \union {Nothing},
                         plan : [AllFiles -> [of : Versions, serial : Nat]]]
    BY <1>0, <2>2 DEF ProvisioningTypeOK
  <2>7. ProvisioningTypeOK'
    BY <1>0, <2>1, <2>4, <2>5, <2>6 DEF ProvisioningTypeOK
  <2> QED
    BY <2>1, <2>3, <2>4, <2>5, <2>6, <2>7, CallStep
\* The steps of a call that move on without touching the cluster or the vault.
<1>3. ASSUME NEW r \in TerraformRuns, NEW pc \in {"plan", "done", "failed"},
             work[r].pc # "new",
             pc = "plan" => work[r].op \in Planners,
             pc = "done" => work[r].pc = "record",
             work' = [work EXCEPT ![r].pc = pc],
             workdir' \in {workdir, [workdir EXCEPT !.exists = TRUE]},
             UNCHANGED <<spec, infra, secret>>
      PROVE  PInv'
  <2> DEFINE me == [work[r] EXCEPT !.pc = pc]
  <2>1. work[r] \in Call
    BY <1>0 DEF ProvisioningTypeOK
  <2>2. work' = [work EXCEPT ![r] = me]
    BY <1>0, <1>3 DEF ProvisioningTypeOK, Call
  <2>3. /\ me \in Call /\ me.pc = pc /\ me.op = work[r].op
        /\ me.alone = work[r].alone /\ me.changed = work[r].changed
    BY <2>1 DEF Call
  <2> HIDE DEF me
  <2>4. /\ workdir'.plan = workdir.plan
        /\ workdir' \in [exists : BOOLEAN, vars : Specs \union {Nothing},
                         plan : [AllFiles -> [of : Versions, serial : Nat]]]
    BY <1>0, <1>3 DEF ProvisioningTypeOK
  <2>5. ProvisioningTypeOK'
    BY <1>0, <1>3, <2>2, <2>3, <2>4 DEF ProvisioningTypeOK
  <2>6. work[r].pc = "record" => work[r].op # "provision"
    BY <1>0 DEF CallShape
  <2> QED
    BY <1>3, <2>2, <2>3, <2>4, <2>5, <2>6, CallStep
<1>4. ASSUME NEW r \in TerraformRuns, InitDir(r)
      PROVE  PInv'
  <2>1. work[r].pc = "init" /\ work[r].op \in Planners
    BY <1>0, <1>4 DEF InitDir, CallShape
  <2> QED
    BY <1>3, <1>4, <2>1 DEF InitDir
<1>5. ASSUME NEW r \in TerraformRuns, ApplyPlan(r)
      PROVE  PInv'
  <2> DEFINE p == workdir.plan[File(r)]
  <2>1. /\ work[r].pc = "apply" /\ work[r].op # "destroy" /\ work[r].op \in Operations
        /\ UNCHANGED <<spec, workdir, secret>>
    BY <1>0, <1>5 DEF ApplyPlan, ProvisioningTypeOK, Call
  <2>2. /\ File(r) \in AllFiles
        /\ work[r].op = "provision" => File(r) = "provision.tfplan"
    BY <2>1 DEF File, PlanFile, Operations, AllFiles
  <2>3. p.of \in Versions /\ Partial \in Versions
    BY <1>0, <2>2 DEF ProvisioningTypeOK, Versions
  <2>4. work[r].op = "provision" /\ work[r].alone => p.of = work[r].of
    BY <1>0, <2>1, <2>2 DEF AloneShape
  <2>5. \/ Refused(r) /\ UNCHANGED infra
        \/ Change(r, p.of, "output")
        \/ Change(r, Partial, "failed")
    BY <1>5 DEF ApplyPlan
  <2> HIDE DEF p
  <2>6. CASE Refused(r) /\ UNCHANGED infra
    BY <1>3, <2>1, <2>6 DEF Refused
  <2>7. CASE Change(r, p.of, "output")
    BY <2>1, <2>3, <2>4, <2>7, ChangeStep
  <2>8. CASE Change(r, Partial, "failed")
    BY <2>1, <2>3, <2>8, ChangeStep
  <2> QED
    BY <2>5, <2>6, <2>7, <2>8
<1>6. ASSUME NEW r \in TerraformRuns, DestroyAll(r)
      PROVE  PInv'
  <2>1. Nothing \in Versions /\ Partial \in Versions
    BY DEF Versions
  <2> QED
    BY <1>6, <2>1, ChangeStep DEF DestroyAll
<1>7. ASSUME NEW r \in TerraformRuns, ReadOutputs(r)
      PROVE  PInv'
  <2> DEFINE me == [work[r] EXCEPT !.pc = "vault", !.built = infra.of]
  <2>1. /\ work[r] \in Call /\ infra.of \in Versions /\ work[r].pc = "output"
        /\ UNCHANGED <<spec, workdir, infra, secret>>
    BY <1>0, <1>7 DEF ProvisioningTypeOK, ReadOutputs
  <2>2. work' = [work EXCEPT ![r] = me]
    BY <1>0, <1>7 DEF ReadOutputs, ProvisioningTypeOK, Call
  <2>3. /\ me \in Call /\ me.pc = "vault" /\ me.op = work[r].op /\ me.of = work[r].of
        /\ me.built = infra.of /\ me.alone = work[r].alone /\ me.changed = work[r].changed
    BY <2>1 DEF Call
  <2> HIDE DEF me
  <2>4. ProvisioningTypeOK'
    BY <1>0, <2>1, <2>2, <2>3 DEF ProvisioningTypeOK
  <2>5. /\ work[r].op # "destroy"
        /\ work[r].op = "provision" /\ work[r].alone => infra.of = work[r].of
    BY <1>0, <2>1 DEF CallShape, AloneShape
  <2> QED
    BY <2>1, <2>2, <2>3, <2>4, <2>5, CallStep
<1>8. ASSUME NEW r \in TerraformRuns, WriteSecret(r)
      PROVE  PInv'
  <2>1. /\ work[r] \in Call /\ work[r].pc = "vault"
        /\ secret' = work[r].built /\ UNCHANGED <<spec, workdir, infra>>
    BY <1>0, <1>8 DEF ProvisioningTypeOK, WriteSecret
  <2>2. PICK pc \in {"record", "done", "failed"} :
          /\ work' = [work EXCEPT ![r].changed = FALSE, ![r].pc = pc]
          /\ pc = "record" => work[r].op = "apply"
    BY <1>8 DEF WriteSecret
  <2> DEFINE me == [work[r] EXCEPT !.changed = FALSE, !.pc = pc]
  <2>3. work' = [work EXCEPT ![r] = me]
    BY <1>0, <2>2 DEF ProvisioningTypeOK, Call
  <2>4. /\ me \in Call /\ me.pc = pc /\ me.op = work[r].op /\ me.of = work[r].of
        /\ me.built = work[r].built /\ me.alone = work[r].alone
    BY <2>1 DEF Call
  <2> HIDE DEF me
  <2>5. work'[r] = me /\ \A x \in TerraformRuns \ {r} : work'[x] = work[x]
    BY <1>0, <2>3 DEF ProvisioningTypeOK
  <2>6. ProvisioningTypeOK'
    BY <1>0, <2>1, <2>3, <2>4 DEF ProvisioningTypeOK, Call
  <2>7. CallShape'
    BY <1>0, <2>2, <2>4, <2>5, ZenonT(40) DEF CallShape
  <2>8. AloneShape'
    BY <1>0, <2>1, <2>4, <2>5 DEF AloneShape
  <2>9. VaultFollowsCluster'
    <3>1. work[r].alone => secret' = infra'.of
      BY <1>0, <2>1 DEF AloneShape
    <3> QED
      BY <2>4, <2>5, <3>1 DEF VaultFollowsCluster
  <2> QED
    BY <2>6, <2>7, <2>8, <2>9 DEF PInv
<1>9. ASSUME NEW r \in TerraformRuns, SkipSecret(r)
      PROVE  PInv'
  <2>1. /\ work[r] \in Call /\ work[r].pc = "vault" /\ UNCHANGED <<spec, workdir, infra, secret>>
    BY <1>0, <1>9 DEF ProvisioningTypeOK, SkipSecret
  <2>2. PICK pc \in {"done", "failed"} : work' = [work EXCEPT ![r].pc = pc]
    BY <1>9 DEF SkipSecret
  <2> DEFINE me == [work[r] EXCEPT !.pc = pc]
  <2>3. work' = [work EXCEPT ![r] = me]
    BY <1>0, <2>2 DEF ProvisioningTypeOK, Call
  <2>4. /\ me \in Call /\ me.pc = pc /\ me.op = work[r].op /\ me.of = work[r].of
        /\ me.built = work[r].built /\ me.alone = work[r].alone
        /\ me.changed = work[r].changed
    BY <2>1 DEF Call
  <2> HIDE DEF me
  <2>5. ProvisioningTypeOK'
    BY <1>0, <2>1, <2>3, <2>4 DEF ProvisioningTypeOK, Call
  <2>6. work[r].op = "provision" /\ work[r].alone => work[r].built = work[r].of
    BY <1>0, <2>1 DEF AloneShape
  <2> QED
    BY <2>1, <2>2, <2>3, <2>4, <2>5, <2>6, CallStep
<1>10. ASSUME NEW r \in TerraformRuns, RecordWork(r) \/ FailWork(r)
       PROVE  PInv'
  BY <1>3, <1>10 DEF RecordWork, FailWork, Refused
<1>11. CASE UNCHANGED provisioningVars
  BY <1>0, <1>11
  DEF provisioningVars, PInv, ProvisioningTypeOK, CallShape, AloneShape, VaultFollowsCluster
<1> QED
  BY <1>1, <1>2, <1>4, <1>5, <1>6, <1>7, <1>8, <1>9, <1>10, <1>11, MakePlanStep
  DEF ProvisioningNext

\* The invariant of the Terraform calls holds in every state.
THEOREM ProvisioningInvariance == ProvisioningSpec => []PInv
<1> QED
  BY InitPInv, NextPInv, PTL DEF ProvisioningSpec

\* Every variable of the provisioning keeps its type.
THEOREM ProvisioningTyping == ProvisioningSpec => []ProvisioningTypeOK
<1>1. PInv => ProvisioningTypeOK
  BY DEF PInv
<1> QED
  BY <1>1, ProvisioningInvariance, PTL

\* A run that onboarding reports as provisioned, and that was alone, has built what
\* it was asked for, and the vault follows the cluster, whatever plans, half-done
\* applies and failed calls are left in the shared directory (run of
\* TerraformRunnerProvisionerAdapter, apply and destroy of ProvisioningService).
THEOREM Provisioned == ProvisioningSpec => []ProvisionedAsAsked
<1>1. PInv => ProvisionedAsAsked
  BY DEF PInv, AloneShape, ProvisionedAsAsked, BuiltAsPlanned
<1> QED
  BY <1>1, ProvisioningInvariance, PTL

--------------------------------------------------------------------------------
(* Exports *)

\* An export in every stage: how far its request and its task are, that what was
\* read is all that was there before the request committed, that a table has what
\* those read before it tell of, and that the file is what was read.
ExportOK(e) ==
  LET x == export[e]
  IN  /\ x.request = "new" => e \notin queue /\ x.task = "none"
      /\ e \in queue => x.task = "none"
      /\ x.row # "none" <=> x.request = "done"
      /\ x.row = "none" \/ x.task = "none" => x.table = 1 /\ x.got = {}
      /\ x.task \in {"reading", "stored"} => x.row = "QUEUED"
      /\ x.request = "sent" => e \in queue \/ x.mishap
      /\ x.row = "QUEUED" => e \in queue \/ x.task \in {"reading", "stored"} \/ x.mishap
      /\ x.since \subseteq facts
      /\ \A i \in 1 .. x.table - 1 : RowsOf(Tables[i], x.since) \subseteq x.got
      /\ \A r \in x.got : r[2] \in facts
      /\ \A f \in Facts, i, j \in 1 .. x.table - 1 :
           i < j /\ Tables[j] \in {"audit", TableOf[f]} /\ <<Tables[i], f>> \in x.got
           => <<Tables[j], f>> \in x.got
      /\ x.task = "stored" \/ x.row = "COMPLETED" =>
           /\ e \in DOMAIN files /\ files[e] = x.got
           /\ x.table = Len(Tables) + 1
      /\ x.row = "COMPLETED" => x.task = "ended"

XInv == ExportsTypeOK /\ \A e \in Bundles : ExportOK(e)

LEMMA InitXInv == ExportsInit => XInv
<1> SUFFICES ASSUME ExportsInit PROVE XInv
  OBVIOUS
<1>1. Len(Tables) \in Nat
  BY TablesAssumption
<1>2. NewExport \in Export
  BY <1>1 DEF NewExport, Export
<1>3. ExportsTypeOK
  BY <1>2 DEF ExportsInit, ExportsTypeOK
<1>4. ASSUME NEW e \in Bundles PROVE ExportOK(e)
  BY DEF ExportsInit, ExportOK, NewExport
<1> QED
  BY <1>3, <1>4 DEF XInv

\* A step about one export leaves the others in order: facts are only added.
LEMMA OtherExport ==
  ASSUME NEW e, ExportOK(e), export'[e] = export[e], facts \subseteq facts',
         e \in queue' <=> e \in queue,
         e \in DOMAIN files => e \in DOMAIN files' /\ files'[e] = files[e]
  PROVE  ExportOK(e)'
BY DEF ExportOK

LEMMA OneExport ==
  ASSUME XInv, NEW e \in Bundles, NEW x \in Export, export' = [export EXCEPT ![e] = x],
         facts' = facts, queue' \in {queue, queue \union {e}, queue \ {e}},
         files' = files \/ files' =
           [y \in DOMAIN files \union {e} |-> IF y = e THEN x.got ELSE files[y]],
         ExportOK(e)'
  PROVE  XInv'
<1>1. ExportsTypeOK /\ \A d \in Bundles : ExportOK(d)
  BY DEF XInv
<1>2. ExportsTypeOK'
  <2>1. export' \in [Bundles -> Export] /\ facts' \subseteq Facts /\ queue' \subseteq Bundles
    BY <1>1 DEF ExportsTypeOK
  <2>2. DOMAIN files' \subseteq Bundles /\ files' \in [DOMAIN files' -> SUBSET Rows]
    <3>1. x.got \in SUBSET Rows
      BY DEF Export
    <3> QED
      BY <1>1, <3>1 DEF ExportsTypeOK
  <2> QED
    BY <2>1, <2>2 DEF ExportsTypeOK
<1>3. ASSUME NEW d \in Bundles \ {e} PROVE ExportOK(d)'
  <2>1. /\ ExportOK(d) /\ export'[d] = export[d] /\ (d \in queue' <=> d \in queue)
        /\ d \in DOMAIN files => d \in DOMAIN files' /\ files'[d] = files[d]
    BY <1>1 DEF ExportsTypeOK
  <2> QED
    BY <2>1, OtherExport
<1> QED
  BY <1>2, <1>3 DEF XInv

\* The next table is read as it is committed now; what was read before may be older,
\* so this table has all that the others tell of.
LEMMA ReadTableStep ==
  ASSUME XInv, NEW e \in Bundles, ReadTable(e)
  PROVE  XInv'
<1> DEFINE n == export[e].table
           new == RowsOf(Tables[n], facts)
           x == [export[e] EXCEPT !.table = n + 1, !.got = @ \union new]
<1>1. /\ ExportsTypeOK /\ ExportOK(e) /\ export[e] \in Export
      /\ export[e].task = "reading" /\ n \in DOMAIN Tables
      /\ UNCHANGED <<facts, queue, files>>
  BY DEF XInv, ReadTable, ExportsTypeOK
<1>2. export' = [export EXCEPT ![e] = x]
  BY <1>1 DEF ReadTable, ExportsTypeOK, Export
<1>3. /\ n \in 1 .. Len(Tables) /\ Len(Tables) \in Nat
      /\ n + 1 \in 1 .. Len(Tables) + 1
  BY <1>1, TablesAssumption
<1>4. new \subseteq Rows
  BY <1>1 DEF new, RowsOf, Rows, ExportsTypeOK
<1>5. /\ x \in Export
      /\ x.table = n + 1 /\ x.got = export[e].got \union new
      /\ x.request = export[e].request /\ x.row = export[e].row
      /\ x.task = "reading" /\ x.since = export[e].since /\ x.mishap = export[e].mishap
  BY <1>1, <1>3, <1>4 DEF Export
<1> HIDE DEF x
<1>6. export'[e] = x
  BY <1>1, <1>2 DEF ExportsTypeOK
<1>7. /\ x.row = "QUEUED" /\ x.since \subseteq facts /\ e \notin queue
      /\ x.request = "done"
  BY <1>1, <1>5 DEF ExportOK
<1>8. \A i \in 1 .. x.table - 1 : RowsOf(Tables[i], x.since) \subseteq x.got
  <2>1. RowsOf(Tables[n], x.since) \subseteq new
    BY <1>7 DEF RowsOf
  <2>2. \A i \in 1 .. n - 1 : RowsOf(Tables[i], x.since) \subseteq export[e].got
    BY <1>1, <1>5 DEF ExportOK
  <2>3. \A i \in 1 .. x.table - 1 : i = n \/ i \in 1 .. n - 1
    BY <1>3, <1>5
  <2> QED
    BY <1>5, <2>1, <2>2, <2>3
<1>9. \A r \in x.got : r[2] \in facts
  <2>1. \A r \in new : r[2] \in facts
    BY DEF RowsOf
  <2>2. \A r \in export[e].got : r[2] \in facts
    BY <1>1 DEF ExportOK
  <2> QED
    BY <1>5, <2>1, <2>2
<1>10. ASSUME NEW f \in Facts, NEW i \in 1 .. x.table - 1, NEW j \in 1 .. x.table - 1,
              i < j, Tables[j] \in {"audit", TableOf[f]}, <<Tables[i], f>> \in x.got
       PROVE  <<Tables[j], f>> \in x.got
  <2>1. i \in 1 .. n - 1 /\ i \in DOMAIN Tables /\ (j = n \/ j \in 1 .. n - 1)
    BY <1>3, <1>5, <1>10
  <2>2. Tables[i] # Tables[n]
    BY <1>1, <1>3, <2>1, TablesAssumption
  <2>3. <<Tables[i], f>> \in export[e].got
    BY <1>5, <1>10, <2>2 DEF RowsOf
  <2>4. CASE j = n
    <3>1. f \in facts
      BY <1>5, <1>9, <2>3
    <3>2. <<Tables[n], f>> \in new
      BY <1>10, <2>4, <3>1 DEF RowsOf
    <3> QED
      BY <1>5, <2>4, <3>2
  <2>5. CASE j \in 1 .. n - 1
    <3>1. <<Tables[j], f>> \in export[e].got
      BY <1>1, <1>10, <2>1, <2>3, <2>5 DEF ExportOK
    <3> QED
      BY <1>5, <3>1
  <2> QED
    BY <2>1, <2>4, <2>5
<1>11. ExportOK(e)'
  BY <1>1, <1>5, <1>6, <1>7, <1>8, <1>9, <1>10 DEF ExportOK
<1> QED
  BY <1>1, <1>2, <1>5, <1>11, OneExport

LEMMA NextXInv == XInv /\ [ExportsNext]_exportVars => XInv'
<1> SUFFICES ASSUME XInv, [ExportsNext]_exportVars PROVE XInv'
  OBVIOUS
<1>0. ExportsTypeOK /\ \A e \in Bundles : ExportOK(e)
  BY DEF XInv
<1>1. ASSUME NEW e \in Bundles, SendExport(e)
      PROVE  XInv'
  <2> DEFINE x == [export[e] EXCEPT !.request = "sent"]
  <2>1. /\ export[e] \in Export /\ ExportOK(e)
        /\ export[e].request = "new" /\ queue' = queue \union {e}
        /\ UNCHANGED <<facts, files>>
    BY <1>0, <1>1 DEF SendExport, ExportsTypeOK
  <2>2. export' = [export EXCEPT ![e] = x]
    BY <1>0, <1>1 DEF SendExport, ExportsTypeOK, Export
  <2>3. x \in Export
    BY <2>1 DEF Export
  <2>4. export'[e] = x
    BY <1>0, <2>2 DEF ExportsTypeOK
  <2>5. ExportOK(e)'
    BY <2>1, <2>4 DEF ExportOK, Export
  <2> HIDE DEF x
  <2> QED
    BY <2>1, <2>2, <2>3, <2>5, OneExport
<1>2. ASSUME NEW e \in Bundles, CommitExport(e)
      PROVE  XInv'
  <2> DEFINE x == [export[e] EXCEPT !.request = "done", !.row = "QUEUED", !.since = facts]
  <2>1. /\ export[e] \in Export /\ ExportOK(e) /\ facts \subseteq Facts
        /\ export[e].request = "sent"
        /\ UNCHANGED <<facts, queue, files>>
    BY <1>0, <1>2 DEF CommitExport, ExportsTypeOK
  <2>2. export' = [export EXCEPT ![e] = x]
    BY <1>0, <1>2 DEF CommitExport, ExportsTypeOK, Export
  <2>3. x \in Export
    BY <2>1 DEF Export
  <2>4. export'[e] = x
    BY <1>0, <2>2 DEF ExportsTypeOK
  <2>5. /\ export[e].row = "none" /\ export[e].table = 1 /\ export[e].got = {}
        /\ e \in queue \/ export[e].mishap
        /\ export[e].task \notin {"reading", "stored"}
    BY <2>1 DEF ExportOK
  <2>6. ExportOK(e)'
    BY <2>1, <2>4, <2>5 DEF ExportOK, Export
  <2> HIDE DEF x
  <2> QED
    BY <2>1, <2>2, <2>3, <2>6, OneExport
<1>3. ASSUME NEW e \in Bundles, LoseExport(e)
      PROVE  XInv'
  <2> DEFINE x == [export[e] EXCEPT !.request = "failed"]
  <2>1. /\ export[e] \in Export /\ ExportOK(e)
        /\ export[e].request = "sent"
        /\ UNCHANGED <<facts, queue, files>>
    BY <1>0, <1>3 DEF LoseExport, ExportsTypeOK
  <2>2. export' = [export EXCEPT ![e] = x]
    BY <1>0, <1>3 DEF LoseExport, ExportsTypeOK, Export
  <2>3. x \in Export
    BY <2>1 DEF Export
  <2>4. export'[e] = x
    BY <1>0, <2>2 DEF ExportsTypeOK
  <2>5. ExportOK(e)'
    BY <2>1, <2>4 DEF ExportOK, Export
  <2> HIDE DEF x
  <2> QED
    BY <2>1, <2>2, <2>3, <2>5, OneExport
<1>4. ASSUME NEW e \in Bundles, TakeExport(e)
      PROVE  XInv'
  <2>1. /\ export[e] \in Export /\ ExportOK(e)
        /\ e \in queue /\ queue' = queue \ {e}
        /\ UNCHANGED <<facts, files>>
    BY <1>0, <1>4 DEF TakeExport, ExportsTypeOK
  <2>2. CASE export[e].row = "none"
    <3> DEFINE x == [export[e] EXCEPT !.task = "ended", !.mishap = TRUE]
    <3>1. export' = [export EXCEPT ![e] = x]
      BY <1>0, <1>4, <2>2 DEF TakeExport, ExportsTypeOK, Export
    <3>2. x \in Export
      BY <2>1 DEF Export
    <3>3. export'[e] = x
      BY <1>0, <3>1 DEF ExportsTypeOK
    <3>4. ExportOK(e)'
      BY <2>1, <2>2, <3>3 DEF ExportOK, Export
    <3> HIDE DEF x
    <3> QED
      BY <2>1, <3>1, <3>2, <3>4, OneExport
  <2>3. CASE export[e].row # "none"
    <3> DEFINE x == [export[e] EXCEPT !.task = "reading"]
    <3>1. export' = [export EXCEPT ![e] = x]
      BY <1>0, <1>4, <2>3 DEF TakeExport, ExportsTypeOK, Export
    <3>2. x \in Export
      BY <2>1 DEF Export
    <3>3. export'[e] = x
      BY <1>0, <3>1 DEF ExportsTypeOK
    <3>4. ExportOK(e)'
      BY <2>1, <2>3, <3>3 DEF ExportOK, Export
    <3> HIDE DEF x
    <3> QED
      BY <2>1, <3>1, <3>2, <3>4, OneExport
  <2> QED
    BY <2>2, <2>3
<1>5. ASSUME NEW e \in Bundles, StoreBundle(e)
      PROVE  XInv'
  <2> DEFINE x == [export[e] EXCEPT !.task = "stored"]
  <2>1. /\ export[e] \in Export /\ ExportOK(e)
        /\ export[e].task = "reading" /\ export[e].table = Len(Tables) + 1
        /\ files' = [y \in DOMAIN files \union {e} |->
                       IF y = e THEN export[e].got ELSE files[y]]
        /\ UNCHANGED <<facts, queue>>
    BY <1>0, <1>5 DEF StoreBundle, ExportsTypeOK
  <2>2. export' = [export EXCEPT ![e] = x]
    BY <1>0, <1>5 DEF StoreBundle, ExportsTypeOK, Export
  <2>3. x \in Export /\ x.got = export[e].got
    BY <2>1 DEF Export
  <2>4. export'[e] = x
    BY <1>0, <2>2 DEF ExportsTypeOK
  <2>5. e \in DOMAIN files' /\ files'[e] = export[e].got
    BY <2>1
  <2>6. ExportOK(e)'
    BY <2>1, <2>4, <2>5 DEF ExportOK, Export
  <2> HIDE DEF x
  <2> QED
    BY <2>1, <2>2, <2>3, <2>6, OneExport
<1>6. ASSUME NEW e \in Bundles, CommitBundle(e)
      PROVE  XInv'
  <2> DEFINE x == [export[e] EXCEPT !.task = "ended", !.row = "COMPLETED"]
  <2>1. /\ export[e] \in Export /\ ExportOK(e)
        /\ export[e].task = "stored"
        /\ UNCHANGED <<facts, queue, files>>
    BY <1>0, <1>6 DEF CommitBundle, ExportsTypeOK
  <2>2. export' = [export EXCEPT ![e] = x]
    BY <1>0, <1>6 DEF CommitBundle, ExportsTypeOK, Export
  <2>3. x \in Export
    BY <2>1 DEF Export
  <2>4. export'[e] = x
    BY <1>0, <2>2 DEF ExportsTypeOK
  <2>5. ExportOK(e)'
    BY <2>1, <2>4 DEF ExportOK, Export
  <2> HIDE DEF x
  <2> QED
    BY <2>1, <2>2, <2>3, <2>5, OneExport
<1>7. ASSUME NEW e \in Bundles, FailExport(e)
      PROVE  XInv'
  <2> DEFINE x == [export[e] EXCEPT !.task = "ended", !.mishap = TRUE]
  <2>1. /\ export[e] \in Export /\ ExportOK(e)
        /\ export[e].task \in {"reading", "stored"}
        /\ UNCHANGED <<facts, queue, files>>
    BY <1>0, <1>7 DEF FailExport, ExportsTypeOK
  <2>2. export' = [export EXCEPT ![e] = x]
    BY <1>0, <1>7 DEF FailExport, ExportsTypeOK, Export
  <2>3. x \in Export
    BY <2>1 DEF Export
  <2>4. export'[e] = x
    BY <1>0, <2>2 DEF ExportsTypeOK
  <2>5. ExportOK(e)'
    BY <2>1, <2>4 DEF ExportOK, Export
  <2> HIDE DEF x
  <2> QED
    BY <2>1, <2>2, <2>3, <2>5, OneExport
<1>8. CASE (\E f \in Facts : RecordFact(f)) \/ UNCHANGED exportVars
  <2>1. /\ facts \subseteq facts' /\ facts' \subseteq Facts
        /\ UNCHANGED <<export, queue, files>>
    BY <1>0, <1>8 DEF RecordFact, exportVars, ExportsTypeOK
  <2>2. ExportsTypeOK'
    BY <1>0, <2>1 DEF ExportsTypeOK
  <2>3. ASSUME NEW e \in Bundles PROVE ExportOK(e)'
    BY <1>0, <2>1, OtherExport
  <2> QED
    BY <2>2, <2>3 DEF XInv
<1> QED
  BY <1>1, <1>2, <1>3, <1>4, <1>5, <1>6, <1>7, <1>8, ReadTableStep DEF ExportsNext

\* The invariant of the exports holds in every state.
THEOREM ExportsInvariance == ExportsSpec => []XInv
<1> QED
  BY InitXInv, NextXInv, PTL DEF ExportsSpec

\* Every variable of the exports keeps its type.
THEOREM ExportsTyping == ExportsSpec => []ExportsTypeOK
<1>1. XInv => ExportsTypeOK
  BY DEF XInv
<1> QED
  BY <1>1, ExportsInvariance, PTL

\* A bundle that was read table by table while other requests committed is complete
\* up to its request, and each of its tables has what those read before it tell of:
\* the audit trail every change the tenant's row shows, and the other tables every
\* row the audit trail tells of (export_existing of the bundler).
THEOREM BundlesHold == ExportsSpec => []BundleHoldsTogether
<1>1. ASSUME XInv PROVE BundleHoldsTogether
  <2> SUFFICES ASSUME NEW e \in Bundles, export[e].row = "COMPLETED"
               PROVE  BundleHoldsTogether!(e)!2
    BY DEF BundleHoldsTogether
  <2>1. /\ e \in DOMAIN files /\ Download(e) = export[e].got
        /\ export[e].table = Len(Tables) + 1
        /\ export[e].since \subseteq Facts
    BY <1>1 DEF XInv, ExportOK, Download, ExportsTypeOK, Export
  <2>2. Len(Tables) \in Nat
    BY TablesAssumption
  <2>3. ASSUME NEW f \in export[e].since
        PROVE  <<"audit", f>> \in Download(e) /\ <<TableOf[f], f>> \in Download(e)
    <3>1. PICK i \in DOMAIN Tables : Tables[i] = "audit"
      BY TablesAssumption
    <3>2. PICK j \in DOMAIN Tables : Tables[j] = TableOf[f]
      BY <2>1, TablesAssumption
    <3>3. i \in 1 .. export[e].table - 1 /\ j \in 1 .. export[e].table - 1
      BY <2>1, <2>2, TablesAssumption
    <3>4. /\ RowsOf(Tables[i], export[e].since) \subseteq export[e].got
          /\ RowsOf(Tables[j], export[e].since) \subseteq export[e].got
      BY <1>1, <3>3 DEF XInv, ExportOK
    <3> QED
      BY <2>1, <3>1, <3>2, <3>4 DEF RowsOf
  <2>4. ASSUME NEW f \in Facts, NEW i \in DOMAIN Tables, NEW j \in DOMAIN Tables,
               i < j, Tables[j] \in {"audit", TableOf[f]}, <<Tables[i], f>> \in Download(e)
        PROVE  <<Tables[j], f>> \in Download(e)
    <3>1. i \in 1 .. export[e].table - 1 /\ j \in 1 .. export[e].table - 1
      BY <2>1, <2>2, TablesAssumption
    <3>2. ExportOK(e)
      BY <1>1 DEF XInv
    <3> QED
      BY <2>1, <2>4, <3>1, <3>2 DEF ExportOK
  <2> QED
    BY <2>1, <2>3, <2>4
<1> QED
  BY <1>1, ExportsInvariance, PTL

\* An export that is QUEUED has its task in the queue or at work, or met a mishap.
THEOREM QueuedHasATask == ExportsSpec => []QueuedIsUnderWay
<1>1. XInv => QueuedIsUnderWay
  BY DEF XInv, ExportOK, QueuedIsUnderWay
<1> QED
  BY <1>1, ExportsInvariance, PTL

--------------------------------------------------------------------------------
(* Drift runs *)

\* A row that a run is through with: it has a status, and unless that is ERROR its
\* artifact is in the store.
Complete(x, s) ==
  /\ x.status # "RUNNING"
  /\ x.status # "ERROR" => x.report /\ <<s, x.detector>> \in reports

\* A run in every stage: one row per detector it came to, in their order, complete
\* but for the one it is at.
SweepOK(s) ==
  LET x == sweep[s]
  IN  /\ x.pc # "new" <=> \E i \in 1 .. Len(stamps) : stamps[i] = s
      /\ x.pc \in {"detect", "put", "update"} =>
           x.at \in 1 .. Len(Detectors) /\ Len(x.rows) = x.at
      /\ x.pc \in {"new", "row", "done"} => Len(x.rows) = x.at - 1
      /\ x.pc = "done" => x.at = Len(Detectors) + 1
      /\ x.pc = "put" => x.rows[x.at].status # "RUNNING"
      /\ \A i \in 1 .. Len(x.rows) : x.pc # "lost" =>
           /\ x.rows[i].detector = Detectors[i]
           /\ i < x.at \/ x.pc = "update" => Complete(x.rows[i], s)

StampsOnce == \A i, j \in 1 .. Len(stamps) : stamps[i] = stamps[j] => i = j

RowOf(s, i) ==
  [sweep |-> s, detector |-> sweep[s].rows[i].detector,
   status |-> sweep[s].rows[i].status, report |-> sweep[s].rows[i].report]

\* The rows committed are all rows of the runs that are done, and no others.
HistoryIsOfDone ==
  /\ \A s \in Sweeps : sweep[s].pc = "done" =>
       \A i \in 1 .. Len(Detectors) : RowOf(s, i) \in history
  /\ \A r \in history : sweep[r.sweep].pc = "done" /\
       \E i \in 1 .. Len(Detectors) : r = RowOf(r.sweep, i)

DInv ==
  /\ DriftTypeOK /\ StampsOnce /\ HistoryIsOfDone
  /\ \A s \in Sweeps : SweepOK(s)

LEMMA InitDInv == DriftInit => DInv
<1> SUFFICES ASSUME DriftInit PROVE DInv
  OBVIOUS
<1>1. Len(Detectors) \in Nat
  BY DetectorsAssumption
<1>2. NewSweep \in Sweep /\ NewSweep.rows = <<>> /\ NewSweep.at = 1 /\ NewSweep.pc = "new"
  BY <1>1 DEF NewSweep, Sweep
<1>3. /\ \A s \in Sweeps : sweep[s] = NewSweep
      /\ history = {} /\ stamps = <<>> /\ reports = {}
  BY DEF DriftInit
<1>4. DriftTypeOK
  BY <1>2 DEF DriftInit, DriftTypeOK
<1>5. ASSUME NEW s \in Sweeps PROVE SweepOK(s)
  BY <1>2, <1>3 DEF SweepOK
<1>6. StampsOnce /\ HistoryIsOfDone
  BY <1>2, <1>3 DEF StampsOnce, HistoryIsOfDone
<1> QED
  BY <1>4, <1>5, <1>6 DEF DInv

\* What another run does, and more artifacts, leave this one as it is.
LEMMA OtherSweep ==
  ASSUME NEW o \in Sweeps, SweepOK(o), sweep'[o] = sweep[o], reports \subseteq reports',
         (\E i \in 1 .. Len(stamps') : stamps'[i] = o) <=>
           (\E i \in 1 .. Len(stamps) : stamps[i] = o)
  PROVE  SweepOK(o)'
BY DEF SweepOK, Complete

\* A step of a run that is under way and commits nothing: artifacts may be added.
LEMMA OneSweep ==
  ASSUME DInv, NEW s \in Sweeps, NEW x \in Sweep, sweep' = [sweep EXCEPT ![s] = x],
         sweep[s].pc \notin {"new", "done"}, x.pc # "done",
         UNCHANGED <<history, stamps>>,
         reports \subseteq reports', reports' \subseteq Sweeps \X STRING,
         SweepOK(s)'
  PROVE  DInv'
<1>1. DriftTypeOK /\ StampsOnce /\ HistoryIsOfDone /\ \A o \in Sweeps : SweepOK(o)
  BY DEF DInv
<1>2. sweep'[s] = x /\ \A o \in Sweeps \ {s} : sweep'[o] = sweep[o]
  BY <1>1 DEF DriftTypeOK
<1>3. DriftTypeOK'
  BY <1>1 DEF DriftTypeOK
<1>4. ASSUME NEW o \in Sweeps \ {s} PROVE SweepOK(o)'
  BY <1>1, <1>2, OtherSweep
<1>5. StampsOnce'
  BY <1>1 DEF StampsOnce
<1>6. HistoryIsOfDone'
  <2>1. \A r \in history : r.sweep \in Sweeps
    BY <1>1 DEF DriftTypeOK
  <2>2. \A o \in Sweeps : sweep'[o].pc = "done" \/ sweep[o].pc = "done" => o # s
    BY <1>2
  <2> QED
    BY <1>1, <1>2, <2>1, <2>2 DEF HistoryIsOfDone, RowOf
<1> QED
  BY <1>3, <1>4, <1>5, <1>6 DEF DInv

LEMMA BeginSweepStep ==
  ASSUME DInv, NEW s \in Sweeps, BeginSweep(s)
  PROVE  DInv'
<1> DEFINE x == [sweep[s] EXCEPT !.pc = "row"]
<1>1. /\ DriftTypeOK /\ StampsOnce /\ HistoryIsOfDone /\ \A o \in Sweeps : SweepOK(o)
      /\ sweep[s] \in Sweep /\ sweep[s].pc = "new" /\ stamps' = Append(stamps, s)
      /\ UNCHANGED <<history, reports>>
  BY DEF DInv, BeginSweep, DriftTypeOK
<1>2. sweep' = [sweep EXCEPT ![s] = x]
  BY <1>1 DEF BeginSweep, DriftTypeOK, Sweep
<1>3. /\ x \in Sweep /\ x.pc = "row" /\ x.at = sweep[s].at /\ x.rows = sweep[s].rows
  BY <1>1 DEF Sweep
<1> HIDE DEF x
<1>4. sweep'[s] = x /\ \A o \in Sweeps \ {s} : sweep'[o] = sweep[o]
  BY <1>1, <1>2 DEF DriftTypeOK
<1>5. /\ stamps \in Seq(Sweeps) /\ Len(stamps) \in Nat
      /\ stamps' \in Seq(Sweeps) /\ Len(stamps') = Len(stamps) + 1
      /\ stamps'[Len(stamps) + 1] = s
      /\ \A i \in 1 .. Len(stamps) : stamps'[i] = stamps[i]
  BY <1>1 DEF DriftTypeOK
<1>6. DriftTypeOK'
  BY <1>1, <1>2, <1>3, <1>5 DEF DriftTypeOK
<1>7. \A i \in 1 .. Len(stamps) : stamps[i] # s
  BY <1>1 DEF SweepOK
<1>8. StampsOnce'
  <2>1. \A i \in 1 .. Len(stamps') : i \in 1 .. Len(stamps) \/ i = Len(stamps) + 1
    BY <1>5
  <2> QED
    BY <1>1, <1>5, <1>7, <2>1 DEF StampsOnce
<1>9. ASSUME NEW o \in Sweeps PROVE SweepOK(o)'
  <2>1. (\E i \in 1 .. Len(stamps') : stamps'[i] = o) <=>
          o = s \/ \E i \in 1 .. Len(stamps) : stamps[i] = o
    BY <1>5
  <2>2. CASE o = s
    <3>1. SweepOK(s) /\ sweep'[s].pc = "row" /\ sweep'[s].at = sweep[s].at
          /\ sweep'[s].rows = sweep[s].rows /\ reports' = reports
          /\ \E i \in 1 .. Len(stamps') : stamps'[i] = s
      BY <1>1, <1>3, <1>4, <2>1, <2>2
    <3>2. SweepOK(s)'
      BY <1>1, <3>1 DEF SweepOK, Complete
    <3> QED
      BY <2>2, <3>2
  <2>3. CASE o # s
    BY <1>1, <1>4, <2>1, <2>3, OtherSweep
  <2> QED
    BY <2>2, <2>3
<1>10. HistoryIsOfDone'
  <2>1. \A r \in history : r.sweep \in Sweeps
    BY <1>1 DEF DriftTypeOK
  <2>2. \A o \in Sweeps : sweep'[o].pc = "done" \/ sweep[o].pc = "done" => o # s
    BY <1>1, <1>3, <1>4
  <2> QED
    BY <1>1, <1>4, <2>1, <2>2 DEF HistoryIsOfDone, RowOf
<1> QED
  BY <1>6, <1>8, <1>9, <1>10 DEF DInv

\* All rows of the run commit at once.
LEMMA CommitSweepStep ==
  ASSUME DInv, NEW s \in Sweeps, CommitSweep(s)
  PROVE  DInv'
<1> DEFINE x == [sweep[s] EXCEPT !.pc = "done"]
           mine == {RowOf(s, i) : i \in DOMAIN sweep[s].rows}
<1>1. /\ DriftTypeOK /\ StampsOnce /\ HistoryIsOfDone /\ \A o \in Sweeps : SweepOK(o)
      /\ sweep[s] \in Sweep /\ sweep[s].pc = "row" /\ sweep[s].at > Len(Detectors)
      /\ UNCHANGED <<stamps, reports>>
  BY DEF DInv, CommitSweep, DriftTypeOK
<1>2. /\ sweep' = [sweep EXCEPT ![s] = x]
      /\ history' = history \union mine
  BY <1>1 DEF CommitSweep, DriftTypeOK, Sweep, RowOf
<1>3. x \in Sweep /\ x.pc = "done" /\ x.at = sweep[s].at /\ x.rows = sweep[s].rows
  BY <1>1 DEF Sweep
<1> HIDE DEF x
<1>4. sweep'[s] = x /\ \A o \in Sweeps \ {s} : sweep'[o] = sweep[o]
  BY <1>1, <1>2 DEF DriftTypeOK
<1>5. /\ Len(Detectors) \in Nat /\ sweep[s].at = Len(Detectors) + 1
      /\ sweep[s].rows \in Seq(Row)
      /\ Len(sweep[s].rows) = Len(Detectors)
      /\ DOMAIN sweep[s].rows = 1 .. Len(Detectors)
  BY <1>1, DetectorsAssumption DEF SweepOK, Sweep
<1>6. ASSUME NEW i \in 1 .. Len(Detectors)
      PROVE  RowOf(s, i) \in [sweep : Sweeps, detector : STRING, status : Statuses,
                              report : BOOLEAN]
  <2>1. sweep[s].rows[i] \in Row
    BY <1>5
  <2> QED
    BY <2>1 DEF RowOf, Row
<1>7. DriftTypeOK'
  BY <1>1, <1>2, <1>3, <1>5, <1>6 DEF DriftTypeOK
<1>8. ASSUME NEW o \in Sweeps PROVE SweepOK(o)'
  <2>1. CASE o = s
    <3>1. /\ SweepOK(s) /\ sweep[s].pc = "row" /\ sweep[s].at = Len(Detectors) + 1
          /\ Len(sweep[s].rows) = Len(Detectors) /\ Len(Detectors) \in Nat
          /\ sweep'[s].pc = "done" /\ sweep'[s].at = sweep[s].at
          /\ sweep'[s].rows = sweep[s].rows /\ reports' = reports /\ stamps' = stamps
      BY <1>1, <1>3, <1>4, <1>5
    <3>2. SweepOK(s)'
      BY <3>1 DEF SweepOK, Complete
    <3> QED
      BY <2>1, <3>2
  <2>2. CASE o # s
    BY <1>1, <1>4, <2>2, OtherSweep
  <2> QED
    BY <2>1, <2>2
<1>9. \A o \in Sweeps, i \in 1 .. Len(Detectors) : RowOf(o, i)' = RowOf(o, i)
  BY <1>3, <1>4 DEF RowOf
<1>10. HistoryIsOfDone'
  <2>1. ASSUME NEW o \in Sweeps, sweep'[o].pc = "done", NEW i \in 1 .. Len(Detectors)
        PROVE  RowOf(o, i)' \in history'
    <3>1. RowOf(o, i) \in history \union mine
      BY <1>1, <1>4, <1>5, <2>1 DEF HistoryIsOfDone
    <3> QED
      BY <1>2, <1>9, <3>1
  <2>2. ASSUME NEW r \in history'
        PROVE  /\ sweep'[r.sweep].pc = "done"
               /\ \E i \in 1 .. Len(Detectors) : r = RowOf(r.sweep, i)'
    <3>1. CASE r \in history
      <4>1. r.sweep \in Sweeps /\ sweep[r.sweep].pc = "done" /\ r.sweep # s
        BY <1>1, <3>1 DEF HistoryIsOfDone, DriftTypeOK
      <4>2. PICK i \in 1 .. Len(Detectors) : r = RowOf(r.sweep, i)
        BY <1>1, <3>1 DEF HistoryIsOfDone
      <4> QED
        BY <1>4, <1>9, <4>1, <4>2
    <3>2. CASE r \in mine
      <4>1. PICK i \in 1 .. Len(Detectors) : r = RowOf(s, i)
        BY <1>5, <3>2
      <4>2. r.sweep = s
        BY <4>1 DEF RowOf
      <4> QED
        BY <1>3, <1>4, <1>9, <4>1, <4>2
    <3> QED
      BY <1>2, <2>2, <3>1, <3>2
  <2> QED
    BY <2>1, <2>2 DEF HistoryIsOfDone
<1>11. StampsOnce'
  BY <1>1 DEF StampsOnce
<1> QED
  BY <1>7, <1>8, <1>10, <1>11 DEF DInv

\* The next detector's row, RUNNING until the detector has answered.
LEMMA CreateRunStep ==
  ASSUME DInv, NEW s \in Sweeps, CreateRun(s)
  PROVE  DInv'
<1>1. /\ DriftTypeOK /\ SweepOK(s) /\ sweep[s] \in Sweep /\ sweep[s].pc = "row"
      /\ sweep[s].at \in 1 .. Len(Detectors) /\ Len(Detectors) \in Nat
      /\ UNCHANGED <<history, stamps, reports>>
  BY DetectorsAssumption DEF DInv, CreateRun, DriftTypeOK
<1>2. PICK row : row = [detector |-> Detector(s), status |-> "RUNNING", report |-> FALSE]
  OBVIOUS
<1>3. row \in Row /\ row.detector = Detectors[sweep[s].at]
  BY <1>1, <1>2, DetectorsAssumption DEF Row, Statuses, Detector
<1>4. PICK x : x = [sweep[s] EXCEPT !.pc = "detect", !.rows = Append(@, row)]
  OBVIOUS
<1>5. sweep' = [sweep EXCEPT ![s] = x]
  BY <1>1, <1>2, <1>4 DEF CreateRun, DriftTypeOK, Sweep
<1>6. /\ x \in Sweep /\ x.pc = "detect" /\ x.at = sweep[s].at
      /\ x.rows = Append(sweep[s].rows, row)
  <2>1. sweep[s].rows \in Seq(Row)
    BY <1>1 DEF Sweep
  <2>2. PICK rows \in Seq(Row) : rows = Append(sweep[s].rows, row)
    <3>1. Append(sweep[s].rows, row) \in Seq(Row)
      BY <1>3, <2>1, AppendProperties
    <3> QED
      BY <3>1
  <2>3. x = [sweep[s] EXCEPT !.pc = "detect", !.rows = rows]
    BY <1>1, <1>4, <2>2 DEF Sweep
  <2> QED
    BY <1>1, <2>2, <2>3 DEF Sweep
<1>7. /\ sweep[s].rows \in Seq(Row) /\ Len(sweep[s].rows) = sweep[s].at - 1
      /\ Len(x.rows) = sweep[s].at /\ x.rows[sweep[s].at] = row
      /\ \A i \in 1 .. Len(sweep[s].rows) : x.rows[i] = sweep[s].rows[i]
  BY <1>1, <1>3, <1>6, SMTT(30) DEF SweepOK, Sweep
<1>8. SweepOK(s)'
  <2>1. sweep'[s] = x
    BY <1>1, <1>5 DEF DriftTypeOK
  <2>2. \A i \in 1 .. Len(x.rows) : i = sweep[s].at \/ i < sweep[s].at
    BY <1>1, <1>7
  <2>3. ASSUME NEW i \in 1 .. Len(x.rows)
        PROVE  /\ x.rows[i].detector = Detectors[i]
               /\ i < x.at => Complete(x.rows[i], s)'
    <3>1. CASE i = sweep[s].at
      BY <1>1, <1>3, <1>6, <1>7, <3>1
    <3>2. CASE i < sweep[s].at
      <4>1. i \in 1 .. Len(sweep[s].rows) /\ x.rows[i] = sweep[s].rows[i]
        BY <1>1, <1>7, <3>2
      <4> QED
        BY <1>1, <3>2, <4>1 DEF SweepOK, Complete
    <3> QED
      BY <2>2, <3>1, <3>2
  <2>4. \E i \in 1 .. Len(stamps') : stamps'[i] = s
    BY <1>1 DEF SweepOK
  <2> QED
    BY <1>1, <1>6, <1>7, <2>1, <2>3, <2>4 DEF SweepOK
<1> QED
  BY <1>1, <1>5, <1>6, <1>8, OneSweep DEF DriftTypeOK

\* A step that writes into the row of the detector a run is at.
LEMMA AtItsRow ==
  ASSUME DInv, NEW s \in Sweeps, sweep[s].pc \in {"detect", "put", "update"},
         NEW row \in Row, row.detector = Detectors[sweep[s].at],
         NEW pc \in {"put", "update"}, row.status # "RUNNING",
         sweep' = [sweep EXCEPT ![s] = [sweep[s] EXCEPT !.pc = pc, !.rows[sweep[s].at] = row]],
         UNCHANGED <<history, stamps>>,
         reports \subseteq reports', reports' \subseteq Sweeps \X STRING,
         pc = "update" /\ row.status # "ERROR" => row.report /\ <<s, row.detector>> \in reports'
  PROVE  DInv'
<1>0. PICK x : x = [sweep[s] EXCEPT !.pc = pc, !.rows[sweep[s].at] = row]
  OBVIOUS
<1>1. /\ DriftTypeOK /\ SweepOK(s) /\ sweep[s] \in Sweep
      /\ Len(Detectors) \in Nat /\ sweep[s].at \in 1 .. Len(Detectors)
      /\ Len(sweep[s].rows) = sweep[s].at /\ sweep[s].rows \in Seq(Row)
  BY DetectorsAssumption, SMTT(30) DEF DInv, DriftTypeOK, SweepOK, Sweep
<1>2. /\ x.pc = pc /\ x.at = sweep[s].at
      /\ x.rows = [sweep[s].rows EXCEPT ![sweep[s].at] = row]
  BY <1>0, <1>1 DEF Sweep
<1>3. x.rows \in Seq(Row) /\ Len(x.rows) = sweep[s].at
  BY <1>1, <1>2
<1>4. x \in Sweep
  BY <1>0, <1>1, <1>2, <1>3 DEF Sweep
<1>5. sweep' = [sweep EXCEPT ![s] = x]
  BY <1>0
<1>6. x.rows[sweep[s].at] = row /\ \A i \in 1 .. Len(x.rows) :
        i # sweep[s].at => x.rows[i] = sweep[s].rows[i]
  BY <1>1, <1>2, <1>3
<1>7. SweepOK(s)'
  <2>1. sweep'[s] = x
    BY <1>1, <1>5 DEF DriftTypeOK
  <2>2. \A i \in 1 .. Len(x.rows) : i = sweep[s].at \/ i < sweep[s].at
    BY <1>1, <1>3
  <2>3. \A i \in 1 .. Len(x.rows) : x.rows[i].detector = Detectors[i]
    BY <1>1, <1>3, <1>6 DEF SweepOK
  <2>4. ASSUME NEW i \in 1 .. Len(x.rows), i < x.at \/ pc = "update"
        PROVE  Complete(x.rows[i], s)'
    <3>1. CASE i = sweep[s].at
      <4>1. pc = "update"
        BY <1>1, <1>2, <2>4, <3>1
      <4>2. x.rows[i] = row
        BY <1>6, <3>1
      <4> QED
        BY <4>1, <4>2 DEF Complete
    <3>2. CASE i < sweep[s].at
      BY <1>1, <1>3, <1>6, <3>2, SMTT(30) DEF SweepOK, Complete
    <3> QED
      BY <2>2, <3>1, <3>2
  <2>5. x.pc # "new" /\ \E i \in 1 .. Len(stamps') : stamps'[i] = s
    BY <1>1, <1>2 DEF SweepOK
  <2> QED
    BY <1>1, <1>2, <1>3, <1>6, <2>1, <2>3, <2>4, <2>5, SMTT(30) DEF SweepOK
<1> QED
  BY <1>2, <1>4, <1>5, <1>7, OneSweep

LEMMA DetectStep ==
  ASSUME DInv, NEW s \in Sweeps, Detect(s) \/ CatchError(s) \/ PutReport(s)
  PROVE  DInv'
<1>1. /\ DriftTypeOK /\ SweepOK(s) /\ sweep[s] \in Sweep
      /\ sweep[s].pc \in {"detect", "put"} /\ sweep[s].at \in 1 .. Len(Detectors)
      /\ Len(sweep[s].rows) = sweep[s].at /\ sweep[s].rows \in Seq(Row)
      /\ UNCHANGED <<history, stamps>>
  BY DetectorsAssumption
  DEF DInv, Detect, CatchError, PutReport, DriftTypeOK, SweepOK, Sweep
<1>2. PICK old \in Row : old = sweep[s].rows[sweep[s].at]
  BY <1>1
<1>3. old.detector = Detectors[sweep[s].at] /\ Detectors[sweep[s].at] \in STRING
  BY <1>1, <1>2, DetectorsAssumption DEF SweepOK
<1>4. CASE Detect(s) \/ CatchError(s)
  <2>1. PICK v \in Verdicts \union {"ERROR"}, pc \in {"put", "update"} :
          /\ pc = "update" => v = "ERROR"
          /\ sweep' = [sweep EXCEPT ![s].pc = pc, ![s].rows[sweep[s].at].status = v]
          /\ UNCHANGED reports
    BY <1>4 DEF Detect, CatchError
  <2>2. PICK row : row = [old EXCEPT !.status = v]
    OBVIOUS
  <2>3. row \in Row /\ row.detector = old.detector /\ row.status = v /\ v # "RUNNING"
    BY <2>2, DetectorsAssumption DEF Row, Statuses
  <2>4. sweep' = [sweep EXCEPT ![s] = [sweep[s] EXCEPT !.pc = pc, !.rows[sweep[s].at] = row]]
    BY <1>1, <1>2, <2>1, <2>2 DEF DriftTypeOK, Sweep
  <2> QED
    BY <1>1, <1>3, <2>1, <2>3, <2>4, AtItsRow DEF DriftTypeOK
<1>5. CASE PutReport(s)
  <2>1. /\ sweep[s].pc = "put" /\ reports' = reports \union {<<s, Detectors[sweep[s].at]>>}
        /\ sweep' = [sweep EXCEPT ![s].pc = "update", ![s].rows[sweep[s].at].report = TRUE]
    BY <1>5 DEF PutReport, Detector
  <2>2. PICK row : row = [old EXCEPT !.report = TRUE]
    OBVIOUS
  <2>3. row \in Row /\ row.detector = old.detector /\ row.status = old.status /\ row.report
    BY <2>2 DEF Row
  <2>4. sweep' = [sweep EXCEPT ![s] =
                    [sweep[s] EXCEPT !.pc = "update", !.rows[sweep[s].at] = row]]
    BY <1>1, <1>2, <2>1, <2>2 DEF DriftTypeOK, Sweep
  <2>5. row.status # "RUNNING"
    BY <1>1, <1>2, <2>1, <2>3 DEF SweepOK
  <2>6. /\ reports \subseteq reports' /\ reports' \subseteq Sweeps \X STRING
        /\ <<s, row.detector>> \in reports'
    BY <1>1, <1>3, <2>1, <2>3 DEF DriftTypeOK
  <2> QED
    BY <1>1, <1>3, <2>1, <2>3, <2>4, <2>5, <2>6, AtItsRow
<1> QED
  BY <1>4, <1>5

LEMMA UpdateRunStep ==
  ASSUME DInv, NEW s \in Sweeps, UpdateRun(s) \/ LoseSweep(s)
  PROVE  DInv'
<1>1. /\ DriftTypeOK /\ SweepOK(s) /\ sweep[s] \in Sweep /\ Len(Detectors) \in Nat
      /\ sweep[s].pc \notin {"new", "done"} /\ UNCHANGED <<history, stamps, reports>>
  BY DetectorsAssumption DEF DInv, UpdateRun, LoseSweep, DriftTypeOK
<1>2. PICK x \in Sweep :
        /\ sweep' = [sweep EXCEPT ![s] = x] /\ x.rows = sweep[s].rows
        /\ \/ sweep[s].pc = "update" /\ x.pc = "row" /\ x.at = sweep[s].at + 1
           \/ x.pc = "lost"
  <2>1. CASE UpdateRun(s)
    <3>1. sweep[s].pc = "update"
      BY <2>1 DEF UpdateRun
    <3>2. PICK x : x = [sweep[s] EXCEPT !.pc = "row", !.at = @ + 1]
      OBVIOUS
    <3>3. sweep[s].at + 1 \in 1 .. Len(Detectors) + 1
      BY <1>1, <3>1 DEF SweepOK
    <3>4. x \in Sweep /\ x.rows = sweep[s].rows /\ x.pc = "row" /\ x.at = sweep[s].at + 1
      BY <1>1, <3>2, <3>3 DEF Sweep
    <3>5. sweep' = [sweep EXCEPT ![s] = x]
      BY <1>1, <2>1, <3>2 DEF UpdateRun, DriftTypeOK, Sweep
    <3> QED
      BY <3>1, <3>4, <3>5
  <2>2. CASE LoseSweep(s)
    <3>1. PICK x : x = [sweep[s] EXCEPT !.pc = "lost"]
      OBVIOUS
    <3>2. x \in Sweep /\ x.rows = sweep[s].rows /\ x.pc = "lost"
      BY <1>1, <3>1 DEF Sweep
    <3>3. sweep' = [sweep EXCEPT ![s] = x]
      BY <1>1, <2>2, <3>1 DEF LoseSweep, DriftTypeOK, Sweep
    <3> QED
      BY <3>2, <3>3
  <2> QED
    BY <2>1, <2>2
<1>3. sweep'[s] = x
  BY <1>1, <1>2 DEF DriftTypeOK
<1>4. SweepOK(s)'
  <2>1. \E i \in 1 .. Len(stamps') : stamps'[i] = s
    BY <1>1 DEF SweepOK
  <2>2. CASE x.pc = "lost"
    BY <1>3, <2>1, <2>2 DEF SweepOK
  <2>3. CASE sweep[s].pc = "update" /\ x.pc = "row" /\ x.at = sweep[s].at + 1
    <3>1. Len(x.rows) = x.at - 1
      BY <1>1, <1>2, <2>3 DEF SweepOK
    <3>2. \A i \in 1 .. Len(x.rows) :
            x.rows[i].detector = Detectors[i] /\ Complete(x.rows[i], s)'
      BY <1>1, <1>2, <2>3 DEF SweepOK, Complete
    <3> QED
      BY <1>3, <2>1, <2>3, <3>1, <3>2 DEF SweepOK
  <2> QED
    BY <1>2, <2>2, <2>3
<1> QED
  BY <1>1, <1>2, <1>4, OneSweep DEF DriftTypeOK

LEMMA NextDInv == DInv /\ [DriftNext]_driftVars => DInv'
<1> SUFFICES ASSUME DInv, [DriftNext]_driftVars PROVE DInv'
  OBVIOUS
<1>1. CASE UNCHANGED driftVars
  <2>1. UNCHANGED <<sweep, stamps, history, reports>>
    BY <1>1 DEF driftVars
  <2>2. DriftTypeOK' /\ StampsOnce'
    BY <2>1 DEF DInv, DriftTypeOK, StampsOnce
  <2>3. HistoryIsOfDone'
    BY <2>1 DEF DInv, HistoryIsOfDone, RowOf
  <2>4. ASSUME NEW s \in Sweeps PROVE SweepOK(s)'
    <3>1. SweepOK(s)
      BY DEF DInv
    <3> QED
      BY <2>1, <3>1 DEF SweepOK, Complete
  <2> QED
    BY <2>2, <2>3, <2>4 DEF DInv
<1>2. ASSUME NEW s \in Sweeps, BeginSweep(s) PROVE DInv'
  BY <1>2, BeginSweepStep
<1>3. ASSUME NEW s \in Sweeps, CreateRun(s) PROVE DInv'
  BY <1>3, CreateRunStep
<1>4. ASSUME NEW s \in Sweeps, Detect(s) \/ CatchError(s) \/ PutReport(s) PROVE DInv'
  BY <1>4, DetectStep
<1>5. ASSUME NEW s \in Sweeps, UpdateRun(s) \/ LoseSweep(s) PROVE DInv'
  BY <1>5, UpdateRunStep
<1>6. ASSUME NEW s \in Sweeps, CommitSweep(s) PROVE DInv'
  BY <1>6, CommitSweepStep
<1> QED
  BY <1>1, <1>2, <1>3, <1>4, <1>5, <1>6 DEF DriftNext

\* The runs' stages, the rows they flushed and the rows committed, in every state.
THEOREM DriftInvariance == DriftSpec => []DInv
<1> QED
  BY InitDInv, NextDInv, PTL DEF DriftSpec

\* The run of the manager at its row, the rows and the artifacts have their types.
THEOREM DriftTyping == DriftSpec => []DriftTypeOK
<1>1. DInv => DriftTypeOK
  BY DEF DInv
<1> QED
  BY <1>1, DriftInvariance, PTL

\* A non-empty set of numbers up to a bound has a greatest one.
LEMMA LastOf ==
  ASSUME NEW n \in Nat, NEW P \in SUBSET (1 .. n), P # {}
  PROVE  \E m \in P : \A k \in P : k <= m
<1> DEFINE before == {ss \in Nat \X Nat : ss[1] < ss[2]}
           Q == {n - k : k \in P}
<1>1. IsWellFoundedOn(before, Nat)
  BY NatLessThanWellFounded, Zenon DEF OpToRel
<1>2. Q \subseteq Nat /\ Q # {}
  <2>1. \A k \in P : n - k \in Nat
    OBVIOUS
  <2> QED
    BY <2>1, Zenon
<1>3. PICK q \in Q : \A y \in Q : <<y, q>> \notin before
  <2> HIDE DEF before, Q
  <2> QED
    BY <1>1, <1>2, WFMin, Zenon
<1>4. PICK m \in P : q = n - m
  BY <1>3
<1>5. ASSUME NEW k \in P PROVE k <= m
  <2>1. n - k \in Q /\ n - k \in Nat /\ n - m \in Nat
    BY <1>4
  <2>2. ~ (n - k < n - m)
    BY <1>3, <1>4, <2>1
  <2> QED
    BY <2>1, <2>2
<1> QED
  BY <1>5

\* The row that started last, of any detector, is of the last run that is done.
LEMMA LatestIsOfLastRun ==
  ASSUME DInv, history # {}
  PROVE  \E s \in Sweeps :
           /\ sweep[s].pc = "done"
           /\ \A i \in 1 .. Len(Detectors) : Latest(Detectors[i]) = {RowOf(s, i)}
<1> DEFINE P == {k \in 1 .. Len(stamps) : sweep[stamps[k]].pc = "done"}
<1>1. /\ StampsOnce /\ HistoryIsOfDone /\ Len(stamps) \in Nat
      /\ DOMAIN stamps = 1 .. Len(stamps) /\ \A k \in 1 .. Len(stamps) : stamps[k] \in Sweeps
      /\ Len(Detectors) \in Nat /\ DOMAIN Detectors = 1 .. Len(Detectors)
  BY DetectorsAssumption DEF DInv, DriftTypeOK
<1>2. ASSUME NEW k \in 1 .. Len(stamps), NEW r, r.sweep = stamps[k]
      PROVE  Position(r) = k
  BY <1>1, <1>2 DEF Position, StampsOnce
<1>3. ASSUME NEW r \in history
      PROVE  \E k \in P : r.sweep = stamps[k] /\ Position(r) = k
  <2>1. r.sweep \in Sweeps /\ sweep[r.sweep].pc = "done"
    BY <1>1 DEF HistoryIsOfDone, DInv, DriftTypeOK
  <2>2. SweepOK(r.sweep)
    BY <2>1 DEF DInv
  <2>3. PICK k \in 1 .. Len(stamps) : stamps[k] = r.sweep
    BY <2>1, <2>2 DEF SweepOK
  <2> QED
    BY <1>2, <2>1, <2>3
<1>4. PICK m \in P : \A k \in P : k <= m
  <2>1. P # {} /\ P \subseteq 1 .. Len(stamps)
    BY <1>3
  <2> QED
    BY <1>1, <2>1, LastOf
<1> DEFINE s == stamps[m]
<1>5. s \in Sweeps /\ sweep[s].pc = "done" /\ SweepOK(s) /\ m \in 1 .. Len(stamps)
  BY <1>1, <1>4 DEF DInv
<1>6. ASSUME NEW i \in 1 .. Len(Detectors)
      PROVE  /\ RowOf(s, i) \in history /\ RowOf(s, i).detector = Detectors[i]
             /\ RowOf(s, i).sweep = s /\ Position(RowOf(s, i)) = m
  <2>1. i \in 1 .. Len(sweep[s].rows)
    BY <1>1, <1>5 DEF SweepOK
  <2>2. sweep[s].rows[i].detector = Detectors[i]
    BY <1>5, <2>1 DEF SweepOK
  <2>3. RowOf(s, i).detector = Detectors[i] /\ RowOf(s, i).sweep = s
    BY <2>2 DEF RowOf
  <2> QED
    BY <1>1, <1>2, <1>5, <2>3 DEF HistoryIsOfDone
<1>7. ASSUME NEW i \in 1 .. Len(Detectors)
      PROVE  Latest(Detectors[i]) = {RowOf(s, i)}
  <2>1. RowOf(s, i) \in Latest(Detectors[i])
    BY <1>3, <1>4, <1>6 DEF Latest
  <2>2. ASSUME NEW r \in Latest(Detectors[i]) PROVE r = RowOf(s, i)
    <3>1. r \in history /\ r.detector = Detectors[i] /\ m <= Position(r)
      BY <1>6 DEF Latest
    <3>2. PICK k \in P : r.sweep = stamps[k] /\ Position(r) = k
      BY <1>3, <3>1
    <3>3. k = m
      BY <1>1, <1>4, <3>1, <3>2
    <3>4. PICK j \in 1 .. Len(Detectors) : r = RowOf(s, j)
      BY <1>1, <3>1, <3>2, <3>3 DEF HistoryIsOfDone
    <3>5. Detectors[j] = Detectors[i]
      BY <1>6, <3>1, <3>4
    <3> QED
      BY <1>1, <3>4, <3>5, DetectorsAssumption
  <2> QED
    BY <2>1, <2>2
<1> QED
  BY <1>5, <1>7

\* However runs overlap and fail, the summary shows the rows of one run that went
\* through every detector, with an artifact for each that is no ERROR (drift/manager.py,
\* get_drift_summary).
THEOREM SummaryHolds == DriftSpec => []SummaryIsOfOneRun
<1>1. ASSUME DInv PROVE SummaryIsOfOneRun
  <2> DEFINE shown == UNION {Latest(Detectors[i]) : i \in DOMAIN Detectors}
  <2>1. Len(Detectors) \in Nat /\ DOMAIN Detectors = 1 .. Len(Detectors)
    BY DetectorsAssumption
  <2>2. CASE history = {}
    <3>1. shown = {}
      BY <2>2 DEF Latest
    <3>2. Cardinality(shown) = 0
      BY <3>1, FS_EmptySet, Zenon
    <3>3. Cardinality(shown) <= Len(Detectors)
      BY <2>1, <3>2
    <3> QED
      BY <2>2, <3>1, <3>3 DEF SummaryIsOfOneRun
  <2>3. CASE history # {}
    <3>1. PICK s \in Sweeps :
            /\ sweep[s].pc = "done"
            /\ \A i \in 1 .. Len(Detectors) : Latest(Detectors[i]) = {RowOf(s, i)}
      BY <1>1, <2>3, LatestIsOfLastRun
    <3>2. shown = {RowOf(s, i) : i \in 1 .. Len(Detectors)}
      BY <2>1, <3>1
    <3>3. ASSUME NEW i \in 1 .. Len(Detectors)
          PROVE  /\ RowOf(s, i).sweep = s /\ RowOf(s, i).detector = Detectors[i]
                 /\ Complete(RowOf(s, i), s)
      <4>1. SweepOK(s) /\ i \in 1 .. Len(sweep[s].rows) /\ i < sweep[s].at
        BY <1>1, <2>1, <3>1 DEF DInv, SweepOK
      <4>2. sweep[s].rows[i].detector = Detectors[i] /\ Complete(sweep[s].rows[i], s)
        BY <3>1, <4>1 DEF SweepOK
      <4> QED
        BY <4>2 DEF RowOf, Complete
    <3>4. Cardinality(shown) <= Len(Detectors)
      <4> DEFINE f == [i \in 1 .. Len(Detectors) |-> RowOf(s, i)]
      <4>1. f \in Surjection(1 .. Len(Detectors), shown)
        BY <3>2 DEF Surjection
      <4>2. PICK n \in Nat : n = Len(Detectors)
        BY <2>1
      <4>3. IsFiniteSet(1 .. n) /\ Cardinality(1 .. n) = (IF 1 > n THEN 0 ELSE n - 1 + 1)
        BY FS_Interval
      <4>4. Cardinality(1 .. n) = n
        BY <4>3
      <4> HIDE DEF shown, f
      <4>5. Cardinality(shown) <= Cardinality(1 .. n)
        BY <4>1, <4>2, <4>3, FS_Surjection, Zenon
      <4> QED
        BY <4>2, <4>4, <4>5
    <3> HIDE DEF shown
    <3>5. /\ \A i \in DOMAIN Detectors : \E r \in shown : r.detector = Detectors[i]
          /\ \A r, o \in shown : r.sweep = o.sweep
          /\ \A r \in shown : Complete(r, s) /\ r.sweep = s
      BY <2>1, <3>2, <3>3
    <3> QED
      BY <3>4, <3>5 DEF SummaryIsOfOneRun, Complete, shown
  <2> QED
    BY <2>2, <2>3
<1> QED
  BY <1>1, DriftInvariance, PTL

--------------------------------------------------------------------------------
(* Metering *)

Length(grain) == IF grain = "hourly" THEN Hour ELSE Day

\* The collections that rolled up a day, once each, and those that committed.  One
\* that rolled up none has a sample that was older than a day by then.
PeriodsOK ==
  /\ \A i, j \in 1 .. Len(periods) : periods[i] = periods[j] => i = j
  /\ \A c \in DOMAIN collection :
       /\ collection[c].pc \in {"commit", "done"} =>
            \/ \E i \in 1 .. Len(periods) : periods[i] = c
            \/ collection[c].captured < clock - Day
       /\ collection[c].pc \in {"again", "collect", "hourly", "daily"} =>
            \A i \in 1 .. Len(periods) : periods[i] # c
       /\ c \in committed <=> collection[c].pc = "done"

\* What a rollup counts: samples that are committed or its own, none older than its
\* period; and nothing that is still to come.
CountsOK(c) ==
  /\ collection[c].captured <= clock
  /\ collection[c].before \subseteq committed
  /\ \A g \in Grains :
       /\ collection[c].rollup[g].counted \subseteq committed \union {c}
       /\ collection[c].rollup[g].end <= clock
       /\ collection[c].pc \in {"collect", "again", "hourly"} =>
            collection[c].rollup[g].counted = {}
       /\ \A d \in collection[c].rollup[g].counted :
            collection[c].rollup[g].end - collection[d].captured <= Length(g)

\* The daily rollup of d counts the sample of c, or c is older than its day.
CountsIn(d, c) ==
  collection[c].captured >= collection[d].rollup["daily"].end - Day =>
    c \in collection[d].rollup["daily"].counted

\* A collection that rolled up its day counts itself, and every one that rolled up
\* before it, but for those that were at work at the same time.
CountsEarlier ==
  \A i, j \in 1 .. Len(periods) :
    LET c == periods[i]
        d == periods[j]
    IN  /\ i <= j
        /\ collection[c].pc \in {"commit", "done"} /\ collection[d].pc \in {"commit", "done"}
        => \/ CountsIn(d, c)
           \/ c # d /\ c \notin collection[d].before /\ d \notin collection[c].before

MInv ==
  /\ MeteringTypeOK /\ PeriodsOK /\ CountsEarlier
  /\ \A c \in DOMAIN collection : CountsOK(c)

LEMMA InitMInv == MeteringInit => MInv
<1> SUFFICES ASSUME MeteringInit PROVE MInv
  OBVIOUS
<1>1. clock = 0 /\ collection = <<>> /\ periods = <<>> /\ committed = {}
  BY DEF MeteringInit
<1>2. MeteringTypeOK
  BY <1>1, MeteringAssumption DEF MeteringTypeOK
<1> QED
  BY <1>1, <1>2 DEF MInv, PeriodsOK, CountsEarlier

LEMMA MeteringTypes ==
  ASSUME MInv
  PROVE  /\ clock \in Nat /\ Day \in Nat /\ Hour \in Nat
         /\ DOMAIN collection = 1 .. Len(collection) /\ Len(collection) \in Nat
         /\ DOMAIN periods = 1 .. Len(periods) /\ Len(periods) \in Nat
         /\ \A i \in 1 .. Len(periods) : periods[i] \in DOMAIN collection
         /\ committed \subseteq DOMAIN collection
         /\ \A c \in DOMAIN collection :
              /\ collection[c] \in Collection /\ collection[c].captured \in Nat
              /\ collection[c].rollup \in [Grains -> Rollup]
              /\ \A g \in Grains :
                   /\ collection[c].rollup[g] \in Rollup
                   /\ collection[c].rollup[g].end \in Nat
<1>1. MeteringTypeOK
  BY DEF MInv
<1>2. \A c \in DOMAIN collection : collection[c] \in Collection
  BY <1>1 DEF MeteringTypeOK
<1>3. \A c \in DOMAIN collection : collection[c].captured \in 0 .. LastTick
        /\ collection[c].rollup \in [Grains -> Rollup]
  BY <1>2 DEF Collection
<1>4. \A c \in DOMAIN collection, g \in Grains :
        collection[c].rollup[g] \in Rollup /\ collection[c].rollup[g].end \in 0 .. LastTick
  BY <1>3 DEF Rollup
<1> QED
  BY <1>1, <1>2, <1>3, <1>4, MeteringAssumption DEF MeteringTypeOK

\* What the others do, and the passing of time, leave what a collection counted.
LEMMA CountsKept ==
  ASSUME MInv, NEW o \in DOMAIN collection,
         collection'[o] = collection[o], committed \subseteq committed',
         clock' \in Nat, clock <= clock',
         \A d \in committed \union {o} : collection'[d].captured = collection[d].captured
  PROVE  CountsOK(o)'
<1>1. CountsOK(o) /\ clock \in Nat /\ collection[o].captured \in Nat
      /\ \A g \in Grains : collection[o].rollup[g].end \in Nat
  BY MeteringTypes DEF MInv
<1>2. collection'[o].captured <= clock' /\ collection'[o].before \subseteq committed'
  BY <1>1 DEF CountsOK
<1>3. ASSUME NEW g \in Grains
      PROVE  /\ collection'[o].rollup[g].counted \subseteq committed' \union {o}
             /\ collection'[o].rollup[g].end <= clock'
             /\ collection'[o].pc \in {"collect", "again", "hourly"} =>
                  collection'[o].rollup[g].counted = {}
             /\ \A d \in collection'[o].rollup[g].counted :
                  collection'[o].rollup[g].end - collection'[d].captured <= Length(g)
  BY <1>1 DEF CountsOK
<1> QED
  BY <1>2, <1>3 DEF CountsOK, Length

\* A step of one collection that neither rolls up a day nor commits.
LEMMA OneCollection ==
  ASSUME MInv, NEW c \in DOMAIN collection, NEW x \in Collection,
         collection' = [collection EXCEPT ![c] = x],
         UNCHANGED <<clock, periods, committed>>,
         collection[c].pc # "done", x.pc \notin {"commit", "done"},
         x.pc = "lost" \/ collection[c].pc \in {"again", "collect", "hourly", "daily"},
         CountsOK(c)'
  PROVE  MInv'
<1>1. MeteringTypeOK /\ PeriodsOK /\ CountsEarlier /\ c \notin committed
  BY DEF MInv, PeriodsOK
<1>2. /\ DOMAIN collection' = DOMAIN collection /\ Len(collection') = Len(collection)
      /\ collection' \in Seq(Collection)
      /\ collection'[c] = x /\ \A o \in DOMAIN collection \ {c} : collection'[o] = collection[o]
  BY <1>1 DEF MeteringTypeOK
<1>3. MeteringTypeOK'
  BY <1>1, <1>2 DEF MeteringTypeOK
<1>4. PeriodsOK'
  BY <1>1, <1>2 DEF PeriodsOK
<1>5. CountsEarlier'
  <2> SUFFICES ASSUME NEW i \in 1 .. Len(periods), NEW j \in 1 .. Len(periods), i <= j,
                      collection'[periods[i]].pc \in {"commit", "done"},
                      collection'[periods[j]].pc \in {"commit", "done"}
               PROVE  \/ CountsIn(periods[j], periods[i])'
                      \/ /\ periods[i] # periods[j]
                         /\ periods[i] \notin collection'[periods[j]].before
                         /\ periods[j] \notin collection'[periods[i]].before
    BY DEF CountsEarlier
  <2>1. /\ collection'[periods[i]] = collection[periods[i]]
        /\ collection'[periods[j]] = collection[periods[j]]
    BY <1>2, MeteringTypes
  <2> QED
    BY <1>1, <2>1 DEF CountsEarlier, CountsIn
<1>6. ASSUME NEW o \in DOMAIN collection \ {c} PROVE CountsOK(o)'
  <2>1. \A d \in committed \union {o} : collection'[d].captured = collection[d].captured
    BY <1>1, <1>2, MeteringTypes
  <2>2. clock' \in Nat /\ clock <= clock'
    BY MeteringTypes
  <2> QED
    BY <1>2, <2>1, <2>2, CountsKept
<1> QED
  BY <1>2, <1>3, <1>4, <1>5, <1>6 DEF MInv

LEMMA TickClockStep == ASSUME MInv, TickClock PROVE MInv'
<1>1. MeteringTypeOK /\ PeriodsOK /\ CountsEarlier /\ clock' = clock + 1 /\ clock < LastTick
      /\ UNCHANGED <<collection, periods, committed>>
  BY DEF MInv, TickClock
<1>2. clock' \in 0 .. LastTick /\ clock' \in Nat /\ clock <= clock'
  BY <1>1, MeteringAssumption DEF MeteringTypeOK
<1>3. MeteringTypeOK' /\ PeriodsOK' /\ CountsEarlier'
  <2>1. \A c \in DOMAIN collection :
          collection[c].captured < clock - Day => collection[c].captured < clock' - Day
    BY <1>1, MeteringTypes
  <2>2. PeriodsOK'
    BY <1>1, <2>1 DEF PeriodsOK
  <2> QED
    BY <1>1, <1>2, <2>2 DEF MeteringTypeOK, CountsEarlier, CountsIn
<1>4. \A o \in DOMAIN collection : CountsOK(o)'
  BY <1>1, <1>2, CountsKept
<1> QED
  BY <1>1, <1>3, <1>4 DEF MInv

LEMMA BeginCollectionStep == ASSUME MInv, BeginCollection PROVE MInv'
<1>0. PICK n : n = Len(collection) + 1
  OBVIOUS
<1>1. PICK x : x = [NewCollection EXCEPT !.before = committed]
  OBVIOUS
<1>2. MeteringTypeOK /\ PeriodsOK /\ CountsEarlier /\ collection' = Append(collection, x)
      /\ Len(collection) < MaxCollections /\ UNCHANGED <<clock, periods, committed>>
  BY <1>1 DEF MInv, BeginCollection
<1>3. committed \subseteq 1 .. MaxCollections
  BY <1>2, MeteringAssumption DEF MeteringTypeOK
<1>4. [g \in Grains |-> NoRollup] \in [Grains -> Rollup]
  BY MeteringAssumption DEF NoRollup, Rollup
<1>5. /\ x \in Collection /\ x.pc = "collect" /\ x.captured = 0 /\ x.before = committed
      /\ \A g \in Grains : x.rollup[g].end = 0 /\ x.rollup[g].counted = {}
  <2>1. /\ x.rollup = [g \in Grains |-> NoRollup] /\ 0 \in 0 .. LastTick /\ 0 \in 0 .. MaxRetries
        /\ x = [pc |-> "collect", tries |-> 0, captured |-> 0, before |-> committed,
                rollup |-> [g \in Grains |-> NoRollup]]
    BY <1>1, MeteringAssumption DEF NewCollection
  <2>2. x \in Collection
    BY <1>3, <1>4, <2>1 DEF Collection
  <2> QED
    BY <2>1, <2>2 DEF NoRollup
<1>6. /\ collection' \in Seq(Collection) /\ Len(collection') = n
      /\ DOMAIN collection' = DOMAIN collection \union {n} /\ n \notin DOMAIN collection
      /\ collection'[n] = x /\ \A o \in DOMAIN collection : collection'[o] = collection[o]
  BY <1>0, <1>2, <1>5 DEF MeteringTypeOK
<1>7. MeteringTypeOK'
  <2>1. periods \in Seq(DOMAIN collection')
    BY <1>2, <1>6 DEF MeteringTypeOK
  <2> QED
    <3>1. Len(collection') <= MaxCollections
      BY <1>0, <1>2, <1>6, MeteringTypes, MeteringAssumption
    <3>2. committed' \subseteq DOMAIN collection' /\ clock' \in 0 .. LastTick
      BY <1>2, <1>6 DEF MeteringTypeOK
    <3>3. periods' \in Seq(DOMAIN collection)'
      BY <1>2, <2>1
    <3> QED
      BY <1>6, <3>1, <3>2, <3>3 DEF MeteringTypeOK
<1>8. PeriodsOK'
  <2>1. n \notin committed /\ \A i \in 1 .. Len(periods) : periods[i] # n
    BY <1>6, MeteringTypes
  <2>2. ASSUME NEW o \in DOMAIN collection
        PROVE  /\ collection'[o] = collection[o] /\ o \in DOMAIN collection'
    BY <1>6
  <2>3. x.pc \notin {"commit", "done"}
    BY <1>5
  <2>4. ASSUME NEW o \in DOMAIN collection'
        PROVE  (o = n /\ collection'[o] = x) \/ o \in DOMAIN collection
    BY <1>6
  <2> QED
    BY <1>2, <2>1, <2>2, <2>3, <2>4 DEF PeriodsOK
<1>9. CountsEarlier'
  <2>1. ASSUME NEW i \in 1 .. Len(periods), NEW j \in 1 .. Len(periods), i <= j,
               NEW c, NEW d, c = periods[i], d = periods[j],
               collection'[c].pc \in {"commit", "done"}, collection'[d].pc \in {"commit", "done"}
        PROVE  \/ CountsIn(d, c)'
               \/ c # d /\ c \notin collection'[d].before /\ d \notin collection'[c].before
    <3>1. c \in DOMAIN collection /\ d \in DOMAIN collection
      BY <1>2, <2>1, MeteringTypes
    <3>2. collection'[c] = collection[c] /\ collection'[d] = collection[d]
      BY <1>6, <3>1
    <3>3. \/ CountsIn(d, c)
          \/ c # d /\ c \notin collection[d].before /\ d \notin collection[c].before
      BY <1>2, <2>1, <3>2 DEF CountsEarlier
    <3> QED
      BY <3>2, <3>3 DEF CountsIn
  <2> QED
    BY <1>2, <2>1 DEF CountsEarlier, CountsIn
<1>10. ASSUME NEW o \in DOMAIN collection PROVE CountsOK(o)'
  <2>1. \A d \in committed \union {o} : collection'[d].captured = collection[d].captured
    BY <1>6, MeteringTypes
  <2>2. clock \in Nat /\ clock' = clock /\ committed' = committed
    BY <1>2, MeteringTypes
  <2> QED
    BY <1>6, <2>1, <2>2, CountsKept
<1>11. CountsOK(n)'
  <2>1. clock \in Nat
    BY MeteringTypes
  <2> QED
    BY <1>2, <1>5, <1>6, <2>1 DEF CountsOK
<1> QED
  BY <1>6, <1>7, <1>8, <1>9, <1>10, <1>11 DEF MInv

\* The steps before the day is rolled up, and the loss of a collection.
LEMMA EarlyStep ==
  ASSUME MInv, NEW c \in DOMAIN collection,
         \/ CollectSample(c) \/ RetryCollection(c) \/ BeginAgain(c) \/ LoseCollection(c)
  PROVE  MInv'
<1>1. /\ MeteringTypeOK /\ CountsOK(c) /\ collection[c] \in Collection
      /\ clock \in 0 .. LastTick /\ clock \in Nat
      /\ committed \subseteq 1 .. MaxCollections
      /\ UNCHANGED <<clock, periods, committed>>
  BY MeteringTypes, MeteringAssumption
  DEF MInv, CollectSample, RetryCollection, BeginAgain, LoseCollection, MeteringTypeOK
<1>2. CASE CollectSample(c)
  <2>1. PICK x : x = [collection[c] EXCEPT !.pc = "hourly", !.captured = clock, !.tries = 0]
    OBVIOUS
  <2>2. x \in Collection /\ x.pc = "hourly" /\ x.captured = clock
        /\ x.before = collection[c].before /\ x.rollup = collection[c].rollup
    <3>1. 0 \in 0 .. MaxRetries
      BY MeteringAssumption
    <3> QED
      BY <1>1, <2>1, <3>1 DEF Collection
  <2>3. collection[c].pc = "collect" /\ collection' = [collection EXCEPT ![c] = x]
    <3>1. collection[c].pc = "collect"
          /\ collection' = [collection EXCEPT ![c].pc = "hourly", ![c].captured = clock,
                                              ![c].tries = 0]
      BY <1>2 DEF CollectSample
    <3>2. c \in DOMAIN collection /\ DOMAIN collection[c] =
            {"pc", "tries", "captured", "before", "rollup"}
      BY <1>1 DEF Collection
    <3> QED
      BY <2>1, <3>1, <3>2
  <2>4. collection'[c] = x
    BY <1>1, <2>3
  <2>5. CountsOK(c)'
    BY <1>1, <2>2, <2>3, <2>4 DEF CountsOK
  <2> QED
    BY <1>1, <2>2, <2>3, <2>5, OneCollection
<1>3. CASE RetryCollection(c) \/ BeginAgain(c)
  <2>1. PICK x \in Collection :
          /\ x.pc \in {"again", "collect"} /\ x.captured = collection[c].captured
          /\ x.before \in {collection[c].before, committed} /\ x.rollup = collection[c].rollup
          /\ collection' = [collection EXCEPT ![c] = x]
    <3>1. CASE RetryCollection(c)
      <4>1. collection[c].tries < MaxRetries
        BY <3>1 DEF RetryCollection
      <4>2. collection[c].tries + 1 \in 0 .. MaxRetries
        BY <1>1, <4>1, MeteringAssumption DEF Collection
      <4>3. PICK x : x = [collection[c] EXCEPT !.pc = "again", !.tries = @ + 1]
        OBVIOUS
      <4>4. x \in Collection /\ x.pc = "again" /\ x.captured = collection[c].captured
            /\ x.before = collection[c].before /\ x.rollup = collection[c].rollup
        BY <1>1, <4>2, <4>3 DEF Collection
      <4>5. collection' = [collection EXCEPT ![c] = x]
        BY <1>1, <3>1, <4>3 DEF RetryCollection, MeteringTypeOK, Collection
      <4> QED
        BY <4>4, <4>5
    <3>2. CASE BeginAgain(c)
      <4>1. PICK x : x = [collection[c] EXCEPT !.pc = "collect", !.before = committed]
        OBVIOUS
      <4>2. x \in Collection /\ x.pc = "collect" /\ x.captured = collection[c].captured
            /\ x.before = committed /\ x.rollup = collection[c].rollup
        BY <1>1, <4>1 DEF Collection
      <4>3. collection' = [collection EXCEPT ![c] = x]
        BY <1>1, <3>2, <4>1 DEF BeginAgain, MeteringTypeOK, Collection
      <4> QED
        BY <4>2, <4>3
    <3> QED
      BY <1>3, <3>1, <3>2
  <2>2. collection[c].pc \in {"again", "collect"}
    BY <1>3 DEF RetryCollection, BeginAgain
  <2>3. collection'[c] = x
    BY <1>1, <2>1
  <2>4. CountsOK(c)'
    BY <1>1, <2>1, <2>2, <2>3 DEF CountsOK
  <2> QED
    BY <1>1, <2>1, <2>2, <2>4, OneCollection
<1>4. CASE LoseCollection(c)
  <2>1. PICK x : x = [NewCollection EXCEPT !.pc = "lost"]
    OBVIOUS
  <2>2. collection' = [collection EXCEPT ![c] = x] /\ collection[c].pc # "done"
    BY <1>4, <2>1 DEF LoseCollection
  <2>3. /\ x \in Collection /\ x.pc = "lost" /\ x.captured = 0 /\ x.before = {}
        /\ \A g \in Grains : x.rollup[g].counted = {} /\ x.rollup[g].end = 0
    <3>1. [g \in Grains |-> NoRollup] \in [Grains -> Rollup]
      BY MeteringAssumption DEF NoRollup, Rollup
    <3>2. x = [pc |-> "lost", tries |-> 0, captured |-> 0, before |-> {},
               rollup |-> [g \in Grains |-> NoRollup]]
      BY <2>1 DEF NewCollection
    <3>3. 0 \in 0 .. LastTick /\ 0 \in 0 .. MaxRetries
      BY MeteringAssumption
    <3>4. x \in Collection
      BY <3>1, <3>2, <3>3 DEF Collection
    <3> QED
      BY <3>2, <3>4 DEF NoRollup
  <2>4. collection'[c] = x
    BY <1>1, <2>2
  <2>5. CountsOK(c)'
    BY <1>1, <2>3, <2>4 DEF CountsOK
  <2> QED
    BY <1>1, <2>2, <2>3, <2>5, OneCollection
<1> QED
  BY <1>2, <1>3, <1>4

\* What a rollup that ends now counts.
LEMMA SampledNow ==
  ASSUME MInv, NEW c \in DOMAIN collection, NEW length \in Nat
  PROVE  /\ [end |-> clock, counted |-> Sampled(c, length)] \in Rollup
         /\ Sampled(c, length) \subseteq committed \union {c}
         /\ \A d \in Sampled(c, length) : clock - collection[d].captured <= length
         /\ \A d \in committed \union {c} :
              collection[d].captured >= clock - length => d \in Sampled(c, length)
<1>1. Sampled(c, length) \subseteq committed \union {c}
  BY DEF Sampled
<1>2. Sampled(c, length) \subseteq 1 .. MaxCollections /\ clock \in 0 .. LastTick
  <2>1. /\ Len(collection) \in Nat /\ MaxCollections \in Nat /\ Len(collection) <= MaxCollections
        /\ DOMAIN collection = 1 .. Len(collection) /\ clock \in 0 .. LastTick
    BY MeteringTypes, MeteringAssumption DEF MInv, MeteringTypeOK
  <2>2. committed \union {c} \subseteq DOMAIN collection
    BY MeteringTypes
  <2> QED
    BY <1>1, <2>1, <2>2
<1>3. \A d \in committed \union {c} : collection[d].captured \in Nat
  BY MeteringTypes
<1> QED
  BY <1>1, <1>2, <1>3, MeteringTypes DEF Sampled, Rollup

LEMMA RollUpHourStep ==
  ASSUME MInv, NEW c \in DOMAIN collection, RollUpHour(c)
  PROVE  MInv'
<1>1. /\ MeteringTypeOK /\ CountsOK(c) /\ collection[c] \in Collection
      /\ collection[c].pc = "hourly" /\ UNCHANGED <<clock, periods, committed>>
  BY MeteringTypes DEF MInv, RollUpHour
<1>0. CASE Sampled(c, Hour) = {}
  <2>1. PICK x : x = [collection[c] EXCEPT !.pc = "daily"]
    OBVIOUS
  <2>2. /\ x \in Collection /\ x.pc = "daily" /\ x.captured = collection[c].captured
        /\ x.before = collection[c].before /\ x.rollup = collection[c].rollup
    BY <1>1, <2>1 DEF Collection
  <2>3. collection' = [collection EXCEPT ![c] = x]
    BY <1>0, <1>1, <2>1 DEF RollUpHour, RolledUp, MeteringTypeOK, Collection
  <2>4. /\ collection'[c] = x
        /\ \A d \in DOMAIN collection : collection'[d].captured = collection[d].captured
    BY <1>1, <2>2, <2>3
  <2>5. \A g \in Grains : \A d \in collection[c].rollup[g].counted : d \in DOMAIN collection
    BY <1>1, MeteringTypes DEF CountsOK
  <2>6. CountsOK(c)'
    BY <1>1, <2>2, <2>4, <2>5 DEF CountsOK, Length
  <2> QED
    BY <1>1, <2>2, <2>3, <2>6, OneCollection
<1> SUFFICES ASSUME Sampled(c, Hour) # {} PROVE MInv'
  BY <1>0
<1>2. PICK r : r = [end |-> clock, counted |-> Sampled(c, Hour)]
  OBVIOUS
<1>3. PICK x : x = [collection[c] EXCEPT !.pc = "daily",
                      !.rollup = [collection[c].rollup EXCEPT !["hourly"] = r]]
  OBVIOUS
<1>4. collection' = [collection EXCEPT ![c] = x]
  BY <1>1, <1>2, <1>3 DEF RollUpHour, RolledUp, MeteringTypeOK, Collection
<1>5. r \in Rollup /\ r.end = clock /\ r.counted = Sampled(c, Hour)
  BY <1>2, SampledNow, MeteringTypes
<1>6. /\ x \in Collection /\ x.pc = "daily" /\ x.captured = collection[c].captured
      /\ x.before = collection[c].before
      /\ x.rollup["hourly"] = r /\ x.rollup["daily"] = collection[c].rollup["daily"]
  BY <1>1, <1>3, <1>5 DEF Collection, Grains
<1>7. /\ collection'[c] = x
      /\ \A d \in DOMAIN collection : collection'[d].captured = collection[d].captured
  BY <1>1, <1>4, <1>6
<1>8. CountsOK(c)'
  <2>1. ASSUME NEW g \in Grains
        PROVE  /\ x.rollup[g].counted \subseteq committed \union {c}
               /\ x.rollup[g].end <= clock
               /\ \A d \in x.rollup[g].counted :
                    x.rollup[g].end - collection'[d].captured <= Length(g)
    <3>1. CASE g = "hourly"
      <4>1. x.rollup[g].counted = Sampled(c, Hour) /\ x.rollup[g].end = clock /\ Length(g) = Hour
        BY <1>5, <1>6, <3>1 DEF Length
      <4>2. /\ clock \in Nat /\ Sampled(c, Hour) \subseteq committed \union {c}
            /\ \A d \in Sampled(c, Hour) : clock - collection[d].captured <= Hour
        BY SampledNow, MeteringTypes
      <4>3. \A d \in Sampled(c, Hour) : collection'[d].captured = collection[d].captured
        BY <1>7, <4>2, MeteringTypes
      <4> QED
        BY <4>1, <4>2, <4>3
    <3>2. CASE g = "daily"
      <4>1. x.rollup[g] = collection[c].rollup[g]
        BY <1>6, <3>2
      <4> QED
        BY <1>1, <1>7, <4>1, MeteringTypes DEF CountsOK
    <3> QED
      BY <3>1, <3>2 DEF Grains
  <2> QED
    BY <1>1, <1>6, <1>7, <2>1 DEF CountsOK, Length
<1> QED
  BY <1>1, <1>4, <1>6, <1>8, OneCollection

\* A day without samples is not rolled up: the collection's own is older by now.
LEMMA NoDayStep ==
  ASSUME MInv, NEW c \in DOMAIN collection, RollUpDay(c), Sampled(c, Day) = {}
  PROVE  MInv'
<1>1. /\ MeteringTypeOK /\ PeriodsOK /\ CountsEarlier /\ CountsOK(c)
      /\ collection[c] \in Collection /\ collection[c].pc = "daily"
      /\ c \notin committed /\ \A i \in 1 .. Len(periods) : periods[i] # c
      /\ UNCHANGED <<clock, periods, committed>>
  BY MeteringTypes DEF MInv, RollUpDay, PeriodsOK
<1>2. PICK x : x = [collection[c] EXCEPT !.pc = "commit"]
  OBVIOUS
<1>3. collection' = [collection EXCEPT ![c] = x]
  BY <1>1, <1>2 DEF RollUpDay, RolledUp, MeteringTypeOK, Collection
<1>4. /\ x \in Collection /\ x.pc = "commit" /\ x.captured = collection[c].captured
      /\ x.before = collection[c].before /\ x.rollup = collection[c].rollup
  BY <1>1, <1>2 DEF Collection
<1>5. /\ collection'[c] = x /\ collection' \in Seq(Collection)
      /\ DOMAIN collection' = DOMAIN collection /\ Len(collection') = Len(collection)
      /\ \A o \in DOMAIN collection \ {c} : collection'[o] = collection[o]
      /\ \A o \in DOMAIN collection :
           /\ collection'[o].captured = collection[o].captured
           /\ collection'[o].before = collection[o].before
           /\ collection'[o].rollup = collection[o].rollup
  BY <1>1, <1>3, <1>4 DEF MeteringTypeOK
<1>6. MeteringTypeOK'
  BY <1>1, <1>5 DEF MeteringTypeOK
<1>7. collection[c].captured < clock - Day
  <2>1. c \in committed \union {c} /\ c \notin Sampled(c, Day) /\ Day \in Nat
    BY MeteringTypes
  <2>2. ~(collection[c].captured >= clock - Day)
    BY <2>1, SampledNow
  <2> QED
    BY <2>2, MeteringTypes
<1>8. PeriodsOK'
  <2>1. \A o \in DOMAIN collection \ {c} : collection'[o].pc = collection[o].pc
    BY <1>5
  <2>2. collection'[c].pc = "commit" /\ collection'[c].captured < clock - Day
    BY <1>4, <1>5, <1>7
  <2> QED
    BY <1>1, <1>5, <2>1, <2>2 DEF PeriodsOK
<1>9. CountsEarlier'
  <2>1. \A i \in 1 .. Len(periods) :
          /\ periods'[i] = periods[i] /\ periods[i] \in DOMAIN collection \ {c}
          /\ collection'[periods[i]] = collection[periods[i]]
    BY <1>1, <1>5, MeteringTypes
  <2> QED
    BY <1>1, <2>1 DEF CountsEarlier, CountsIn
<1>10. ASSUME NEW o \in DOMAIN collection PROVE CountsOK(o)'
  <2>1. \A d \in DOMAIN collection : collection'[d].captured = collection[d].captured
    BY <1>5
  <2>2. CountsOK(o) /\ \A g \in Grains : \A d \in collection[o].rollup[g].counted :
                         d \in DOMAIN collection
    BY MeteringTypes DEF MInv, CountsOK
  <2>3. collection'[o].rollup = collection[o].rollup /\ collection'[o].before = collection[o].before
        /\ (collection'[o].pc = collection[o].pc \/ collection'[o].pc = "commit")
    BY <1>4, <1>5
  <2> QED
    BY <1>1, <2>1, <2>2, <2>3 DEF CountsOK, Length
<1> QED
  BY <1>5, <1>6, <1>8, <1>9, <1>10 DEF MInv

\* The rollup of the day takes its place after all that were rolled up before.
LEMMA RollUpDayStep ==
  ASSUME MInv, NEW c \in DOMAIN collection, RollUpDay(c), Sampled(c, Day) # {}
  PROVE  MInv'
<1>1. /\ MeteringTypeOK /\ PeriodsOK /\ CountsEarlier /\ CountsOK(c)
      /\ collection[c] \in Collection /\ collection[c].pc = "daily"
      /\ c \notin committed /\ \A i \in 1 .. Len(periods) : periods[i] # c
      /\ periods' = Append(periods, c) /\ UNCHANGED <<clock, committed>>
  BY MeteringTypes DEF MInv, RollUpDay, PeriodsOK
<1>2. PICK r : r = [end |-> clock, counted |-> Sampled(c, Day)]
  OBVIOUS
<1>3. PICK x : x = [collection[c] EXCEPT !.pc = "commit",
                      !.rollup = [collection[c].rollup EXCEPT !["daily"] = r]]
  OBVIOUS
<1>4. collection' = [collection EXCEPT ![c] = x]
  BY <1>1, <1>2, <1>3 DEF RollUpDay, RolledUp, MeteringTypeOK, Collection
<1>5. r \in Rollup /\ r.end = clock /\ r.counted = Sampled(c, Day)
  BY <1>2, SampledNow, MeteringTypes
<1>6. /\ x \in Collection /\ x.pc = "commit" /\ x.captured = collection[c].captured
      /\ x.before = collection[c].before
      /\ x.rollup["daily"] = r /\ x.rollup["hourly"] = collection[c].rollup["hourly"]
  BY <1>1, <1>3, <1>5 DEF Collection, Grains
<1>7. /\ collection'[c] = x /\ collection' \in Seq(Collection)
      /\ DOMAIN collection' = DOMAIN collection /\ Len(collection') = Len(collection)
      /\ \A o \in DOMAIN collection \ {c} : collection'[o] = collection[o]
      /\ \A o \in DOMAIN collection :
           /\ collection'[o].captured = collection[o].captured
           /\ collection'[o].before = collection[o].before
  BY <1>1, <1>4, <1>6 DEF MeteringTypeOK
<1>8. PICK n \in Nat : n = Len(periods)
  BY MeteringTypes
<1>9. /\ periods' \in Seq(DOMAIN collection) /\ Len(periods') = n + 1 /\ periods'[n + 1] = c
      /\ \A i \in 1 .. n : periods'[i] = periods[i] /\ periods[i] \in DOMAIN collection
      /\ \A i \in 1 .. Len(periods') : i \in 1 .. n \/ i = n + 1
  BY <1>1, <1>8, MeteringTypes DEF MeteringTypeOK
<1>10. MeteringTypeOK'
  BY <1>1, <1>7, <1>9 DEF MeteringTypeOK
<1>11. PeriodsOK'
  BY <1>1, <1>6, <1>7, <1>8, <1>9 DEF PeriodsOK
<1>12. CountsOK(c)'
  <2>1. ASSUME NEW g \in Grains
        PROVE  /\ x.rollup[g].counted \subseteq committed \union {c}
               /\ x.rollup[g].end <= clock
               /\ \A d \in x.rollup[g].counted :
                    x.rollup[g].end - collection'[d].captured <= Length(g)
    <3>1. CASE g = "daily"
      <4>1. x.rollup[g].counted = Sampled(c, Day) /\ x.rollup[g].end = clock /\ Length(g) = Day
        BY <1>5, <1>6, <3>1 DEF Length
      <4>2. /\ clock \in Nat /\ Sampled(c, Day) \subseteq committed \union {c}
            /\ \A d \in Sampled(c, Day) : clock - collection[d].captured <= Day
        BY SampledNow, MeteringTypes
      <4>3. \A d \in Sampled(c, Day) : collection'[d].captured = collection[d].captured
        BY <1>7, <4>2, MeteringTypes
      <4> QED
        BY <4>1, <4>2, <4>3
    <3>2. CASE g = "hourly"
      <4>1. x.rollup[g] = collection[c].rollup[g]
        BY <1>6, <3>2
      <4> QED
        BY <1>1, <1>7, <4>1, MeteringTypes DEF CountsOK
    <3> QED
      BY <3>1, <3>2 DEF Grains
  <2> QED
    BY <1>1, <1>6, <1>7, <2>1 DEF CountsOK, Length
<1>13. ASSUME NEW o \in DOMAIN collection \ {c} PROVE CountsOK(o)'
  <2>1. \A d \in committed \union {o} : collection'[d].captured = collection[d].captured
    BY <1>7, MeteringTypes
  <2>2. clock \in Nat /\ clock' = clock /\ committed' = committed
    BY <1>1, MeteringTypes
  <2> QED
    BY <1>7, <2>1, <2>2, CountsKept
<1>14. CountsEarlier'
  <2> SUFFICES ASSUME NEW i \in 1 .. n + 1, NEW j \in 1 .. n + 1, i <= j,
                      collection'[periods'[i]].pc \in {"commit", "done"},
                      collection'[periods'[j]].pc \in {"commit", "done"}
               PROVE  \/ CountsIn(periods[j], periods[i])'
                      \/ /\ periods'[i] # periods'[j]
                         /\ periods'[i] \notin collection'[periods'[j]].before
                         /\ periods'[j] \notin collection'[periods'[i]].before
    BY <1>9 DEF CountsEarlier
  <2>1. CASE j \in 1 .. n
    <3>1. i \in 1 .. n /\ i \in 1 .. Len(periods) /\ j \in 1 .. Len(periods)
      BY <1>8, <2>1
    <3>2. periods'[i] = periods[i] /\ periods'[j] = periods[j]
          /\ periods[i] # c /\ periods[j] # c
      BY <1>1, <1>9, <2>1, <3>1
    <3>3. /\ collection'[periods'[i]] = collection[periods[i]]
          /\ collection'[periods'[j]] = collection[periods[j]]
      BY <1>7, <1>9, <2>1, <3>1, <3>2
    <3> QED
      BY <1>1, <3>1, <3>2, <3>3 DEF CountsEarlier, CountsIn
  <2>2. CASE j = n + 1
    <3>1. periods'[j] = c /\ periods'[i] \in DOMAIN collection
      BY <1>9, <2>2
    <3>2. CASE periods'[i] \in committed \union {c}
      <4>1. collection[periods'[i]].captured >= clock - Day => periods'[i] \in Sampled(c, Day)
        BY <3>2, SampledNow, MeteringTypes
      <4> QED
        BY <1>5, <1>6, <1>7, <3>1, <4>1 DEF CountsIn
    <3>3. CASE periods'[i] \notin committed \union {c}
      <4>1. CountsOK(periods'[i])
        BY <3>1 DEF MInv
      <4>2. /\ periods'[i] \notin collection[c].before
            /\ c \notin collection[periods'[i]].before
        BY <1>1, <3>3, <4>1 DEF CountsOK
      <4> QED
        BY <1>7, <3>1, <3>3, <4>2
    <3> QED
      BY <3>2, <3>3
  <2> QED
    BY <1>9, <2>1, <2>2
<1> QED
  BY <1>7, <1>10, <1>11, <1>12, <1>13, <1>14 DEF MInv

LEMMA CommitCollectionStep ==
  ASSUME MInv, NEW c \in DOMAIN collection, CommitCollection(c)
  PROVE  MInv'
<1>1. /\ MeteringTypeOK /\ PeriodsOK /\ CountsEarlier /\ CountsOK(c)
      /\ collection[c] \in Collection /\ collection[c].pc = "commit"
      /\ committed' = committed \union {c} /\ UNCHANGED <<clock, periods>>
  BY MeteringTypes DEF MInv, CommitCollection
<1>2. PICK x : x = [collection[c] EXCEPT !.pc = "done"]
  OBVIOUS
<1>3. collection' = [collection EXCEPT ![c] = x]
  BY <1>1, <1>2 DEF CommitCollection, MeteringTypeOK, Collection
<1>4. /\ x \in Collection /\ x.pc = "done" /\ x.captured = collection[c].captured
      /\ x.before = collection[c].before /\ x.rollup = collection[c].rollup
  BY <1>1, <1>2 DEF Collection
<1>5. /\ collection'[c] = x /\ collection' \in Seq(Collection)
      /\ DOMAIN collection' = DOMAIN collection /\ Len(collection') = Len(collection)
      /\ \A o \in DOMAIN collection \ {c} : collection'[o] = collection[o]
      /\ \A o \in DOMAIN collection :
           /\ collection'[o].captured = collection[o].captured
           /\ collection'[o].before = collection[o].before
           /\ collection'[o].rollup = collection[o].rollup
           /\ collection'[o].pc \in {"commit", "done"} => collection[o].pc \in {"commit", "done"}
  BY <1>1, <1>3, <1>4 DEF MeteringTypeOK
<1>6. MeteringTypeOK'
  BY <1>1, <1>5 DEF MeteringTypeOK
<1>7. PeriodsOK'
  BY <1>1, <1>4, <1>5 DEF PeriodsOK
<1>8. CountsEarlier'
  <2> SUFFICES ASSUME NEW i \in 1 .. Len(periods), NEW j \in 1 .. Len(periods), i <= j,
                      collection'[periods[i]].pc \in {"commit", "done"},
                      collection'[periods[j]].pc \in {"commit", "done"}
               PROVE  \/ CountsIn(periods[j], periods[i])'
                      \/ /\ periods[i] # periods[j]
                         /\ periods[i] \notin collection'[periods[j]].before
                         /\ periods[j] \notin collection'[periods[i]].before
    BY <1>1 DEF CountsEarlier
  <2>1. periods[i] \in DOMAIN collection /\ periods[j] \in DOMAIN collection
        /\ periods'[i] = periods[i] /\ periods'[j] = periods[j]
    BY <1>1, MeteringTypes
  <2>2. \/ CountsIn(periods[j], periods[i])
        \/ /\ periods[i] # periods[j]
           /\ periods[i] \notin collection[periods[j]].before
           /\ periods[j] \notin collection[periods[i]].before
    BY <1>1, <1>5, <2>1 DEF CountsEarlier
  <2> QED
    BY <1>5, <2>1, <2>2 DEF CountsIn
<1>9. CountsOK(c)'
  <2>1. \A g \in Grains : \A d \in collection[c].rollup[g].counted :
          collection'[d].captured = collection[d].captured
    BY <1>1, <1>5, MeteringTypes DEF CountsOK
  <2> QED
    BY <1>1, <1>4, <1>5, <2>1 DEF CountsOK, Length
<1>10. ASSUME NEW o \in DOMAIN collection \ {c} PROVE CountsOK(o)'
  <2>1. \A d \in committed \union {o} : collection'[d].captured = collection[d].captured
    BY <1>5, MeteringTypes
  <2>2. clock \in Nat /\ clock' = clock /\ committed \subseteq committed'
    BY <1>1, MeteringTypes
  <2> QED
    BY <1>5, <2>1, <2>2, CountsKept
<1> QED
  BY <1>5, <1>6, <1>7, <1>8, <1>9, <1>10 DEF MInv

LEMMA NextMInv == MInv /\ [MeteringNext]_meteringVars => MInv'
<1> SUFFICES ASSUME MInv, [MeteringNext]_meteringVars PROVE MInv'
  OBVIOUS
<1>1. CASE UNCHANGED meteringVars
  BY <1>1 DEF meteringVars, MInv, MeteringTypeOK, PeriodsOK, CountsEarlier, CountsIn, CountsOK,
              Length
<1>2. CASE TickClock
  BY <1>2, TickClockStep
<1>3. CASE BeginCollection
  BY <1>3, BeginCollectionStep
<1>4. ASSUME NEW c \in DOMAIN collection,
             CollectSample(c) \/ RetryCollection(c) \/ BeginAgain(c) \/ LoseCollection(c)
      PROVE  MInv'
  BY <1>4, EarlyStep
<1>5. ASSUME NEW c \in DOMAIN collection, RollUpHour(c) PROVE MInv'
  BY <1>5, RollUpHourStep
<1>6. ASSUME NEW c \in DOMAIN collection, RollUpDay(c) PROVE MInv'
  BY <1>6, NoDayStep, RollUpDayStep
<1>7. ASSUME NEW c \in DOMAIN collection, CommitCollection(c) PROVE MInv'
  BY <1>7, CommitCollectionStep
<1> QED
  BY <1>1, <1>2, <1>3, <1>4, <1>5, <1>6, <1>7 DEF MeteringNext

\* The collections' stages, what their rollups count and the order of their periods, in
\* every state.
THEOREM MeteringInvariance == MeteringSpec => []MInv
<1> QED
  BY InitMInv, NextMInv, PTL DEF MeteringSpec

\* The clock, the collections, their periods and what is committed have their types.
THEOREM MeteringTyping == MeteringSpec => []MeteringTypeOK
<1>1. MInv => MeteringTypeOK
  BY DEF MInv
<1> QED
  BY <1>1, MeteringInvariance, PTL

\* The last rollup that counts a sample is not pushed out of the summary: all that are
\* newer than it overlapped the sample's own collection.
LEMMA LastCountIsShown ==
  ASSUME MInv, NEW c \in committed, collection[c].captured >= clock - Day,
         Cardinality(Overlapping(c)) < SummaryRows
  PROVE  \E d \in Summary : c \in collection[d].rollup["daily"].counted
<1>1. /\ PeriodsOK /\ CountsEarlier /\ c \in DOMAIN collection
      /\ \A d \in committed : d \in DOMAIN collection /\ collection[d].pc = "done"
  BY MeteringTypes DEF MInv, PeriodsOK
<1>2. PICK n \in Nat : n = Len(periods) /\ DOMAIN periods = 1 .. n
  BY MeteringTypes
<1>3. PICK first \in 1 .. n : periods[first] = c
  <2>1. ~(collection[c].captured < clock - Day)
    BY <1>1, MeteringTypes
  <2> QED
    BY <1>1, <1>2, <2>1 DEF PeriodsOK
<1>4. ASSUME NEW j \in first .. n, periods[j] \in committed
      PROVE  \/ c \in collection[periods[j]].rollup["daily"].counted
             \/ periods[j] \in Overlapping(c)
  <2>1. PICK d \in committed : d = periods[j]
    BY <1>4
  <2>2. d \in DOMAIN collection /\ "daily" \in Grains
    BY <1>1 DEF Grains
  <2>3. collection[d].rollup["daily"].end <= clock
    BY <2>2 DEF MInv, CountsOK
  <2>4. collection[c].captured >= collection[d].rollup["daily"].end - Day
    BY <1>1, <2>2, <2>3, MeteringTypes
  <2>5. first \in 1 .. Len(periods) /\ j \in 1 .. Len(periods) /\ first <= j
    BY <1>2
  <2>6. \/ CountsIn(d, c)
        \/ c # d /\ c \notin collection[d].before /\ d \notin collection[c].before
    BY <1>1, <1>3, <2>1, <2>5 DEF CountsEarlier
  <2> QED
    BY <2>1, <2>4, <2>6 DEF CountsIn, Overlapping
<1>5. PICK J : J = {j \in first .. n : /\ periods[j] \in committed
                                    /\ c \in collection[periods[j]].rollup["daily"].counted}
  OBVIOUS
<1>6. PICK m \in J : \A j \in J : j <= m
  <2>1. c \notin Overlapping(c)
    BY DEF Overlapping
  <2>2. first \in J
    BY <1>3, <1>4, <1>5, <2>1
  <2>3. J \in SUBSET (1 .. n) /\ J # {}
    BY <1>5, <2>2
  <2> QED
    BY <2>3, LastOf
<1>7. PICK d \in committed : d = periods[m] /\ c \in collection[d].rollup["daily"].counted
  BY <1>5, <1>6
<1>8. Newer(d) \subseteq Overlapping(c)
  <2> SUFFICES ASSUME NEW e \in Newer(d) PROVE e \in Overlapping(c)
    OBVIOUS
  <2>1. PICK i \in 1 .. n, j \in 1 .. n : i < j /\ periods[i] = d /\ periods[j] = e
    BY <1>2 DEF Newer
  <2>2. i = m
    BY <1>1, <1>2, <1>5, <1>6, <1>7, <2>1 DEF PeriodsOK
  <2>3. j \in first .. n /\ j \notin J /\ e \in committed
    BY <1>5, <1>6, <2>1, <2>2 DEF Newer
  <2> QED
    BY <1>4, <1>5, <2>1, <2>3
<1>9. IsFiniteSet(Overlapping(c))
  <2>1. Overlapping(c) \in SUBSET (1 .. Len(collection)) /\ Len(collection) \in Nat
    BY MeteringTypes DEF Overlapping
  <2>2. IsFiniteSet(1 .. Len(collection))
    BY <2>1, FS_Interval
  <2> QED
    BY <2>1, <2>2, FS_Subset, Zenon
<1>10. Cardinality(Newer(d)) < SummaryRows
  <2>1. IsFiniteSet(Newer(d)) /\ Cardinality(Newer(d)) <= Cardinality(Overlapping(c))
    BY <1>8, <1>9, FS_Subset, Zenon
  <2>2. Cardinality(Newer(d)) \in Nat /\ Cardinality(Overlapping(c)) \in Nat
    BY <1>9, <2>1, FS_CardinalityType, Zenon
  <2> QED
    BY <2>1, <2>2, MeteringAssumption
<1>11. m \in DOMAIN periods /\ periods[m] = d
  BY <1>2, <1>5, <1>6, <1>7
<1> QED
  BY <1>7, <1>10, <1>11 DEF Summary

\* However collections overlap, fail and are repeated, a sample of the last day is in
\* what the FinOps summary adds up, unless too many overlapped its collection, and a
\* rollup counts only what is committed and of its period (metering/collector.py,
\* tenant_finops_summary).
THEOREM UsageIsBilled == MeteringSpec => []RecentUsageIsBilled
<1>1. ASSUME MInv PROVE RecentUsageIsBilled
  <2>1. ASSUME NEW d \in committed, NEW g \in Grains
        PROVE  /\ collection[d].rollup[g].counted \subseteq committed
               /\ \A c \in collection[d].rollup[g].counted :
                    collection[d].rollup[g].end - collection[c].captured
                      <= IF g = "hourly" THEN Hour ELSE Day
    <3>1. CountsOK(d)
      BY <1>1, MeteringTypes DEF MInv
    <3> QED
      BY <3>1 DEF CountsOK, Length
  <2> QED
    BY <1>1, <2>1, LastCountIsShown DEF RecentUsageIsBilled
<1> QED
  BY <1>1, MeteringInvariance, PTL

--------------------------------------------------------------------------------
(* All of them together *)

\* What the run checks of all components at once is what is proved of each: a
\* behaviour of the joint specification is one of every component.
THEOREM EachTask == Spec => ExportsSpec /\ DriftSpec /\ MeteringSpec /\ ProvisioningSpec
<1>1. Init => ExportsInit /\ DriftInit /\ MeteringInit /\ ProvisioningInit
  BY DEF Init
<1>2. [Next]_vars => /\ [ExportsNext]_exportVars /\ [DriftNext]_driftVars
                     /\ [MeteringNext]_meteringVars /\ [ProvisioningNext]_provisioningVars
  <2> SUFFICES ASSUME [Next]_vars
               PROVE  /\ [ExportsNext]_exportVars /\ [DriftNext]_driftVars
                      /\ [MeteringNext]_meteringVars /\ [ProvisioningNext]_provisioningVars
    OBVIOUS
  <2>1. CASE ExportsNext /\ UNCHANGED <<exercised, driftVars, meteringVars, provisioningVars>>
    BY <2>1
  <2>2. CASE DriftNext /\ UNCHANGED <<exercised, exportVars, meteringVars, provisioningVars>>
    BY <2>2
  <2>3. CASE MeteringNext /\ UNCHANGED <<exercised, exportVars, driftVars, provisioningVars>>
    BY <2>3
  <2>4. CASE ProvisioningNext /\ UNCHANGED <<exercised, exportVars, driftVars, meteringVars>>
    BY <2>4
  <2>5. CASE UNCHANGED vars
    BY <2>5 DEF vars
  <2> QED
    BY <2>1, <2>2, <2>3, <2>4, <2>5 DEF Next
<1> QED
  BY <1>1, <1>2, PTL DEF Spec, ExportsSpec, DriftSpec, MeteringSpec, ProvisioningSpec

\* Every variable of the joint specification keeps its type.
THEOREM TypeCorrect == Spec => []TypeOK
<1>1. ExportsTypeOK /\ DriftTypeOK /\ MeteringTypeOK /\ ProvisioningTypeOK => TypeOK
  BY DEF TypeOK
<1> QED
  BY <1>1, EachTask, ExportsTyping, DriftTyping, MeteringTyping, ProvisioningTyping, PTL

================================================================================
