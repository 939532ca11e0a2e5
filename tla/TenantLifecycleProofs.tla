------------------------- MODULE TenantLifecycleProofs -------------------------
(***************************************************************************)
(* Safety of TenantLifecycle for any number of tenants, workers and jobs   *)
(* and any max_retries.  The invariants of the runs are not inductive: a   *)
(* step of a worker is right because of what its earlier steps left in its *)
(* local state, which TaskShape records.                                   *)
(***************************************************************************)
EXTENDS TenantLifecycle, StatusTimelineProofs, TLAPS

\* The continuation that goes with each status a task sets.
Follows(goal, then) ==
  \/ goal = "PROVISIONING" /\ then = "provision"
  \/ goal = "BOOTSTRAPPING" /\ then = "bootstrap"
  \/ goal = "READY" /\ then = "completed"
  \/ goal = "ERROR" /\ then \in {"failed", "done"}
  \/ goal = "FAILED_RETRYABLE" /\ then = "done"

\* What a worker's local state says at each stage of a task.
TaskShape ==
  \A w \in Workers :
    /\ worker[w].pc = "idle" <=> worker[w].job = NoJob
    /\ worker[w].pc = "write" => worker[w].from # Absent
    /\ worker[w].pc \in {"start", "provision", "bootstrap"} => worker[w].goal \notin Final
    /\ worker[w].pc \in {"read", "write"} =>
         /\ Follows(worker[w].goal, worker[w].then)
         /\ worker[w].goal = "READY" => Subject(w) \in bootstrapped
    /\ worker[w].pc = "completed" => settled[worker[w].job] = "READY"
    /\ worker[w].pc = "failed" => settled[worker[w].job] = "ERROR"

\* Whatever is queued or held was sent for a tenant.
KnownTargets ==
  /\ \A m \in broker : target[m.job] # NoTenant
  /\ \A w \in Workers : worker[w].job # NoJob => target[worker[w].job] # NoTenant

\* A job that was not sent, or that still has work to do, is not settled.
LiveIsUnsettled ==
  /\ \A j \in Jobs : target[j] = NoTenant => settled[j] = Running
  /\ \A m \in broker : settled[m.job] = Running
  /\ \A w \in Workers :
       worker[w].pc \in {"start", "provision", "bootstrap", "read", "write"} =>
         settled[worker[w].job] = Running

IInv ==
  /\ TypeOK
  /\ SingleCarrier
  /\ TaskShape
  /\ KnownTargets
  /\ LiveIsUnsettled
  /\ ReadyIsEarned
  /\ AuditAgreesWithOutcome

LEMMA InitIInv == Init => IInv
<1> SUFFICES ASSUME Init PROVE IInv
  OBVIOUS
<1>1. Idle \in Task
  BY ConstantsAssumption DEF Idle, Task, Stages, Statuses, DefaultStatus
<1>2. TypeOK
  BY <1>1 DEF Init, TypeOK
<1> QED
  BY <1>2, ConstantsAssumption
  DEF Init, IInv, SingleCarrier, TaskShape, KnownTargets, LiveIsUnsettled,
      ReadyIsEarned, AuditAgreesWithOutcome, Idle, Absent, Running

--------------------------------------------------------------------------------
(* How each helper changes the one worker it is about. *)

LEMMA SetStatusEffect ==
  ASSUME TypeOK, NEW w \in Workers, NEW s \in Statuses, NEW n \in Stages,
         SetStatus(w, s, n)
  PROVE  /\ worker' \in [Workers -> Task]
         /\ worker'[w] = [worker[w] EXCEPT !.pc = "read", !.goal = s, !.then = n]
         /\ \A v \in Workers \ {w} : worker'[v] = worker[v]
<1> DEFINE r == [worker[w] EXCEPT !.pc = "read", !.goal = s, !.then = n]
<1>1. worker \in [Workers -> Task]
  BY DEF TypeOK
<1>2. r \in Task
  BY <1>1 DEF Task
<1>3. worker' = [worker EXCEPT ![w] = r]
  BY <1>1 DEF SetStatus, Task
<1> QED
  BY <1>1, <1>2, <1>3

LEMMA GoToEffect ==
  ASSUME TypeOK, NEW w \in Workers, NEW n \in Stages, GoTo(w, n)
  PROVE  /\ worker' \in [Workers -> Task]
         /\ worker'[w] = [worker[w] EXCEPT !.pc = n]
         /\ \A v \in Workers \ {w} : worker'[v] = worker[v]
<1> DEFINE r == [worker[w] EXCEPT !.pc = n]
<1>1. r \in Task
  BY ZenonT(40) DEF TypeOK, Task
<1>2. worker' = [worker EXCEPT ![w] = r]
  BY DEF GoTo, TypeOK, Task
<1> QED
  BY <1>1, <1>2 DEF TypeOK

LEMMA ReleaseEffect ==
  ASSUME TypeOK, NEW w \in Workers, Release(w)
  PROVE  /\ worker' \in [Workers -> Task]
         /\ worker'[w] = Idle
         /\ \A v \in Workers \ {w} : worker'[v] = worker[v]
<1>1. Idle \in Task
  BY ConstantsAssumption DEF Idle, Task, Stages, Statuses, DefaultStatus
<1> QED
  BY <1>1 DEF TypeOK, Release

LEMMA ReadStatusEffect ==
  ASSUME TypeOK, NEW w \in Workers, ReadStatus(w), Subject(w) \in Tenants
  PROVE  /\ worker' \in [Workers -> Task]
         /\ worker'[w] = [worker[w] EXCEPT !.pc = "write", !.from = row[Subject(w)]]
         /\ row[Subject(w)] \in Statuses
         /\ \A v \in Workers \ {w} : worker'[v] = worker[v]
<1> DEFINE r == [worker[w] EXCEPT !.pc = "write", !.from = row[Subject(w)]]
<1>1. row[Subject(w)] \in Statuses
  BY DEF TypeOK, ReadStatus
<1>2. r \in Task
  BY <1>1, ZenonT(40) DEF TypeOK, Task
<1>3. worker' = [worker EXCEPT ![w] = r]
  BY DEF ReadStatus, TypeOK, Task
<1> QED
  BY <1>1, <1>2, <1>3 DEF TypeOK

LEMMA TakeMessageEffect ==
  ASSUME TypeOK, NEW w \in Workers, TakeMessage(w)
  PROVE  \E m \in broker :
           /\ m \in Message
           /\ broker' = broker \ {m}
           /\ worker' \in [Workers -> Task]
           /\ worker'[w] = [Idle EXCEPT !.pc = "start", !.job = m.job,
                                        !.retries = m.retries]
           /\ \A v \in Workers \ {w} : worker'[v] = worker[v]
<1>1. PICK m \in broker :
        /\ broker' = broker \ {m}
        /\ worker' = [worker EXCEPT ![w] =
             [Idle EXCEPT !.pc = "start", !.job = m.job, !.retries = m.retries]]
  BY DEF TakeMessage
<1>2. m \in Message
  BY DEF TypeOK
<1>3. [Idle EXCEPT !.pc = "start", !.job = m.job, !.retries = m.retries] \in Task
  BY <1>2, ConstantsAssumption DEF Idle, Task, Message, Stages, Statuses, DefaultStatus
<1> QED
  BY <1>1, <1>2, <1>3 DEF TypeOK

\* A worker that is not idle holds a job that was sent for a tenant.
LEMMA BusyWorker ==
  ASSUME IInv, NEW w \in Workers, worker[w].pc # "idle"
  PROVE  /\ worker[w] \in Task
         /\ worker[w].job \in Jobs
         /\ Subject(w) \in Tenants
<1>1. worker[w] \in Task
  BY DEF IInv, TypeOK
<1>2. worker[w].job \in Jobs
  BY <1>1 DEF IInv, TaskShape, Task
<1> QED
  BY <1>1, <1>2, ConstantsAssumption DEF IInv, TypeOK, KnownTargets, Subject

--------------------------------------------------------------------------------
(* The steps, grouped by what they do to the worker's task. *)

\* A working task sets out to write a status.
LEMMA SetStatusStep ==
  ASSUME IInv, NEW w \in Workers, NEW s \in Statuses, NEW n \in Stages,
         worker[w].pc \in {"start", "provision", "bootstrap"},
         SetStatus(w, s, n), Follows(s, n),
         s = "READY" => Subject(w) \in bootstrapped',
         bootstrapped \subseteq bootstrapped', bootstrapped' \subseteq Tenants,
         audit' \in {audit, audit \union {<<worker[w].job, "started">>}},
         UNCHANGED <<row, history, began, request, target, broker, settled>>
  PROVE  IInv'
<1>1. TypeOK
  BY DEF IInv
<1>2. /\ worker[w] \in Task
      /\ worker[w].job \in Jobs
      /\ Subject(w) \in Tenants
  BY BusyWorker
<1>3. /\ worker' \in [Workers -> Task]
      /\ worker'[w] = [worker[w] EXCEPT !.pc = "read", !.goal = s, !.then = n]
      /\ \A v \in Workers \ {w} : worker'[v] = worker[v]
  BY <1>1, SetStatusEffect
<1>4. /\ \A v \in Workers : worker'[v].job = worker[v].job
      /\ worker'[w].pc = "read" /\ worker'[w].goal = s /\ worker'[w].then = n
  BY <1>2, <1>3, ZenonT(40) DEF Task
<1>5. audit' \in SUBSET (Jobs \X {"started", "completed", "failed"})
  BY <1>1, <1>2 DEF TypeOK
<1>6. TypeOK'
  BY <1>1, <1>3, <1>5 DEF TypeOK
<1>7. SingleCarrier'
  BY <1>4 DEF IInv, SingleCarrier
<1>8. KnownTargets'
  BY <1>4 DEF IInv, KnownTargets
<1>9. TaskShape'
  <2> SUFFICES ASSUME NEW v \in Workers
               PROVE  TaskShape!(v)'
    BY DEF TaskShape
  <2>1. CASE v = w
    BY <2>1, <1>2, <1>4, ConstantsAssumption DEF Subject
  <2>2. CASE v # w
    BY <2>2, <1>3 DEF IInv, TaskShape, Subject
  <2> QED
    BY <2>1, <2>2
<1>10. LiveIsUnsettled'
  BY <1>3, <1>4 DEF IInv, LiveIsUnsettled
<1>11. ReadyIsEarned'
  BY DEF IInv, ReadyIsEarned
<1>12. AuditAgreesWithOutcome'
  <2>1. \A j \in Jobs, a \in {"completed", "failed"} :
          <<j, a>> # <<worker[w].job, "started">>
    OBVIOUS
  <2>2. \A j \in Jobs, a \in {"completed", "failed"} :
          <<j, a>> \in audit' => <<j, a>> \in audit
    BY <2>1
  <2> QED
    BY <2>2 DEF IInv, AuditAgreesWithOutcome
<1> QED
  BY <1>6, <1>7, <1>8, <1>9, <1>10, <1>11, <1>12 DEF IInv

\* A task leaves its worker, and perhaps goes back to the queue.
LEMMA ReleaseStep ==
  ASSUME IInv, NEW w \in Workers, worker[w].pc # "idle", Release(w),
         \/ broker' = broker
         \/ /\ worker[w].pc \in {"provision", "bootstrap"}
            /\ worker[w].retries < MaxRetries
            /\ broker' = broker \union
                 {[job |-> worker[w].job, retries |-> worker[w].retries + 1]},
         UNCHANGED <<row, history, began, request, target, bootstrapped, settled, audit>>
  PROVE  IInv'
<1> DEFINE again == [job |-> worker[w].job, retries |-> worker[w].retries + 1]
<1>1. TypeOK
  BY DEF IInv
<1>2. /\ worker[w] \in Task
      /\ worker[w].job \in Jobs
      /\ Subject(w) \in Tenants
  BY BusyWorker
<1>3. /\ worker' \in [Workers -> Task]
      /\ worker'[w] = Idle
      /\ \A v \in Workers \ {w} : worker'[v] = worker[v]
  BY <1>1, ReleaseEffect
<1>4. Idle.job = NoJob /\ Idle.pc = "idle"
  BY DEF Idle
<1>5. broker' \subseteq broker \union {again}
  OBVIOUS
<1>6. \A m \in broker' : m \in broker \/
        (m = again /\ worker[w].pc \in {"provision", "bootstrap"})
  OBVIOUS
<1>7. again.job = worker[w].job
  OBVIOUS
<1>8. broker' \in SUBSET Message
  <2>1. worker[w].retries \in 0 .. MaxRetries
    BY <1>2 DEF Task
  <2>2. worker[w].retries < MaxRetries => again \in Message
    BY <1>2, <2>1, ConstantsAssumption DEF Message
  <2> QED
    BY <1>1, <2>2 DEF TypeOK
<1>9. TypeOK'
  BY <1>1, <1>3, <1>8 DEF TypeOK
<1>10. SingleCarrier'
  <2>1. \A v \in Workers : worker'[v].job # NoJob => v # w /\ worker'[v] = worker[v]
    BY <1>3, <1>4
  <2>2. \A m1, m2 \in broker' : m1.job = m2.job => m1 = m2
    BY <1>6, <1>7 DEF IInv, SingleCarrier
  <2>3. \A w1, w2 \in Workers :
          worker'[w1].job = worker'[w2].job /\ worker'[w1].job # NoJob => w1 = w2
    BY <2>1 DEF IInv, SingleCarrier
  <2>4. ASSUME NEW m \in broker', NEW v \in Workers
        PROVE  m.job # worker'[v].job
    <3>1. m.job \in Jobs
      BY <1>8 DEF Message
    <3>2. CASE worker'[v].job = NoJob
      BY <3>1, <3>2, ConstantsAssumption
    <3>3. CASE worker'[v].job # NoJob
      <4>1. v # w /\ worker'[v] = worker[v]
        BY <2>1, <3>3
      <4>2. CASE m \in broker
        BY <4>1, <4>2 DEF IInv, SingleCarrier
      <4>3. CASE m = again
        BY <4>1, <4>3, <1>7, <3>3 DEF IInv, SingleCarrier
      <4> QED
        BY <4>2, <4>3, <1>6
    <3> QED
      BY <3>2, <3>3
  <2> QED
    BY <2>2, <2>3, <2>4 DEF SingleCarrier
<1>11. KnownTargets'
  BY <1>2, <1>3, <1>4, <1>6, <1>7, ConstantsAssumption DEF IInv, KnownTargets
<1>12. TaskShape'
  BY <1>3, <1>4 DEF IInv, TaskShape, Subject
<1>13. LiveIsUnsettled'
  BY <1>3, <1>4, <1>6, <1>7 DEF IInv, LiveIsUnsettled
<1>14. ReadyIsEarned' /\ AuditAgreesWithOutcome'
  BY DEF IInv, ReadyIsEarned, AuditAgreesWithOutcome
<1> QED
  BY <1>9, <1>10, <1>11, <1>12, <1>13, <1>14 DEF IInv

\* The status transaction of a task commits.
LEMMA WriteStatusStep ==
  ASSUME IInv, NEW w \in Workers, WriteStatus(w)
  PROVE  IInv'
<1> DEFINE t == Subject(w)
           goal == worker[w].goal
           entry == [from |-> worker[w].from, to |-> goal, by |-> worker[w].job,
                     began |-> began[w]]
<1>1. TypeOK
  BY DEF IInv
<1>2. worker[w].pc = "write" /\ row[t] # Absent
  BY DEF WriteStatus
<1>3. /\ worker[w] \in Task
      /\ worker[w].job \in Jobs
      /\ t \in Tenants
  BY <1>2, BusyWorker
<1>4. /\ worker[w].then \in Stages
      /\ goal \in Statuses
      /\ worker[w].from \in Statuses
  BY <1>2, <1>3 DEF IInv, TaskShape, Task
<1>5. /\ worker' \in [Workers -> Task]
      /\ worker'[w] = [worker[w] EXCEPT !.pc = worker[w].then]
      /\ \A v \in Workers \ {w} : worker'[v] = worker[v]
  BY <1>1, <1>4, GoToEffect DEF WriteStatus
<1>6. /\ \A v \in Workers : worker'[v].job = worker[v].job
      /\ worker'[w].pc = worker[w].then
      /\ worker'[w].pc \in Stages
      /\ worker'[w].goal = worker[w].goal
  BY <1>3, <1>4, <1>5 DEF Task
<1>7. /\ settled' = [settled EXCEPT ![worker[w].job] = IF goal \in Final THEN goal ELSE @]
      /\ row' = [row EXCEPT ![t] = IF goal = worker[w].from THEN @ ELSE goal]
      /\ history' = [history EXCEPT ![t] = Append(@, entry)]
      /\ UNCHANGED <<began, request, target, broker, bootstrapped, audit>>
  BY DEF WriteStatus, ColumnAfter
<1>8. settled[worker[w].job] = Running
  BY <1>2 DEF IInv, LiveIsUnsettled
<1>9. Follows(goal, worker[w].then)
  BY <1>2 DEF IInv, TaskShape
<1>10. goal = "READY" => t \in bootstrapped
  BY <1>2 DEF IInv, TaskShape
<1>11. /\ settled'[worker[w].job] = IF goal \in Final THEN goal ELSE Running
       /\ \A j \in Jobs \ {worker[w].job} : settled'[j] = settled[j]
  BY <1>1, <1>3, <1>7, <1>8 DEF TypeOK
<1>12. TypeOK'
  <2>1. entry \in Entry
    BY <1>1, <1>3, <1>4 DEF Entry, TypeOK
  <2>2. history' \in [Tenants -> Seq(Entry)]
    BY <1>1, <1>3, <1>7, <2>1 DEF TypeOK
  <2>3. row' \in [Tenants -> Statuses \union {Absent}]
    BY <1>1, <1>3, <1>4, <1>7 DEF TypeOK
  <2>4. settled' \in [Jobs -> Final \union {Running}]
    BY <1>1, <1>3, <1>7 DEF TypeOK
  <2> QED
    BY <1>1, <1>5, <1>7, <2>2, <2>3, <2>4 DEF TypeOK
<1>13. SingleCarrier'
  BY <1>6, <1>7 DEF IInv, SingleCarrier
<1>14. KnownTargets'
  BY <1>6, <1>7 DEF IInv, KnownTargets
<1>15. \A v \in Workers \ {w} :
         worker[v].job # NoJob => settled'[worker[v].job] = settled[worker[v].job]
  <2> SUFFICES ASSUME NEW v \in Workers \ {w}, worker[v].job # NoJob
               PROVE  settled'[worker[v].job] = settled[worker[v].job]
    OBVIOUS
  <2>1. worker[v].job \in Jobs
    BY <1>1 DEF TypeOK, Task
  <2>2. worker[v].job # worker[w].job
    BY DEF IInv, SingleCarrier
  <2> QED
    BY <2>1, <2>2, <1>11
<1>16. TaskShape'
  <2> SUFFICES ASSUME NEW v \in Workers
               PROVE  TaskShape!(v)'
    BY DEF TaskShape
  <2>1. CASE v = w
    BY <2>1, <1>3, <1>4, <1>6, <1>9, <1>11, ConstantsAssumption
    DEF Follows, Final, Stages
  <2>2. CASE v # w
    BY <2>2, <1>5, <1>7, <1>15 DEF IInv, TaskShape, Subject
  <2> QED
    BY <2>1, <2>2
<1>17. LiveIsUnsettled'
  <2>1. target[worker[w].job] # NoTenant
    BY <1>3, ConstantsAssumption DEF Subject
  <2>2. \A j \in Jobs : target'[j] = NoTenant => settled'[j] = Running
    BY <2>1, <1>7, <1>11 DEF IInv, LiveIsUnsettled
  <2>3. \A m \in broker' : settled'[m.job] = Running
    BY <1>1, <1>3, <1>7, <1>11 DEF IInv, LiveIsUnsettled, SingleCarrier, TypeOK, Message
  <2>4. ASSUME NEW v \in Workers,
               worker'[v].pc \in {"start", "provision", "bootstrap", "read", "write"}
        PROVE  settled'[worker'[v].job] = Running
    <3>1. CASE v = w
      BY <3>1, <2>4, <1>6, <1>9, <1>11 DEF Follows, Final
    <3>2. CASE v # w
      BY <3>2, <2>4, <1>5, <1>15 DEF IInv, LiveIsUnsettled, TaskShape
    <3> QED
      BY <3>1, <3>2
  <2> QED
    BY <2>2, <2>3, <2>4 DEF LiveIsUnsettled
<1>18. ReadyIsEarned'
  BY <1>1, <1>3, <1>7, <1>10 DEF IInv, ReadyIsEarned, TypeOK
<1>19. AuditAgreesWithOutcome'
  BY <1>3, <1>7, <1>8, <1>11 DEF IInv, AuditAgreesWithOutcome, Running
<1> QED
  BY <1>12, <1>13, <1>14, <1>16, <1>17, <1>18, <1>19 DEF IInv

\* A worker takes a message: the job moves from the queue to the worker.
LEMMA TakeMessageStep ==
  ASSUME IInv, NEW w \in Workers, TakeMessage(w)
  PROVE  IInv'
<1>1. TypeOK
  BY DEF IInv
<1>2. PICK m \in broker :
        /\ m \in Message
        /\ broker' = broker \ {m}
        /\ worker' \in [Workers -> Task]
        /\ worker'[w] = [Idle EXCEPT !.pc = "start", !.job = m.job, !.retries = m.retries]
        /\ \A v \in Workers \ {w} : worker'[v] = worker[v]
  BY <1>1, TakeMessageEffect
<1>3. /\ worker'[w].pc = "start" /\ worker'[w].job = m.job
      /\ m.job \in Jobs /\ m.job # NoJob
      /\ worker'[w].goal \notin Final
  BY <1>2, ConstantsAssumption DEF Idle, Message, DefaultStatus, Final
<1>4. UNCHANGED <<row, history, began, request, target, bootstrapped, settled, audit>>
  BY DEF TakeMessage, dbVars, tasksVars
<1>5. TypeOK'
  BY <1>1, <1>2, <1>4 DEF TypeOK
<1>6. \A n \in broker' : n \in broker /\ n.job # m.job
  <2> SUFFICES ASSUME NEW n \in broker' PROVE n \in broker /\ n.job # m.job
    OBVIOUS
  <2>1. n \in broker /\ n # m
    BY <1>2
  <2> QED
    BY <2>1 DEF IInv, SingleCarrier
<1>7. /\ SingleCarrier!2
      /\ \A v \in Workers : m.job # worker[v].job
  BY DEF IInv, SingleCarrier
<1>8. SingleCarrier'
  <2>1. \A m1, m2 \in broker' : m1.job = m2.job => m1 = m2
    BY <1>6 DEF IInv, SingleCarrier
  <2>2. ASSUME NEW w1 \in Workers, NEW w2 \in Workers,
               worker'[w1].job = worker'[w2].job, worker'[w1].job # NoJob
        PROVE  w1 = w2
    <3>1. CASE w1 = w /\ w2 # w
      BY <3>1, <2>2, <1>2, <1>3, <1>7
    <3>2. CASE w1 # w /\ w2 = w
      BY <3>2, <2>2, <1>2, <1>3, <1>7
    <3>3. CASE w1 # w /\ w2 # w
      BY <3>3, <2>2, <1>2, <1>7
    <3> QED
      BY <3>1, <3>2, <3>3
  <2>3. ASSUME NEW n \in broker', NEW v \in Workers
        PROVE  n.job # worker'[v].job
    <3>1. CASE v = w
      BY <3>1, <1>3, <1>6
    <3>2. CASE v # w
      BY <3>2, <1>2, <1>6 DEF IInv, SingleCarrier
    <3> QED
      BY <3>1, <3>2
  <2> QED
    BY <2>1, <2>2, <2>3 DEF SingleCarrier
<1>9. target[m.job] # NoTenant /\ settled[m.job] = Running
  BY DEF IInv, KnownTargets, LiveIsUnsettled
<1>10. KnownTargets'
  <2>1. \A v \in Workers : worker'[v].job # NoJob => target[worker'[v].job] # NoTenant
    <3> SUFFICES ASSUME NEW v \in Workers, worker'[v].job # NoJob
                 PROVE  target[worker'[v].job] # NoTenant
      OBVIOUS
    <3>1. CASE v = w
      BY <3>1, <1>3, <1>9
    <3>2. CASE v # w
      BY <3>2, <1>2 DEF IInv, KnownTargets
    <3> QED
      BY <3>1, <3>2
  <2>2. \A n \in broker' : target[n.job] # NoTenant
    BY <1>6 DEF IInv, KnownTargets
  <2> QED
    BY <1>4, <2>1, <2>2 DEF KnownTargets
<1>11. TaskShape'
  <2> SUFFICES ASSUME NEW v \in Workers
               PROVE  TaskShape!(v)'
    BY DEF TaskShape
  <2>1. CASE v = w
    BY <2>1, <1>3
  <2>2. CASE v # w
    BY <2>2, <1>2, <1>4 DEF IInv, TaskShape, Subject
  <2> QED
    BY <2>1, <2>2
<1>12. LiveIsUnsettled'
  <2>1. \A v \in Workers :
          worker'[v].pc \in {"start", "provision", "bootstrap", "read", "write"} =>
            settled[worker'[v].job] = Running
    <3> SUFFICES ASSUME NEW v \in Workers,
                   worker'[v].pc \in {"start", "provision", "bootstrap", "read", "write"}
                 PROVE  settled[worker'[v].job] = Running
      OBVIOUS
    <3>1. CASE v = w
      BY <3>1, <1>3, <1>9
    <3>2. CASE v # w
      BY <3>2, <1>2 DEF IInv, LiveIsUnsettled
    <3> QED
      BY <3>1, <3>2
  <2>2. \A n \in broker' : settled[n.job] = Running
    BY <1>6 DEF IInv, LiveIsUnsettled
  <2> QED
    BY <1>4, <2>1, <2>2 DEF IInv, LiveIsUnsettled
<1>13. ReadyIsEarned' /\ AuditAgreesWithOutcome'
  BY <1>4 DEF IInv, ReadyIsEarned, AuditAgreesWithOutcome
<1> QED
  BY <1>5, <1>8, <1>10, <1>11, <1>12, <1>13 DEF IInv

\* The SELECT of the status transaction.
LEMMA ReadStatusStep ==
  ASSUME IInv, NEW w \in Workers, ReadStatus(w)
  PROVE  IInv'
<1>1. TypeOK /\ worker[w].pc = "read"
  BY DEF IInv, ReadStatus
<1>2. worker[w] \in Task /\ worker[w].job \in Jobs /\ Subject(w) \in Tenants
  BY <1>1, BusyWorker
<1>3. /\ worker' \in [Workers -> Task]
      /\ worker'[w] = [worker[w] EXCEPT !.pc = "write", !.from = row[Subject(w)]]
      /\ row[Subject(w)] \in Statuses
      /\ \A v \in Workers \ {w} : worker'[v] = worker[v]
  BY <1>1, <1>2, ReadStatusEffect
<1>4. /\ \A v \in Workers : worker'[v].job = worker[v].job
      /\ worker'[w].pc = "write" /\ worker'[w].from = row[Subject(w)]
      /\ worker'[w].goal = worker[w].goal /\ worker'[w].then = worker[w].then
  BY <1>2, <1>3 DEF Task
<1>5. UNCHANGED <<row, history, request, target, broker, bootstrapped, settled, audit>>
  BY DEF ReadStatus, tasksVars
<1>6. TypeOK'
  <2>1. Len(history[Subject(w)]) \in Nat
    BY <1>1, <1>2, LenProperties DEF TypeOK
  <2>2. began' \in [Workers -> Nat]
    BY <1>1, <2>1 DEF TypeOK, ReadStatus
  <2> QED
    BY <1>1, <1>3, <1>5, <2>2 DEF TypeOK
<1>7. SingleCarrier' /\ KnownTargets'
  BY <1>4, <1>5 DEF IInv, SingleCarrier, KnownTargets
<1>8. row[Subject(w)] # Absent
  BY DEF ReadStatus
<1>9. TaskShape'
  <2> SUFFICES ASSUME NEW v \in Workers
               PROVE  TaskShape!(v)'
    BY DEF TaskShape
  <2>1. CASE v = w
    BY <2>1, <1>1, <1>2, <1>4, <1>5, <1>8, ConstantsAssumption
    DEF IInv, TaskShape, Subject
  <2>2. CASE v # w
    BY <2>2, <1>3, <1>5 DEF IInv, TaskShape, Subject
  <2> QED
    BY <2>1, <2>2
<1>10. LiveIsUnsettled'
  BY <1>1, <1>3, <1>4, <1>5 DEF IInv, LiveIsUnsettled
<1>11. ReadyIsEarned' /\ AuditAgreesWithOutcome'
  BY <1>5 DEF IInv, ReadyIsEarned, AuditAgreesWithOutcome
<1> QED
  BY <1>6, <1>7, <1>9, <1>10, <1>11 DEF IInv

\* The closing audit event.
LEMMA WriteAuditStep ==
  ASSUME IInv, NEW w \in Workers, WriteAudit(w)
  PROVE  IInv'
<1>1. TypeOK /\ worker[w].pc \in {"completed", "failed"}
  BY DEF IInv, WriteAudit
<1>2. worker[w] \in Task /\ worker[w].job \in Jobs
  BY <1>1, BusyWorker
<1>3. /\ worker' \in [Workers -> Task]
      /\ worker'[w] = [worker[w] EXCEPT !.pc = "done"]
      /\ \A v \in Workers \ {w} : worker'[v] = worker[v]
  BY <1>1, GoToEffect DEF WriteAudit, Stages
<1>4. /\ \A v \in Workers : worker'[v].job = worker[v].job
      /\ worker'[w].pc = "done"
  BY <1>2, <1>3 DEF Task
<1>5. /\ UNCHANGED <<row, history, began, request, target, broker, bootstrapped, settled>>
      /\ audit' = audit \union {<<worker[w].job, worker[w].pc>>}
  BY DEF WriteAudit, dbVars
<1>6. TypeOK'
  BY <1>1, <1>2, <1>3, <1>5 DEF TypeOK
<1>7. SingleCarrier' /\ KnownTargets'
  BY <1>4, <1>5 DEF IInv, SingleCarrier, KnownTargets
<1>8. TaskShape'
  <2> SUFFICES ASSUME NEW v \in Workers
               PROVE  TaskShape!(v)'
    BY DEF TaskShape
  <2>1. CASE v = w
    BY <2>1, <1>2, <1>4, ConstantsAssumption
  <2>2. CASE v # w
    BY <2>2, <1>3, <1>5 DEF IInv, TaskShape, Subject
  <2> QED
    BY <2>1, <2>2
<1>9. LiveIsUnsettled'
  BY <1>3, <1>4, <1>5 DEF IInv, LiveIsUnsettled
<1>10. ReadyIsEarned'
  BY <1>5 DEF IInv, ReadyIsEarned
<1>11. AuditAgreesWithOutcome'
  <2>1. /\ worker[w].pc = "completed" => settled[worker[w].job] = "READY"
        /\ worker[w].pc = "failed" => settled[worker[w].job] = "ERROR"
    BY DEF IInv, TaskShape
  <2>2. ASSUME NEW j \in Jobs, NEW a \in {"completed", "failed"}, <<j, a>> \in audit'
        PROVE  <<j, a>> \in audit \/ (j = worker[w].job /\ a = worker[w].pc)
    BY <1>5, <2>2
  <2> QED
    BY <1>5, <2>1, <2>2 DEF IInv, AuditAgreesWithOutcome
<1> QED
  BY <1>6, <1>7, <1>8, <1>9, <1>10, <1>11 DEF IInv

\* The API requests: they touch rows and send new jobs, never a running task.
LEMMA RequestStepsIInv ==
  ASSUME IInv, NEW t \in Tenants, RequestStep(t) \/ RequestFault(t)
  PROVE  IInv'
<1>1. TypeOK
  BY DEF IInv
<1>2. UNCHANGED <<worker, bootstrapped, settled, audit>>
  BY DEF RequestStep, RequestFault, InsertTenant, EnqueueOnboarding, CommitTenant,
         AbandonRequest, DeleteTenant, RequestOnboarding, tasksVars
<1>3. UNCHANGED <<target, broker>> \/ SendTask(t)
  BY DEF RequestStep, RequestFault, InsertTenant, EnqueueOnboarding, CommitTenant,
         AbandonRequest, DeleteTenant, RequestOnboarding
<1>4. /\ row' \in [Tenants -> Statuses \union {Absent}]
      /\ began' \in [Workers -> Nat]
      /\ history' \in [Tenants -> Seq(Entry)]
      /\ request' \in [Tenants -> {"none", "inserted", "enqueued"}]
      /\ \A u \in Tenants : row'[u] = "READY" => row[u] = "READY"
  <2> DEFINE first == [from |-> DefaultStatus, to |-> DefaultStatus, by |-> NoJob, began |-> 0]
  <2>1. <<>> \in Seq(Entry) /\ <<first>> \in Seq(Entry)
    <3>1. first \in Entry
      BY DEF Entry, Statuses, DefaultStatus
    <3> QED
      BY <3>1
  <2>2. \/ UNCHANGED <<row, history>>
        \/ \E s \in {DefaultStatus, Absent}, h \in {<<>>, <<first>>} :
             /\ row' = [row EXCEPT ![t] = s]
             /\ history' = [history EXCEPT ![t] = h]
    BY DEF RequestStep, RequestFault, InsertTenant, EnqueueOnboarding, CommitTenant,
           AbandonRequest, DeleteTenant, RequestOnboarding, dbVars
  <2>3. \/ UNCHANGED request
        \/ \E r \in {"none", "inserted", "enqueued"} :
             request' = [request EXCEPT ![t] = r]
    BY DEF RequestStep, RequestFault, InsertTenant, EnqueueOnboarding, CommitTenant,
           AbandonRequest, DeleteTenant, RequestOnboarding, dbVars
  <2>4. request' \in [Tenants -> {"none", "inserted", "enqueued"}]
    BY <1>1, <2>3 DEF TypeOK
  <2>5. history' \in [Tenants -> Seq(Entry)]
    BY <1>1, <2>1, <2>2, ZenonT(40) DEF TypeOK
  <2>6. /\ row' \in [Tenants -> Statuses \union {Absent}]
        /\ \A u \in Tenants : row'[u] = "READY" => row[u] = "READY"
    BY <1>1, <2>2 DEF TypeOK, Statuses, DefaultStatus, Absent
  <2>7. \/ UNCHANGED began
        \/ began' = [w \in Workers |->
             IF worker[w].pc = "write" /\ Subject(w) = t THEN 0 ELSE began[w]]
    BY DEF RequestStep, RequestFault, InsertTenant, EnqueueOnboarding, CommitTenant,
           AbandonRequest, DeleteTenant, RequestOnboarding, dbVars
  <2>8. began' \in [Workers -> Nat]
    BY <1>1, <2>7 DEF TypeOK
  <2> QED
    BY <2>4, <2>5, <2>6, <2>8
<1>5. ReadyIsEarned' /\ AuditAgreesWithOutcome'
  BY <1>2, <1>4 DEF IInv, ReadyIsEarned, AuditAgreesWithOutcome
<1>6. CASE UNCHANGED <<target, broker>>
  <2>1. TypeOK'
    BY <1>1, <1>2, <1>4, <1>6 DEF TypeOK
  <2>2. SingleCarrier' /\ KnownTargets' /\ LiveIsUnsettled' /\ TaskShape'
    BY <1>2, <1>6
    DEF IInv, SingleCarrier, KnownTargets, LiveIsUnsettled, TaskShape, Subject
  <2> QED
    BY <1>5, <2>1, <2>2 DEF IInv
<1>7. CASE SendTask(t)
  <2>1. PICK j \in Jobs :
          /\ target[j] = NoTenant
          /\ target' = [target EXCEPT ![j] = t]
          /\ broker' = broker \union {[job |-> j, retries |-> 0]}
    BY <1>7 DEF SendTask
  <2> DEFINE sent == [job |-> j, retries |-> 0]
  <2>2. \A m \in broker' : m \in broker \/ m = sent
    BY <2>1
  <2>3. \A m \in broker : m.job # j
    BY <2>1 DEF IInv, KnownTargets
  <2>4. \A w \in Workers : worker[w].job # j
    BY <2>1, ConstantsAssumption DEF IInv, KnownTargets
  <2>5. /\ target'[j] = t
        /\ \A k \in Jobs \ {j} : target'[k] = target[k]
        /\ t # NoTenant
    BY <1>1, <2>1, ConstantsAssumption DEF TypeOK
  <2>6. \A w \in Workers : worker[w].job \in Jobs \union {NoJob}
    BY <1>1 DEF TypeOK, Task
  <2>7. \A m \in broker : m.job \in Jobs
    BY <1>1 DEF TypeOK, Message
  <2>8. TypeOK'
    <3>1. sent \in Message
      BY ConstantsAssumption DEF Message
    <3> QED
      BY <1>1, <1>2, <1>4, <2>1, <3>1 DEF TypeOK
  <2>9. SingleCarrier'
    BY <1>2, <2>2, <2>3, <2>4 DEF IInv, SingleCarrier
  <2>10. KnownTargets'
    BY <1>2, <2>2, <2>3, <2>4, <2>5, <2>6, <2>7 DEF IInv, KnownTargets
  <2>11. LiveIsUnsettled'
    BY <1>2, <2>1, <2>2, <2>5 DEF IInv, LiveIsUnsettled
  <2>12. TaskShape'
    <3> SUFFICES ASSUME NEW w \in Workers
                 PROVE  TaskShape!(w)'
      BY DEF TaskShape
    <3>1. worker[w].pc # "idle" => target'[worker[w].job] = target[worker[w].job]
      BY <2>4, <2>5, <2>6 DEF IInv, TaskShape
    <3> QED
      BY <3>1, <1>2 DEF IInv, TaskShape, Subject
  <2> QED
    BY <1>5, <2>8, <2>9, <2>10, <2>11, <2>12 DEF IInv
<1> QED
  BY <1>3, <1>6, <1>7

--------------------------------------------------------------------------------

LEMMA NextIInv == IInv /\ [Next]_vars => IInv'
<1> SUFFICES ASSUME IInv, [Next]_vars PROVE IInv'
  OBVIOUS
<1>1. ASSUME NEW t \in Tenants, RequestStep(t) \/ RequestFault(t)
      PROVE  IInv'
  BY <1>1, RequestStepsIInv
<1>2. ASSUME NEW w \in Workers, Progress(w)
      PROVE  IInv'
  <2>1. CASE TakeMessage(w)
    BY <2>1, TakeMessageStep
  <2>2. CASE StartJob(w)
    <3>1. /\ worker[w].pc = "start"
          /\ audit' = audit \union {<<worker[w].job, "started">>}
          /\ UNCHANGED <<row, history, began, request, target, broker, bootstrapped, settled>>
      BY <2>2 DEF StartJob, dbVars
    <3>2. \/ SetStatus(w, "PROVISIONING", "provision")
          \/ SetStatus(w, "BOOTSTRAPPING", "bootstrap")
          \/ SetStatus(w, "ERROR", "failed")
      BY <2>2 DEF StartJob
    <3>3. bootstrapped' \subseteq Tenants
      BY <3>1 DEF IInv, TypeOK
    <3> QED
      BY <3>1, <3>2, <3>3, SetStatusStep DEF Follows, Statuses, Final, Stages
  <2>3. CASE ReadStatus(w)
    BY <2>3, ReadStatusStep
  <2>4. CASE WriteStatus(w)
    BY <2>4, WriteStatusStep
  <2>5. CASE TenantMissing(w) \/ EndJob(w)
    BY <2>5, ReleaseStep DEF TenantMissing, EndJob, dbVars, tasksVars
  <2>6. CASE Provision(w)
    <3>1. bootstrapped \subseteq Tenants
      BY DEF IInv, TypeOK
    <3> QED
      BY <2>6, <3>1, SetStatusStep
      DEF Provision, Follows, Statuses, Final, Stages, dbVars, tasksVars
  <2>7. CASE Bootstrap(w)
    <3>1. Subject(w) \in Tenants /\ bootstrapped \subseteq Tenants
      BY <2>7, BusyWorker DEF Bootstrap, IInv, TypeOK
    <3> QED
      BY <2>7, <3>1, SetStatusStep DEF Bootstrap, Follows, Statuses, Final, Stages, dbVars
  <2>8. CASE WriteAudit(w)
    BY <2>8, WriteAuditStep
  <2> QED
    BY <1>2, <2>1, <2>2, <2>3, <2>4, <2>5, <2>6, <2>7, <2>8 DEF Progress
<1>3. ASSUME NEW w \in Workers, AdapterFault(w)
      PROVE  IInv'
  <2>1. bootstrapped \subseteq Tenants
    BY DEF IInv, TypeOK
  <2>2. CASE RetryJob(w)
    BY <2>2, ReleaseStep DEF RetryJob, dbVars, tasksVars
  <2>3. CASE RejectPlan(w)
    BY <2>1, <2>3, SetStatusStep
    DEF RejectPlan, Follows, Statuses, Final, Stages, dbVars, tasksVars
  <2>4. CASE GiveUp(w)
    BY <2>1, <2>4, SetStatusStep
    DEF GiveUp, Follows, Statuses, Final, Stages, dbVars, tasksVars
  <2>5. CASE AdapterRefuses(w)
    BY <2>1, <2>5, SetStatusStep
    DEF AdapterRefuses, Follows, Statuses, Final, Stages, dbVars, tasksVars
  <2> QED
    BY <1>3, <2>2, <2>3, <2>4, <2>5 DEF AdapterFault
<1>4. ASSUME NEW w \in Workers, Crash(w)
      PROVE  IInv'
  BY <1>4, ReleaseStep DEF Crash, dbVars, tasksVars
<1>5. CASE UNCHANGED vars
  BY <1>5 DEF vars, IInv, TypeOK, SingleCarrier, TaskShape, KnownTargets,
              LiveIsUnsettled, ReadyIsEarned, AuditAgreesWithOutcome, Subject
<1> QED
  BY <1>1, <1>2, <1>3, <1>4, <1>5 DEF Next

\* The inductive invariant holds in every state.
THEOREM Invariance == Spec => []IInv
<1>1. Init => IInv
  BY InitIInv
<1>2. IInv /\ [Next]_vars => IInv'
  BY NextIInv
<1> QED
  BY <1>1, <1>2, PTL DEF Spec

\* Every variable keeps its type; in particular no message and no task ever
\* carries more than max_retries retries (self.retry in onboard_tenant).
THEOREM TypeCorrect == Spec => []TypeOK
<1>1. IInv => TypeOK
  BY DEF IInv
<1> QED
  BY <1>1, Invariance, PTL

\* A job is one message or one running task, whatever crashes, retries and
\* overlapping requests there are.
THEOREM OneCarrier == Spec => []SingleCarrier
<1>1. IInv => SingleCarrier
  BY DEF IInv
<1> QED
  BY <1>1, Invariance, PTL

\* READY is only ever written after a complete bootstrap of that tenant.
THEOREM ReadyWasEarned == Spec => []ReadyIsEarned
<1>1. IInv => ReadyIsEarned
  BY DEF IInv
<1> QED
  BY <1>1, Invariance, PTL

\* An audit event of an outcome is preceded by the commit of that outcome.
THEOREM AuditIsTrue == Spec => []AuditAgreesWithOutcome
<1>1. IInv => AuditAgreesWithOutcome
  BY DEF IInv
<1> QED
  BY <1>1, Invariance, PTL

\* After its final status a job has no retry queued and only closing steps left.
THEOREM SettledJobsRest == Spec => []SettledIsOver
<1>1. IInv => SettledIsOver
  <2> SUFFICES ASSUME IInv, NEW j \in Jobs, settled[j] # Running
               PROVE  /\ Queued(j) = {}
                      /\ \A w \in Held(j) : worker[w].pc \in {"completed", "failed", "done"}
    BY DEF SettledIsOver
  <2>1. Queued(j) = {}
    BY DEF Queued, IInv, LiveIsUnsettled
  <2>2. ASSUME NEW w \in Held(j)
        PROVE  worker[w].pc \in {"completed", "failed", "done"}
    <3>1. w \in Workers /\ worker[w].job = j
      BY DEF Held
    <3>2. worker[w].pc # "idle"
      BY <3>1, ConstantsAssumption DEF IInv, TaskShape
    <3>3. worker[w].pc \notin {"start", "provision", "bootstrap", "read", "write"}
      BY <3>1 DEF IInv, LiveIsUnsettled
    <3>4. worker[w] \in Task
      BY <3>1 DEF IInv, TypeOK
    <3> QED
      BY <3>2, <3>3, <3>4 DEF Task, Stages
  <2> QED
    BY <2>1, <2>2
<1> QED
  BY <1>1, Invariance, PTL

--------------------------------------------------------------------------------
(* The history *)

Writing(w, t) == worker[w].pc = "write" /\ Subject(w) = t

\* In the order of the commits, the last change gave the tenant its status.
RowGiven == \A t \in Tenants : row[t] # Absent => LastGave(history[t], row[t])

\* A history starts with its tenant, and who is in it, or about to be, began when
\* less of it was committed.
BeganShape ==
  /\ \A t \in Tenants :
       BeganBefore(history[t]) /\ (row[t] = Absent => history[t] = <<>>)
  /\ \A w \in Workers, t \in Tenants : Writing(w, t) => began[w] =< Len(history[t])

\* A request that is not committed is for a tenant without a row, and a row, or a
\* request about to commit one, is of a tenant some job was sent for.
RequestShape ==
  \A t \in Tenants :
    /\ request[t] # "none" => row[t] = Absent
    /\ (\A j \in Jobs : target[j] # t) => row[t] = Absent /\ request[t] # "enqueued"

\* While one job is all that was ever sent for a tenant, nothing is about to
\* commit its row that a worker has already read, and nobody has written it since
\* a worker read it.
SoleJobShape ==
  \A t \in Tenants : Sole(t) =>
    /\ request[t] = "enqueued" => \A w \in Workers : ~Writing(w, t)
    /\ row[t] # Absent =>
         /\ history[t] # <<>> /\ Unbroken(history[t])
         /\ history[t][Len(history[t])].to = row[t]
         /\ \A w \in Workers : Writing(w, t) => worker[w].from = row[t]

HInv == IInv /\ RowGiven /\ BeganShape /\ RequestShape /\ SoleJobShape

LEMMA InitHInv == Init => HInv
<1> SUFFICES ASSUME Init PROVE HInv
  OBVIOUS
<1>1. /\ \A t \in Tenants : row[t] = Absent /\ request[t] = "none"
      /\ \A w \in Workers : worker[w].pc # "write"
  BY DEF Init, Idle
<1>2. RowGiven /\ RequestShape /\ SoleJobShape
  BY <1>1 DEF RowGiven, RequestShape, SoleJobShape, Writing
<1>3. BeganShape
  BY <1>1 DEF Init, BeganShape, BeganBefore, Writing
<1> QED
  BY <1>2, <1>3, InitIInv DEF HInv

\* Nothing but what the workers do changes, and none of them gets to write
\* anything but what the row holds.
LEMMA WorkerStepHInv ==
  ASSUME HInv, IInv', UNCHANGED <<row, history, request, target>>,
         \A w \in Workers, t \in Tenants : Writing(w, t)' =>
           \/ Writing(w, t) /\ worker'[w].from = worker[w].from /\ began'[w] = began[w]
           \/ /\ row[t] # Absent /\ worker'[w].from = row[t]
              /\ began'[w] = Len(history[t])
  PROVE  HInv'
<1>0. RowGiven /\ BeganShape /\ RequestShape /\ SoleJobShape
  BY DEF HInv
<1>1. RowGiven' /\ RequestShape'
  BY <1>0 DEF RowGiven, RequestShape
<1>2. SoleJobShape'
  <2> SUFFICES ASSUME NEW t \in Tenants, Sole(t)
               PROVE  /\ request[t] = "enqueued" => \A w \in Workers : ~Writing(w, t)'
                      /\ row[t] # Absent =>
                           /\ history[t] # <<>> /\ Unbroken(history[t])
                           /\ history[t][Len(history[t])].to = row[t]
                           /\ \A w \in Workers : Writing(w, t)' => worker'[w].from = row[t]
    BY DEF SoleJobShape, Sole
  <2>1. request[t] = "enqueued" => row[t] = Absent
    BY <1>0 DEF RequestShape
  <2> QED
    BY <1>0, <2>1 DEF SoleJobShape
<1>3. BeganShape'
  <2>1. \A t \in Tenants : Len(history[t]) \in Nat
    BY LenProperties DEF HInv, IInv, TypeOK
  <2> QED
    BY <1>0, <2>1 DEF BeganShape
<1> QED
  BY <1>1, <1>2, <1>3 DEF HInv

\* A worker goes to a stage other than "write"; the others stay where they are.
LEMMA NotWritingHInv ==
  ASSUME HInv, IInv', NEW w \in Workers, worker'[w].pc # "write",
         \A v \in Workers \ {w} : worker'[v] = worker[v],
         UNCHANGED <<row, history, began, request, target>>
  PROVE  HInv'
<1>1. \A v \in Workers, t \in Tenants : Writing(v, t)' =>
        Writing(v, t) /\ worker'[v].from = worker[v].from /\ began'[v] = began[v]
  BY DEF Writing, Subject
<1> QED
  BY <1>1, WorkerStepHInv

LEMMA ReadStatusHInv ==
  ASSUME HInv, IInv', NEW w \in Workers, ReadStatus(w)
  PROVE  HInv'
<1>1. TypeOK /\ IInv /\ worker[w].pc = "read" /\ row[Subject(w)] # Absent
  BY DEF HInv, IInv, ReadStatus
<1>2. worker[w] \in Task /\ Subject(w) \in Tenants
  BY <1>1, BusyWorker
<1>3. /\ worker'[w] = [worker[w] EXCEPT !.pc = "write", !.from = row[Subject(w)]]
      /\ \A v \in Workers \ {w} : worker'[v] = worker[v]
  BY <1>1, <1>2, ReadStatusEffect
<1>4. worker'[w].job = worker[w].job /\ worker'[w].from = row[Subject(w)]
  BY <1>2, <1>3 DEF Task
<1>5. /\ UNCHANGED <<row, history, request, target>>
      /\ began'[w] = Len(history[Subject(w)])
      /\ \A v \in Workers \ {w} : began'[v] = began[v]
  BY <1>1 DEF ReadStatus, TypeOK
<1>6. \A v \in Workers, t \in Tenants : Writing(v, t)' =>
        \/ Writing(v, t) /\ worker'[v].from = worker[v].from /\ began'[v] = began[v]
        \/ row[t] # Absent /\ worker'[v].from = row[t] /\ began'[v] = Len(history[t])
  <2> SUFFICES ASSUME NEW v \in Workers, NEW t \in Tenants, Writing(v, t)'
               PROVE  \/ /\ Writing(v, t) /\ worker'[v].from = worker[v].from
                         /\ began'[v] = began[v]
                      \/ /\ row[t] # Absent /\ worker'[v].from = row[t]
                         /\ began'[v] = Len(history[t])
    OBVIOUS
  <2>1. CASE v = w
    <3>1. Subject(w) = t
      BY <1>4, <1>5, <2>1 DEF Writing, Subject
    <3> QED
      BY <1>1, <1>4, <1>5, <2>1, <3>1
  <2>2. CASE v # w
    BY <1>3, <1>5, <2>2 DEF Writing, Subject
  <2> QED
    BY <2>1, <2>2
<1> QED
  BY <1>5, <1>6, WorkerStepHInv

\* The status transaction commits: the row and its history move together, and a
\* sole job finds the row as it read it.
LEMMA WriteStatusHInv ==
  ASSUME HInv, IInv', NEW w \in Workers, WriteStatus(w)
  PROVE  HInv'
<1> DEFINE goal == worker[w].goal
           entry == [from |-> worker[w].from, to |-> goal, by |-> worker[w].job,
                     began |-> began[w]]
<1>a. /\ IInv /\ TypeOK /\ RowGiven /\ BeganShape /\ RequestShape /\ SoleJobShape
      /\ worker[w].pc = "write" /\ row[Subject(w)] # Absent
  BY DEF HInv, IInv, WriteStatus
<1>b. worker[w] \in Task /\ worker[w].job \in Jobs /\ Subject(w) \in Tenants
  BY <1>a, BusyWorker
<1> PICK t \in Tenants : t = Subject(w)
  BY <1>b
<1>0. /\ IInv /\ TypeOK /\ RowGiven /\ BeganShape /\ RequestShape /\ SoleJobShape
      /\ worker[w].pc = "write" /\ row[t] # Absent
  BY <1>a
<1>1. worker[w] \in Task /\ worker[w].job \in Jobs /\ t = target[worker[w].job]
  BY <1>b DEF Subject
<1>2. worker[w].then \in Stages /\ worker[w].from \in Statuses /\ goal \in Statuses
  BY <1>0, <1>1 DEF IInv, TaskShape, Task
<1>3. /\ row' = [row EXCEPT ![t] = ColumnAfter(@, worker[w].from, goal)]
      /\ history' = [history EXCEPT ![t] = Append(@, entry)]
      /\ UNCHANGED <<began, request, target>>
  BY DEF WriteStatus
<1>4. /\ worker'[w].pc # "write" /\ worker'[w].job = worker[w].job
      /\ \A v \in Workers \ {w} : worker'[v] = worker[v]
  <2>1. GoTo(w, worker[w].then)
    BY DEF WriteStatus
  <2>2. /\ worker'[w] = [worker[w] EXCEPT !.pc = worker[w].then]
        /\ \A v \in Workers \ {w} : worker'[v] = worker[v]
    BY <1>0, <1>2, <2>1, GoToEffect
  <2> QED
    BY <1>1, <1>2, <2>2 DEF Task, Stages
<1>5. /\ entry \in Entry /\ entry.from = worker[w].from /\ entry.to = goal
      /\ entry.began = began[w] /\ began[w] \in Nat
      /\ history[t] \in Seq(Entry)
  BY <1>0, <1>1, <1>2 DEF Entry, TypeOK
<1> HIDE DEF entry
<1>6. /\ row'[t] = ColumnAfter(row[t], worker[w].from, goal)
      /\ history'[t] = Append(history[t], entry)
      /\ \A u \in Tenants \ {t} : row'[u] = row[u] /\ history'[u] = history[u]
  BY <1>0, <1>1, <1>3 DEF TypeOK
<1>7. RowGiven'
  <2>1. LastGave(history'[t], row'[t])
    BY <1>0, <1>1, <1>5, <1>6, LastGaveAppend DEF RowGiven
  <2> QED
    BY <1>0, <1>6, <2>1 DEF RowGiven
<1>12. BeganShape'
  <2>1. Writing(w, t)
    BY <1>0, <1>1 DEF Writing, Subject
  <2>2. BeganBefore(history[t]) /\ began[w] =< Len(history[t])
    BY <1>0, <2>1 DEF BeganShape
  <2>3. BeganBefore(history'[t])
    BY <1>5, <1>6, <2>2, BeganAppend
  <2>4. row'[t] # Absent
    BY <1>0, <1>2, <1>6 DEF ColumnAfter, Statuses, Final, Absent
  <2>5. Len(history'[t]) = Len(history[t]) + 1 /\ Len(history[t]) \in Nat
    BY <1>5, <1>6, AppendRow
  <2>6. \A v \in Workers : began[v] \in Nat
    BY <1>0 DEF TypeOK
  <2>7. ASSUME NEW v \in Workers, NEW u \in Tenants, Writing(v, u)'
        PROVE  began'[v] =< Len(history'[u])
    <3>1. Writing(v, u)
      BY <1>3, <1>4, <2>7 DEF Writing, Subject
    <3>2. began[v] =< Len(history[u])
      BY <1>0, <3>1 DEF BeganShape
    <3> QED
      BY <1>3, <1>6, <2>5, <2>6, <3>2
  <2> QED
    BY <1>0, <1>6, <2>3, <2>4, <2>7 DEF BeganShape
<1>8. RequestShape'
  <2>1. request[t] = "none" /\ \E j \in Jobs : target[j] = t
    BY <1>0, <1>1 DEF RequestShape, TypeOK
  <2> QED
    BY <1>0, <1>3, <1>6, <2>1 DEF RequestShape
<1>9. \A v \in Workers, u \in Tenants : Writing(v, u)' =>
        v # w /\ Writing(v, u) /\ worker'[v].from = worker[v].from
  BY <1>3, <1>4 DEF Writing, Subject
<1>10. ASSUME NEW u \in Tenants, Sole(u)
       PROVE  /\ request[u] = "enqueued" => \A v \in Workers : ~Writing(v, u)'
              /\ row'[u] # Absent =>
                   /\ history'[u] # <<>> /\ Unbroken(history'[u])
                   /\ history'[u][Len(history'[u])].to = row'[u]
                   /\ \A v \in Workers : Writing(v, u)' => worker'[v].from = row'[u]
  <2>1. CASE u # t
    BY <1>0, <1>6, <1>9, <1>10, <2>1 DEF SoleJobShape
  <2>2. CASE u = t
    <3>1. Writing(w, t)
      BY <1>0, <1>1 DEF Writing, Subject
    <3>2. /\ history[t] # <<>> /\ Unbroken(history[t])
          /\ history[t][Len(history[t])].to = row[t]
          /\ worker[w].from = row[t]
      BY <1>0, <1>1, <1>10, <2>2, <3>1 DEF SoleJobShape
    <3>3. row'[t] = goal
      BY <1>6, <3>2 DEF ColumnAfter
    <3>4. Unbroken(history'[t])
      BY <1>5, <1>6, <3>2, UnbrokenAppend
    <3>5. history'[t] # <<>> /\ history'[t][Len(history'[t])].to = goal
      BY <1>5, <1>6, AppendRow
    <3>6. ASSUME NEW v \in Workers, Writing(v, t)' PROVE FALSE
      <4>1. v # w /\ Writing(v, t)
        BY <1>9, <3>6, <1>1
      <4>2. worker[v].job \in Jobs
        BY <1>0, <4>1, BusyWorker DEF Writing
      <4>3. worker[v].job = worker[w].job
        BY <1>1, <1>10, <2>2, <4>1, <4>2 DEF Writing, Subject, Sole
      <4> QED
        BY <1>0, <1>1, <4>1, <4>2, <4>3, ConstantsAssumption DEF IInv, SingleCarrier
    <3> QED
      BY <2>2, <3>3, <3>4, <3>5, <3>6
  <2> QED
    BY <2>1, <2>2
<1>11. SoleJobShape'
  BY <1>3, <1>10 DEF SoleJobShape, Sole
<1> QED
  BY <1>7, <1>8, <1>11, <1>12 DEF HInv

\* What a request that sends a job does to the tenants' jobs: no worker is about
\* to write for another tenant than before, and the tenant has one more job.
LEMMA SendTaskEffect ==
  ASSUME IInv, NEW t \in Tenants, SendTask(t), UNCHANGED worker
  PROVE  /\ \A w \in Workers, u \in Tenants : Writing(w, u)' => Writing(w, u)
         /\ \A u \in Tenants : Sole(u)' => Sole(u)
         /\ Sole(t)' => \A j \in Jobs : target[j] # t
         /\ \E j \in Jobs : target'[j] = t
         /\ \A u \in Tenants : (\A j \in Jobs : target'[j] # u) =>
              (\A j \in Jobs : target[j] # u)
<1>1. PICK k \in Jobs : target[k] = NoTenant /\ target' = [target EXCEPT ![k] = t]
  BY DEF SendTask
<1>2. /\ target'[k] = t
      /\ \A j \in Jobs \ {k} : target'[j] = target[j]
      /\ \A j \in Jobs, u \in Tenants : target[j] = u => j # k /\ target'[j] = u
  BY <1>1, ConstantsAssumption DEF IInv, TypeOK
<1>3. ASSUME NEW w \in Workers, NEW u \in Tenants, Writing(w, u)'
      PROVE  Writing(w, u)
  <2>1. worker[w].pc = "write" /\ target'[worker[w].job] = u
    BY <1>3 DEF Writing, Subject
  <2>2. worker[w].job \in Jobs /\ Subject(w) \in Tenants
    BY <2>1, BusyWorker
  <2>3. target'[worker[w].job] = Subject(w)
    BY <1>2, <2>2 DEF Subject
  <2> QED
    BY <2>1, <2>3 DEF Writing
<1>4. ASSUME NEW u \in Tenants, Sole(u)' PROVE Sole(u)
  BY <1>2, <1>4 DEF Sole
<1>5. ASSUME Sole(t)', NEW j \in Jobs PROVE target[j] # t
  BY <1>2, <1>5 DEF Sole
<1> QED
  BY <1>2, <1>3, <1>4, <1>5

\* The requests begin or end a history, and send jobs that have written nothing.
LEMMA RequestBegan ==
  ASSUME HInv, NEW t \in Tenants, RequestStep(t) \/ RequestFault(t)
  PROVE  BeganShape'
<1>0. /\ IInv /\ TypeOK /\ BeganShape /\ RequestShape
      /\ \A w \in Workers : began[w] \in Nat
      /\ \A u \in Tenants : history[u] \in Seq(Entry)
  BY DEF HInv, IInv, TypeOK
<1>1. UNCHANGED worker /\ (UNCHANGED target \/ SendTask(t))
  BY DEF RequestStep, RequestFault, InsertTenant, EnqueueOnboarding, CommitTenant,
         AbandonRequest, DeleteTenant, RequestOnboarding
<1>2. \A w \in Workers, u \in Tenants : Writing(w, u)' => Writing(w, u)
  <2>1. CASE UNCHANGED target
    BY <1>1, <2>1 DEF Writing, Subject
  <2>2. CASE SendTask(t)
    BY <1>0, <1>1, <2>2, SendTaskEffect
  <2> QED
    BY <1>1, <2>1, <2>2
<1>3. CASE UNCHANGED <<row, history, began>>
  BY <1>0, <1>2, <1>3 DEF BeganShape
<1>4. CASE CommitTenant(t)
  <2> DEFINE first == [from |-> DefaultStatus, to |-> DefaultStatus, by |-> NoJob, began |-> 0]
  <2>1. first.began = 0 /\ Len(<<first>>) = 1 /\ <<first>>[1] = first
    OBVIOUS
  <2>2. /\ request[t] = "enqueued" /\ UNCHANGED began
        /\ row' = [row EXCEPT ![t] = DefaultStatus]
        /\ history' = [history EXCEPT ![t] = <<first>>]
    BY <1>4 DEF CommitTenant
  <2> HIDE DEF first
  <2>3. /\ row'[t] = DefaultStatus /\ history'[t] = <<first>>
        /\ \A u \in Tenants \ {t} : row'[u] = row[u] /\ history'[u] = history[u]
    BY <1>0, <2>2 DEF TypeOK
  <2>4. row[t] = Absent /\ history[t] = <<>>
    BY <1>0, <2>2 DEF RequestShape, BeganShape
  <2>5. BeganBefore(history'[t]) /\ row'[t] # Absent
    BY <2>1, <2>3 DEF BeganBefore, DefaultStatus, Absent
  <2>6. \A w \in Workers : Writing(w, t) => began[w] = 0
    BY <1>0, <2>4 DEF BeganShape
  <2>7. \A w \in Workers : Writing(w, t)' => began'[w] =< Len(history'[t])
    BY <1>2, <2>1, <2>2, <2>3, <2>6
  <2>8. \A w \in Workers, u \in Tenants \ {t} :
          Writing(w, u)' => began'[w] =< Len(history'[u])
    BY <1>0, <1>2, <2>2, <2>3 DEF BeganShape
  <2>9. \A u \in Tenants :
          BeganBefore(history'[u]) /\ (row'[u] = Absent => history'[u] = <<>>)
    BY <1>0, <2>3, <2>5 DEF BeganShape
  <2> QED
    BY <2>7, <2>8, <2>9 DEF BeganShape
<1>5. CASE DeleteTenant(t)
  <2>1. /\ row'[t] = Absent /\ history'[t] = <<>> /\ Len(history'[t]) = 0
        /\ \A u \in Tenants \ {t} : row'[u] = row[u] /\ history'[u] = history[u]
        /\ \A w \in Workers : began'[w] = IF Writing(w, t) THEN 0 ELSE began[w]
    BY <1>0, <1>5 DEF DeleteTenant, TypeOK, Writing
  <2>2. \A w \in Workers : Writing(w, t)' => began'[w] =< Len(history'[t])
    BY <1>2, <2>1
  <2>3. \A w \in Workers, u \in Tenants \ {t} :
          Writing(w, u)' => began'[w] =< Len(history'[u])
    <3>1. \A w \in Workers, u \in Tenants \ {t} : Writing(w, u) => ~Writing(w, t)
      BY DEF Writing
    <3> QED
      BY <1>0, <1>2, <2>1, <3>1 DEF BeganShape
  <2>4. \A u \in Tenants :
          BeganBefore(history'[u]) /\ (row'[u] = Absent => history'[u] = <<>>)
    BY <1>0, <2>1 DEF BeganShape, BeganBefore
  <2> QED
    BY <2>2, <2>3, <2>4 DEF BeganShape
<1> QED
  BY <1>3, <1>4, <1>5
  DEF RequestStep, RequestFault, InsertTenant, EnqueueOnboarding, AbandonRequest,
      RequestOnboarding, dbVars

\* The API requests.  The first row of a history is written by the commit of
\* POST /tenants, which no job of the tenant can have read before.
LEMMA RequestHInv ==
  ASSUME HInv, IInv', NEW t \in Tenants, RequestStep(t) \/ RequestFault(t)
  PROVE  HInv'
<1>0. /\ IInv /\ TypeOK /\ RowGiven /\ BeganShape' /\ RequestShape /\ SoleJobShape
  BY RequestBegan DEF HInv, IInv
<1>1. UNCHANGED worker
  BY DEF RequestStep, RequestFault, InsertTenant, EnqueueOnboarding, CommitTenant,
         AbandonRequest, DeleteTenant, RequestOnboarding
<1>2. UNCHANGED target =>
        /\ \A w \in Workers, u \in Tenants : Writing(w, u)' => Writing(w, u)
        /\ \A u \in Tenants : Sole(u)' => Sole(u)
  BY <1>1 DEF Writing, Subject, Sole
<1>3. CASE InsertTenant(t)
  <2>1. /\ row[t] = Absent
        /\ UNCHANGED <<row, history, target>>
        /\ \A u \in Tenants : request'[u] = IF u = t THEN "inserted" ELSE request[u]
    BY <1>0, <1>3 DEF InsertTenant, dbVars, TypeOK
  <2>2. RowGiven' /\ RequestShape'
    BY <1>0, <2>1 DEF RowGiven, RequestShape
  <2>3. SoleJobShape'
    BY <1>0, <1>1, <1>2, <2>1 DEF SoleJobShape
  <2> QED
    BY <1>0, <2>2, <2>3 DEF HInv
<1>4. CASE EnqueueOnboarding(t)
  <2>1. /\ request[t] = "inserted"
        /\ UNCHANGED <<row, history>>
        /\ \A u \in Tenants : request'[u] = IF u = t THEN "enqueued" ELSE request[u]
        /\ SendTask(t)
    BY <1>0, <1>4 DEF EnqueueOnboarding, dbVars, TypeOK
  <2>2. row[t] = Absent
    BY <1>0, <2>1 DEF RequestShape
  <2>3. /\ \A w \in Workers, u \in Tenants : Writing(w, u)' => Writing(w, u)
        /\ \A u \in Tenants : Sole(u)' => Sole(u)
        /\ Sole(t)' => \A j \in Jobs : target[j] # t
        /\ \E j \in Jobs : target'[j] = t
        /\ \A u \in Tenants : (\A j \in Jobs : target'[j] # u) =>
             (\A j \in Jobs : target[j] # u)
    BY <1>0, <1>1, <2>1, SendTaskEffect
  <2>4. RowGiven'
    BY <1>0, <2>1 DEF RowGiven
  <2>5. RequestShape'
    <3>1. \A u \in Tenants : request'[u] # "none" => row'[u] = Absent
      BY <1>0, <2>1, <2>2 DEF RequestShape
    <3>2. ASSUME NEW u \in Tenants, \A j \in Jobs : target'[j] # u
          PROVE  row'[u] = Absent /\ request'[u] # "enqueued"
      BY <1>0, <2>1, <2>3, <3>2 DEF RequestShape
    <3> QED
      BY <3>1, <3>2 DEF RequestShape
  <2>6. ASSUME Sole(t)', NEW w \in Workers PROVE ~Writing(w, t)
    <3>1. worker[w].pc = "write" => worker[w].job \in Jobs
      BY <1>0, BusyWorker
    <3> QED
      BY <2>3, <2>6, <3>1 DEF Writing, Subject
  <2>7. SoleJobShape'
    <3> SUFFICES ASSUME NEW u \in Tenants, Sole(u)'
                 PROVE  SoleJobShape!(u)!2'
      BY DEF SoleJobShape
    <3>1. CASE u = t
      BY <2>1, <2>2, <2>3, <2>6, <3>1
    <3>2. CASE u # t
      BY <1>0, <1>1, <2>1, <2>3, <3>2 DEF SoleJobShape
    <3> QED
      BY <3>1, <3>2
  <2> QED
    BY <1>0, <2>4, <2>5, <2>7 DEF HInv
<1>5. CASE CommitTenant(t)
  <2> DEFINE first == [from |-> DefaultStatus, to |-> DefaultStatus, by |-> NoJob, began |-> 0]
  <2>1. /\ first \in Entry /\ first.to = DefaultStatus
        /\ <<first>> \in Seq(Entry) /\ Len(<<first>>) = 1 /\ <<first>>[1] = first
    BY DEF Entry, Statuses, DefaultStatus
  <2>2. /\ request[t] = "enqueued"
        /\ row' = [row EXCEPT ![t] = DefaultStatus]
        /\ history' = [history EXCEPT ![t] = <<first>>]
        /\ request' = [request EXCEPT ![t] = "none"]
        /\ UNCHANGED target
    BY <1>5 DEF CommitTenant
  <2> HIDE DEF first
  <2>3. /\ row'[t] = DefaultStatus /\ history'[t] = <<first>> /\ request'[t] = "none"
        /\ \A u \in Tenants \ {t} :
             row'[u] = row[u] /\ history'[u] = history[u] /\ request'[u] = request[u]
    BY <1>0, <2>2 DEF TypeOK
  <2>4. RowGiven'
    <3>1. LastGave(<<first>>, first.to)
      BY FirstGave
    <3> QED
      BY <1>0, <2>1, <2>3, <3>1 DEF RowGiven
  <2>5. RequestShape'
    BY <1>0, <2>2, <2>3 DEF RequestShape
  <2>6. Unbroken(<<first>>)
    BY <2>1 DEF Unbroken
  <2>7. SoleJobShape'
    <3> SUFFICES ASSUME NEW u \in Tenants, Sole(u)'
                 PROVE  SoleJobShape!(u)!2'
      BY DEF SoleJobShape
    <3>1. Sole(u)
      BY <1>2, <2>2
    <3>2. CASE u = t
      <4>1. \A w \in Workers : ~Writing(w, t)'
        BY <1>0, <1>2, <2>2, <3>1, <3>2 DEF SoleJobShape
      <4> QED
        BY <2>1, <2>3, <2>6, <3>2, <4>1
    <3>3. CASE u # t
      BY <1>0, <1>1, <1>2, <2>2, <2>3, <3>1, <3>3 DEF SoleJobShape
    <3> QED
      BY <3>2, <3>3
  <2> QED
    BY <1>0, <2>4, <2>5, <2>7 DEF HInv
<1>6. CASE AbandonRequest(t)
  <2>1. /\ UNCHANGED <<row, history, target>>
        /\ \A u \in Tenants : request'[u] = IF u = t THEN "none" ELSE request[u]
    BY <1>0, <1>6 DEF AbandonRequest, dbVars, TypeOK
  <2>2. RowGiven' /\ RequestShape'
    BY <1>0, <2>1 DEF RowGiven, RequestShape
  <2>3. SoleJobShape'
    BY <1>0, <1>1, <1>2, <2>1 DEF SoleJobShape
  <2> QED
    BY <1>0, <2>2, <2>3 DEF HInv
<1>7. CASE DeleteTenant(t)
  <2>1. /\ row[t] # Absent
        /\ UNCHANGED <<request, target>>
        /\ row'[t] = Absent
        /\ \A u \in Tenants \ {t} : row'[u] = row[u] /\ history'[u] = history[u]
    BY <1>0, <1>7 DEF DeleteTenant, TypeOK
  <2>2. RowGiven' /\ RequestShape'
    BY <1>0, <2>1 DEF RowGiven, RequestShape
  <2>3. request[t] # "enqueued"
    BY <1>0, <2>1 DEF RequestShape
  <2>4. SoleJobShape'
    <3> SUFFICES ASSUME NEW u \in Tenants, Sole(u)'
                 PROVE  SoleJobShape!(u)!2'
      BY DEF SoleJobShape
    <3>1. CASE u = t
      BY <2>1, <2>3, <3>1
    <3>2. CASE u # t
      BY <1>0, <1>1, <1>2, <2>1, <3>2 DEF SoleJobShape
    <3> QED
      BY <3>1, <3>2
  <2> QED
    BY <1>0, <2>2, <2>4 DEF HInv
<1>8. CASE RequestOnboarding(t)
  <2>1. /\ row[t] # Absent
        /\ UNCHANGED <<row, history, request>>
        /\ SendTask(t)
    BY <1>8 DEF RequestOnboarding, dbVars
  <2>2. /\ \A w \in Workers, u \in Tenants : Writing(w, u)' => Writing(w, u)
        /\ \A u \in Tenants : Sole(u)' => Sole(u)
        /\ Sole(t)' => \A j \in Jobs : target[j] # t
        /\ \A u \in Tenants : (\A j \in Jobs : target'[j] # u) =>
             (\A j \in Jobs : target[j] # u)
    BY <1>0, <1>1, <2>1, SendTaskEffect
  <2>3. \E j \in Jobs : target[j] = t
    BY <1>0, <2>1 DEF RequestShape
  <2>4. RowGiven' /\ RequestShape'
    BY <1>0, <2>1, <2>2 DEF RowGiven, RequestShape
  <2>5. SoleJobShape'
    <3> SUFFICES ASSUME NEW u \in Tenants, Sole(u)'
                 PROVE  SoleJobShape!(u)!2'
      BY DEF SoleJobShape
    <3>1. Sole(u)
      BY <2>2
    <3> QED
      BY <1>0, <1>1, <2>1, <2>2, <3>1 DEF SoleJobShape
  <2> QED
    BY <1>0, <2>4, <2>5 DEF HInv
<1> QED
  BY <1>3, <1>4, <1>5, <1>6, <1>7, <1>8 DEF RequestStep, RequestFault

LEMMA NextHInv == HInv /\ [Next]_vars => HInv'
<1> SUFFICES ASSUME HInv, [Next]_vars PROVE HInv'
  OBVIOUS
<1>0. IInv /\ TypeOK /\ IInv'
  BY NextIInv DEF HInv, IInv
<1>1. ASSUME NEW t \in Tenants, RequestStep(t) \/ RequestFault(t)
      PROVE  HInv'
  BY <1>0, <1>1, RequestHInv
<1>2. ASSUME NEW w \in Workers, Progress(w) \/ AdapterFault(w) \/ Crash(w)
      PROVE  HInv'
  <2>1. CASE ReadStatus(w)
    BY <1>0, <2>1, ReadStatusHInv
  <2>2. CASE WriteStatus(w)
    BY <1>0, <2>2, WriteStatusHInv
  <2>3. CASE /\ UNCHANGED <<row, history, began, request, target>>
             /\ \/ \E s \in Statuses, n \in Stages : SetStatus(w, s, n)
                \/ GoTo(w, "done") \/ Release(w) \/ TakeMessage(w)
    <3>1. worker[w] \in Task
      BY <1>0 DEF TypeOK
    <3>2. worker'[w].pc # "write" /\ \A v \in Workers \ {w} : worker'[v] = worker[v]
      <4>1. ASSUME NEW s \in Statuses, NEW n \in Stages, SetStatus(w, s, n)
            PROVE  /\ worker'[w].pc # "write"
                   /\ \A v \in Workers \ {w} : worker'[v] = worker[v]
        <5>1. /\ worker'[w] = [worker[w] EXCEPT !.pc = "read", !.goal = s, !.then = n]
              /\ \A v \in Workers \ {w} : worker'[v] = worker[v]
          BY <1>0, <4>1, SetStatusEffect, ZenonT(40)
        <5> QED
          BY <3>1, <5>1 DEF Task
      <4>2. CASE GoTo(w, "done")
        <5>1. "done" \in Stages
          BY DEF Stages
        <5>2. /\ worker'[w] = [worker[w] EXCEPT !.pc = "done"]
              /\ \A v \in Workers \ {w} : worker'[v] = worker[v]
          BY <1>0, <4>2, <5>1, GoToEffect
        <5> QED
          BY <3>1, <5>2 DEF Task
      <4>3. CASE Release(w)
        BY <1>0, <4>3, ReleaseEffect DEF Idle
      <4>4. CASE TakeMessage(w)
        BY <1>0, <4>4, TakeMessageEffect DEF Idle
      <4> QED
        BY <2>3, <4>1, <4>2, <4>3, <4>4
    <3> QED
      BY <1>0, <2>3, <3>2, NotWritingHInv
  <2>4. CASE TakeMessage(w)
    BY <2>3, <2>4 DEF TakeMessage, dbVars
  <2>5. CASE StartJob(w)
    BY <2>3, <2>5 DEF StartJob, dbVars, Statuses, Stages, Final
  <2>6. CASE Provision(w) \/ Bootstrap(w)
    BY <2>3, <2>6 DEF Provision, Bootstrap, dbVars, Statuses, Stages, Final
  <2>7. CASE RejectPlan(w) \/ GiveUp(w) \/ AdapterRefuses(w)
    BY <2>3, <2>7 DEF RejectPlan, GiveUp, AdapterRefuses, dbVars, Statuses, Stages, Final
  <2>8. CASE TenantMissing(w) \/ RetryJob(w) \/ EndJob(w) \/ Crash(w)
    BY <2>3, <2>8 DEF TenantMissing, RetryJob, EndJob, Crash, dbVars
  <2>9. CASE WriteAudit(w)
    BY <2>3, <2>9 DEF WriteAudit, dbVars
  <2> QED
    BY <1>2, <2>1, <2>2, <2>4, <2>5, <2>6, <2>7, <2>8, <2>9 DEF Progress, AdapterFault
<1>3. CASE UNCHANGED vars
  <2>1. \A w \in Workers, t \in Tenants : Writing(w, t)' =>
          Writing(w, t) /\ worker'[w].from = worker[w].from /\ began'[w] = began[w]
    BY <1>3 DEF vars, Writing, Subject
  <2> QED
    BY <1>0, <1>3, <2>1, WorkerStepHInv DEF vars
<1> QED
  BY <1>1, <1>2, <1>3 DEF Next

\* The invariant about the history holds in every state.
THEOREM HistoryInvariance == Spec => []HInv
<1>1. HInv /\ [Next]_vars => HInv'
  BY NextHInv
<1> QED
  BY <1>1, InitHInv, PTL DEF Spec

\* However requests, retries and tasks interleave, and with stale reads, the status
\* of a tenant is that of a change in its history which none is later than, in the
\* order the history is read (transition of TenantStatusService, the mapper's UPDATE
\* of changed columns, and occurred_at).
THEOREM HistoryExplainsRow == Spec => []RowFollowsHistory
<1>1. HInv => RowFollowsHistory
  <2> SUFFICES ASSUME HInv, NEW t \in Tenants, row[t] # Absent
               PROVE  Explains(history[t], row[t])
    BY DEF RowFollowsHistory
  <2>1. history[t] \in Seq(Entry)
    BY DEF HInv, IInv, TypeOK
  <2>2. LastGave(history[t], row[t]) /\ BeganBefore(history[t])
    BY DEF HInv, RowGiven, BeganShape
  <2> QED
    BY <2>1, <2>2, LastGaveExplains
<1> QED
  BY <1>1, HistoryInvariance, PTL

\* A tenant one job was ever sent for has a history without a gap, up to its row.
THEOREM SoleJobHistory == Spec => []SoleJobKeepsChain
<1>1. HInv => SoleJobKeepsChain
  BY DEF HInv, SoleJobShape, SoleJobKeepsChain
<1> QED
  BY <1>1, HistoryInvariance, PTL

--------------------------------------------------------------------------------
(* The queue's contract *)

\* The phase of a job whose task is about to set, or has set, this status.
PhaseAt(goal) ==
  IF goal = "FAILED_RETRYABLE" THEN "exhausted"
  ELSE IF goal \in {"READY", "ERROR"} THEN "settling" ELSE "running"

Nowhere(j) == (\A m \in broker : m.job # j) /\ (\A w \in Workers : worker[w].job # j)

\* What JobDelivery sees of a job, read off the one place the job is in.
PlacesAgree ==
  /\ \A m \in broker : JobPhase(m.job) = "queued" /\ JobTries(m.job) = m.retries
  /\ \A w \in Workers : worker[w].job # NoJob =>
       /\ JobPhase(worker[w].job) = PhaseAt(worker[w].goal)
       /\ JobTries(worker[w].job) = worker[w].retries
  /\ \A j \in Jobs : Nowhere(j) =>
       /\ JobPhase(j) = IF target[j] = NoTenant THEN "unsent" ELSE "over"
       /\ JobTries(j) = 0

LEMMA PlacesIInv == IInv => PlacesAgree
<1> SUFFICES ASSUME IInv PROVE PlacesAgree
  OBVIOUS
<1>1. TypeOK /\ SingleCarrier /\ KnownTargets
  BY DEF IInv
<1>2. ASSUME NEW m \in broker
      PROVE  JobPhase(m.job) = "queued" /\ JobTries(m.job) = m.retries
  <2>1. Queued(m.job) = {m} /\ Held(m.job) = {}
    BY <1>1 DEF Queued, Held, SingleCarrier
  <2>2. target[m.job] # NoTenant
    BY <1>1 DEF KnownTargets
  <2> QED
    BY <2>1, <2>2 DEF JobPhase, JobTries
<1>3. ASSUME NEW w \in Workers, worker[w].job # NoJob
      PROVE  /\ JobPhase(worker[w].job) = PhaseAt(worker[w].goal)
             /\ JobTries(worker[w].job) = worker[w].retries
  <2>1. Queued(worker[w].job) = {} /\ Held(worker[w].job) = {w}
    BY <1>1, <1>3 DEF Queued, Held, SingleCarrier
  <2>2. Carrier(worker[w].job) = w
    BY <1>1, <1>3 DEF Carrier, SingleCarrier
  <2>3. target[worker[w].job] # NoTenant /\ worker[w].goal \in Statuses
    BY <1>1, <1>3 DEF KnownTargets, TypeOK, Task
  <2> QED
    BY <2>1, <2>2, <2>3 DEF JobPhase, JobTries, PhaseAt, Final, Statuses
<1>4. ASSUME NEW j \in Jobs, Nowhere(j)
      PROVE  /\ JobPhase(j) = IF target[j] = NoTenant THEN "unsent" ELSE "over"
             /\ JobTries(j) = 0
  <2>1. Queued(j) = {} /\ Held(j) = {}
    BY <1>4 DEF Nowhere, Queued, Held
  <2> QED
    BY <2>1 DEF JobPhase, JobTries
<1> QED
  BY <1>2, <1>3, <1>4 DEF PlacesAgree

LEMMA PlacesNext == IInv' => PlacesAgree'
<1>1. IInv => PlacesAgree
  BY PlacesIInv
<1> QED
  BY <1>1, PTL

\* A job whose place does not change looks the same to JobDelivery.
LEMMA SamePlace ==
  ASSUME PlacesAgree, PlacesAgree', NEW j \in Jobs, j # NoJob,
         \A m : m.job = j => (m \in broker <=> m \in broker'),
         \A w \in Workers : worker[w].job = j \/ worker'[w].job = j =>
           /\ worker'[w].job = worker[w].job
           /\ worker'[w].retries = worker[w].retries
           /\ PhaseAt(worker'[w].goal) = PhaseAt(worker[w].goal),
         target'[j] = target[j]
  PROVE  JobPhase(j)' = JobPhase(j) /\ JobTries(j)' = JobTries(j)
<1>1. CASE \E m \in broker : m.job = j
  BY <1>1 DEF PlacesAgree
<1>2. CASE \E w \in Workers : worker[w].job = j
  BY <1>2 DEF PlacesAgree
<1>3. CASE Nowhere(j)
  <2>1. Nowhere(j)'
    BY <1>3 DEF Nowhere
  <2> QED
    BY <1>3, <2>1 DEF PlacesAgree
<1> QED
  BY <1>1, <1>2, <1>3 DEF Nowhere

\* One job moves as JobDelivery allows, or stays, and the others stay.
LEMMA OneJobMoves ==
  ASSUME NEW j \in Jobs,
         \A k \in Jobs \ {j} : JobPhase(k)' = JobPhase(k) /\ JobTries(k)' = JobTries(k),
         \/ JobPhase(j)' = JobPhase(j) /\ JobTries(j)' = JobTries(j)
         \/ /\ \/ JobPhase(j) = "unsent" /\ JobPhase(j)' = "queued"
               \/ JobPhase(j) = "queued" /\ JobPhase(j)' = "running"
               \/ JobPhase(j) = "running" /\ JobPhase(j)' = "settling"
               \/ /\ JobPhase(j) = "running" /\ JobPhase(j)' = "exhausted"
                  /\ JobTries(j) = MaxRetries
            /\ JobTries(j)' = JobTries(j)
         \/ /\ JobPhase(j) = "running" /\ JobPhase(j)' = "queued"
            /\ JobTries(j) < MaxRetries /\ JobTries(j)' = JobTries(j) + 1
         \/ /\ JobPhase(j) \in {"running", "settling", "exhausted"}
            /\ JobPhase(j)' = "over" /\ JobTries(j)' = 0
  PROVE  [Delivery!DeliveryNext]_(Delivery!deliveryVars)
<1> DEFINE P == [k \in Jobs |-> JobPhase(k)]
           T == [k \in Jobs |-> JobTries(k)]
<1>1. P' = [P EXCEPT ![j] = JobPhase(j)'] /\ T' = [T EXCEPT ![j] = JobTries(j)']
  OBVIOUS
<1>2. P[j] = JobPhase(j) /\ T[j] = JobTries(j)
  OBVIOUS
<1>3. CASE JobPhase(j)' = JobPhase(j) /\ JobTries(j)' = JobTries(j)
  <2>1. P' = P /\ T' = T
    BY <1>3
  <2> QED
    BY <2>1 DEF Delivery!deliveryVars
<1>4. JobTries(j)' = JobTries(j) => T' = T
  OBVIOUS
<1>5. CASE JobPhase(j) = "unsent" /\ JobPhase(j)' = "queued" /\ JobTries(j)' = JobTries(j)
  <2>1. Delivery!Send(j)
    BY <1>1, <1>2, <1>4, <1>5 DEF Delivery!Send, Delivery!Move
  <2> QED
    BY <2>1 DEF Delivery!DeliveryNext
<1>6. CASE JobPhase(j) = "queued" /\ JobPhase(j)' = "running" /\ JobTries(j)' = JobTries(j)
  <2>1. Delivery!Take(j)
    BY <1>1, <1>2, <1>4, <1>6 DEF Delivery!Take, Delivery!Move
  <2> QED
    BY <2>1 DEF Delivery!DeliveryNext
<1>7. CASE JobPhase(j) = "running" /\ JobPhase(j)' = "settling" /\ JobTries(j)' = JobTries(j)
  <2>1. Delivery!Settle(j)
    BY <1>1, <1>2, <1>4, <1>7 DEF Delivery!Settle, Delivery!Move
  <2> QED
    BY <2>1 DEF Delivery!DeliveryNext
<1>8. CASE /\ JobPhase(j) = "running" /\ JobPhase(j)' = "exhausted"
           /\ JobTries(j) = MaxRetries /\ JobTries(j)' = JobTries(j)
  <2>1. Delivery!Exhaust(j)
    BY <1>1, <1>2, <1>4, <1>8 DEF Delivery!Exhaust, Delivery!Move
  <2> QED
    BY <2>1 DEF Delivery!DeliveryNext
<1>9. CASE /\ JobPhase(j) = "running" /\ JobPhase(j)' = "queued"
           /\ JobTries(j) < MaxRetries /\ JobTries(j)' = JobTries(j) + 1
  <2>1. Delivery!Requeue(j)
    BY <1>1, <1>2, <1>9 DEF Delivery!Requeue, Delivery!Move
  <2> QED
    BY <2>1 DEF Delivery!DeliveryNext
<1>10. CASE /\ JobPhase(j) \in {"running", "settling", "exhausted"}
            /\ JobPhase(j)' = "over" /\ JobTries(j)' = 0
  <2>1. Delivery!Finish(j)
    BY <1>1, <1>2, <1>10 DEF Delivery!Finish, Delivery!Move
  <2> QED
    BY <2>1 DEF Delivery!DeliveryNext
<1> QED
  BY <1>3, <1>5, <1>6, <1>7, <1>8, <1>9, <1>10

\* A worker's task goes on without a new status, or sets one.
LEMMA WorkerMovesOn ==
  ASSUME IInv, IInv', NEW w \in Workers, worker[w].pc # "idle",
         worker'[w].job = worker[w].job, worker'[w].retries = worker[w].retries,
         \A v \in Workers \ {w} : worker'[v] = worker[v],
         UNCHANGED <<target, broker>>,
         \/ worker'[w].goal = worker[w].goal
         \/ /\ worker[w].pc \in {"start", "provision", "bootstrap"}
            /\ worker'[w].goal = "FAILED_RETRYABLE" => worker[w].retries = MaxRetries
  PROVE  [Delivery!DeliveryNext]_(Delivery!deliveryVars)
<1>1. PlacesAgree /\ PlacesAgree'
  BY PlacesIInv, PlacesNext
<1>2. worker[w].job \in Jobs /\ worker[w] \in Task
  BY BusyWorker
<1> PICK j \in Jobs : j = worker[w].job
  BY <1>2
<1>3. ASSUME NEW k \in Jobs \ {j}
      PROVE  JobPhase(k)' = JobPhase(k) /\ JobTries(k)' = JobTries(k)
  <2>1. k # NoJob
    BY ConstantsAssumption
  <2> QED
    BY <1>1, <2>1, SamePlace
<1>4. j # NoJob
  BY ConstantsAssumption
<1>5. /\ JobPhase(j) = PhaseAt(worker[w].goal) /\ JobTries(j) = worker[w].retries
      /\ JobPhase(j)' = PhaseAt(worker'[w].goal) /\ JobTries(j)' = worker'[w].retries
  BY <1>1, <1>4 DEF PlacesAgree
<1>6. worker[w].pc \in {"start", "provision", "bootstrap"} => JobPhase(j) = "running"
  <2>1. TaskShape
    BY DEF IInv
  <2> QED
    BY <1>5, <2>1 DEF TaskShape, PhaseAt, Final
<1>7. \/ JobPhase(j)' = JobPhase(j)
      \/ JobPhase(j) = "running" /\ JobPhase(j)' = "settling"
      \/ /\ JobPhase(j) = "running" /\ JobPhase(j)' = "exhausted"
         /\ JobTries(j) = MaxRetries
  BY <1>5, <1>6 DEF PhaseAt
<1> QED
  BY <1>3, <1>5, <1>7, OneJobMoves

\* A task leaves its worker, and perhaps goes back to the queue.
LEMMA WorkerLetsGo ==
  ASSUME IInv, IInv', NEW w \in Workers, worker[w].pc # "idle", Release(w),
         \/ broker' = broker
         \/ /\ worker[w].pc \in {"provision", "bootstrap"}
            /\ worker[w].retries < MaxRetries
            /\ broker' = broker \union
                 {[job |-> worker[w].job, retries |-> worker[w].retries + 1]},
         UNCHANGED target
  PROVE  [Delivery!DeliveryNext]_(Delivery!deliveryVars)
<1> DEFINE again == [job |-> worker[w].job, retries |-> worker[w].retries + 1]
<1>1. PlacesAgree /\ PlacesAgree' /\ TypeOK /\ SingleCarrier /\ TaskShape /\ KnownTargets
  BY PlacesIInv, PlacesNext DEF IInv
<1>2. worker[w].job \in Jobs /\ worker[w] \in Task
  BY BusyWorker
<1> PICK j \in Jobs : j = worker[w].job
  BY <1>2
<1>3. /\ worker'[w].job = NoJob
      /\ \A v \in Workers \ {w} : worker'[v] = worker[v]
  BY <1>1, ReleaseEffect DEF Idle
<1>4. /\ j # NoJob
      /\ \A v \in Workers : worker'[v].job # j
      /\ \A m \in broker : m.job # j
  BY <1>1, <1>3, ConstantsAssumption DEF SingleCarrier
<1>5. again.job = j /\ again.retries = worker[w].retries + 1
  OBVIOUS
<1>6. ASSUME NEW k \in Jobs \ {j}
      PROVE  JobPhase(k)' = JobPhase(k) /\ JobTries(k)' = JobTries(k)
  <2>1. k # NoJob
    BY ConstantsAssumption
  <2>2. \A m : m.job = k => (m \in broker <=> m \in broker')
    BY <1>5
  <2>3. ASSUME NEW v \in Workers, worker[v].job = k \/ worker'[v].job = k
        PROVE  worker'[v] = worker[v]
    BY <1>3, <2>1, <2>3
  <2> HIDE DEF again
  <2> QED
    BY <1>1, <2>1, <2>2, <2>3, SamePlace
<1>7. /\ JobPhase(j) \in {"running", "settling", "exhausted"}
      /\ JobPhase(j) = PhaseAt(worker[w].goal) /\ JobTries(j) = worker[w].retries
  BY <1>1, <1>4 DEF PlacesAgree, PhaseAt
<1>8. CASE broker' = broker
  <2>1. Nowhere(j)' /\ target'[j] # NoTenant
    BY <1>1, <1>4, <1>8 DEF Nowhere, KnownTargets
  <2>2. JobPhase(j)' = "over" /\ JobTries(j)' = 0
    BY <1>1, <2>1 DEF PlacesAgree
  <2> QED
    BY <1>6, <1>7, <2>2, OneJobMoves
<1>9. CASE /\ worker[w].pc \in {"provision", "bootstrap"}
           /\ worker[w].retries < MaxRetries
           /\ broker' = broker \union {again}
  <2>1. JobPhase(j) = "running"
    BY <1>1, <1>7, <1>9 DEF TaskShape, PhaseAt, Final
  <2>2. JobPhase(j)' = "queued" /\ JobTries(j)' = worker[w].retries + 1
    BY <1>1, <1>5, <1>9 DEF PlacesAgree
  <2> QED
    BY <1>6, <1>7, <1>9, <2>1, <2>2, OneJobMoves
<1> QED
  BY <1>8, <1>9

LEMMA TakeMessageDelivers ==
  ASSUME IInv, IInv', NEW w \in Workers, TakeMessage(w)
  PROVE  [Delivery!DeliveryNext]_(Delivery!deliveryVars)
<1>1. PlacesAgree /\ PlacesAgree' /\ TypeOK /\ SingleCarrier /\ TaskShape
  BY PlacesIInv, PlacesNext DEF IInv
<1>2. PICK m \in broker :
        /\ m \in Message
        /\ broker' = broker \ {m}
        /\ worker'[w] = [Idle EXCEPT !.pc = "start", !.job = m.job, !.retries = m.retries]
        /\ \A v \in Workers \ {w} : worker'[v] = worker[v]
  BY <1>1, TakeMessageEffect
<1> PICK j \in Jobs : j = m.job
  BY <1>2 DEF Message
<1>3. /\ worker'[w].job = j /\ worker'[w].retries = m.retries
      /\ worker'[w].goal = "PROVISIONING" /\ j # NoJob
      /\ worker[w].job = NoJob /\ target' = target
  BY <1>1, <1>2, ConstantsAssumption DEF Idle, TaskShape, TakeMessage, DefaultStatus
<1>4. ASSUME NEW k \in Jobs \ {j}
      PROVE  JobPhase(k)' = JobPhase(k) /\ JobTries(k)' = JobTries(k)
  <2>1. k # NoJob
    BY ConstantsAssumption
  <2>2. \A n : n.job = k => (n \in broker <=> n \in broker')
    BY <1>2
  <2>3. ASSUME NEW v \in Workers, worker[v].job = k \/ worker'[v].job = k
        PROVE  worker'[v] = worker[v]
    BY <1>2, <1>3, <2>1, <2>3
  <2> QED
    BY <1>1, <1>3, <2>1, <2>2, <2>3, SamePlace
<1>5. JobPhase(j) = "queued" /\ JobTries(j) = m.retries
  BY <1>1, <1>2 DEF PlacesAgree
<1>6. JobPhase(j)' = "running" /\ JobTries(j)' = m.retries
  BY <1>1, <1>3 DEF PlacesAgree, PhaseAt
<1> QED
  BY <1>4, <1>5, <1>6, OneJobMoves

LEMMA SendTaskDelivers ==
  ASSUME IInv, IInv', NEW t \in Tenants, SendTask(t), UNCHANGED worker
  PROVE  [Delivery!DeliveryNext]_(Delivery!deliveryVars)
<1>1. PlacesAgree /\ PlacesAgree' /\ TypeOK /\ KnownTargets
  BY PlacesIInv, PlacesNext DEF IInv
<1>2. PICK j \in Jobs :
        /\ target[j] = NoTenant
        /\ target' = [target EXCEPT ![j] = t]
        /\ broker' = broker \union {[job |-> j, retries |-> 0]}
  BY DEF SendTask
<1> DEFINE sent == [job |-> j, retries |-> 0]
<1>3. sent \in broker' /\ sent.job = j /\ sent.retries = 0
  BY <1>2
<1>4. Nowhere(j)
  BY <1>1, <1>2, ConstantsAssumption DEF Nowhere, KnownTargets
<1>5. JobPhase(j) = "unsent" /\ JobTries(j) = 0
  BY <1>1, <1>2, <1>4 DEF PlacesAgree
<1>6. JobPhase(j)' = "queued" /\ JobTries(j)' = 0
  BY <1>1, <1>3 DEF PlacesAgree
<1>7. ASSUME NEW k \in Jobs \ {j}
      PROVE  JobPhase(k)' = JobPhase(k) /\ JobTries(k)' = JobTries(k)
  <2>1. k # NoJob /\ target'[k] = target[k]
    BY <1>1, <1>2, ConstantsAssumption DEF TypeOK
  <2>2. \A n : n.job = k => (n \in broker <=> n \in broker')
    BY <1>2, <1>3
  <2> QED
    BY <1>1, <2>1, <2>2, SamePlace
<1> QED
  BY <1>5, <1>6, <1>7, OneJobMoves

LEMMA JobsStay ==
  ASSUME UNCHANGED <<target, broker, worker>>
  PROVE  [Delivery!DeliveryNext]_(Delivery!deliveryVars)
<1>1. ASSUME NEW j \in Jobs
      PROVE  JobPhase(j)' = JobPhase(j) /\ JobTries(j)' = JobTries(j)
  BY DEF JobPhase, JobTries, Queued, Held, Carrier
<1> QED
  BY <1>1 DEF Delivery!deliveryVars

LEMMA NextDelivers ==
  IInv /\ IInv' /\ [Next]_vars => [Delivery!DeliveryNext]_(Delivery!deliveryVars)
<1> SUFFICES ASSUME IInv, IInv', [Next]_vars
             PROVE  [Delivery!DeliveryNext]_(Delivery!deliveryVars)
  OBVIOUS
<1>0. TypeOK
  BY DEF IInv
<1>1. ASSUME NEW t \in Tenants, RequestStep(t) \/ RequestFault(t)
      PROVE  [Delivery!DeliveryNext]_(Delivery!deliveryVars)
  <2>1. CASE InsertTenant(t) \/ CommitTenant(t) \/ AbandonRequest(t) \/ DeleteTenant(t)
    BY <2>1, JobsStay DEF InsertTenant, CommitTenant, AbandonRequest, DeleteTenant
  <2>2. CASE EnqueueOnboarding(t) \/ RequestOnboarding(t)
    BY <2>2, SendTaskDelivers DEF EnqueueOnboarding, RequestOnboarding
  <2> QED
    BY <1>1, <2>1, <2>2 DEF RequestStep, RequestFault
<1>2. ASSUME NEW w \in Workers, NEW s \in Statuses, NEW n \in Stages,
             SetStatus(w, s, n), worker[w].pc \in {"start", "provision", "bootstrap"},
             s = "FAILED_RETRYABLE" => worker[w].retries = MaxRetries,
             UNCHANGED <<target, broker>>
      PROVE  [Delivery!DeliveryNext]_(Delivery!deliveryVars)
  <2>1. worker[w] \in Task
    BY <1>0 DEF TypeOK
  <2>2. /\ worker'[w] = [worker[w] EXCEPT !.pc = "read", !.goal = s, !.then = n]
        /\ \A v \in Workers \ {w} : worker'[v] = worker[v]
    BY <1>0, <1>2, SetStatusEffect, ZenonT(40)
  <2>3. /\ worker'[w].job = worker[w].job /\ worker'[w].retries = worker[w].retries
        /\ worker'[w].goal = s
    BY <2>1, <2>2 DEF Task
  <2> QED
    BY <1>2, <2>2, <2>3, WorkerMovesOn
<1>3. ASSUME NEW w \in Workers, NEW n \in Stages, GoTo(w, n), worker[w].pc # "idle",
             UNCHANGED <<target, broker>>
      PROVE  [Delivery!DeliveryNext]_(Delivery!deliveryVars)
  <2>1. worker[w] \in Task
    BY <1>0 DEF TypeOK
  <2>2. /\ worker'[w] = [worker[w] EXCEPT !.pc = n]
        /\ \A v \in Workers \ {w} : worker'[v] = worker[v]
    BY <1>0, <1>3, GoToEffect
  <2>3. /\ worker'[w].job = worker[w].job /\ worker'[w].retries = worker[w].retries
        /\ worker'[w].goal = worker[w].goal
    BY <2>1, <2>2 DEF Task
  <2> QED
    BY <1>3, <2>2, <2>3, WorkerMovesOn
<1>4. ASSUME NEW w \in Workers, ReadStatus(w)
      PROVE  [Delivery!DeliveryNext]_(Delivery!deliveryVars)
  <2>1. worker[w].pc = "read" /\ UNCHANGED <<target, broker>>
    BY <1>4 DEF ReadStatus
  <2>2. worker[w] \in Task /\ Subject(w) \in Tenants
    BY <2>1, BusyWorker
  <2>3. /\ worker'[w] = [worker[w] EXCEPT !.pc = "write", !.from = row[Subject(w)]]
        /\ \A v \in Workers \ {w} : worker'[v] = worker[v]
    BY <1>0, <1>4, <2>2, ReadStatusEffect
  <2>4. /\ worker'[w].job = worker[w].job /\ worker'[w].retries = worker[w].retries
        /\ worker'[w].goal = worker[w].goal
    BY <2>2, <2>3 DEF Task
  <2> QED
    BY <2>1, <2>3, <2>4, WorkerMovesOn
<1>5. ASSUME NEW w \in Workers, Progress(w) \/ AdapterFault(w) \/ Crash(w)
      PROVE  [Delivery!DeliveryNext]_(Delivery!deliveryVars)
  <2>1. CASE TakeMessage(w)
    BY <2>1, TakeMessageDelivers
  <2>2. CASE StartJob(w)
    <3>1. \/ SetStatus(w, "PROVISIONING", "provision")
          \/ SetStatus(w, "BOOTSTRAPPING", "bootstrap")
          \/ SetStatus(w, "ERROR", "failed")
      BY <2>2 DEF StartJob
    <3> QED
      BY <1>2, <2>2, <3>1 DEF StartJob, Statuses, Final, Stages
  <2>3. CASE ReadStatus(w)
    BY <1>4, <2>3
  <2>4. CASE WriteStatus(w)
    <3>1. worker[w].then \in Stages
      BY <1>0 DEF TypeOK, Task
    <3> QED
      BY <1>3, <2>4, <3>1 DEF WriteStatus
  <2>5. CASE TenantMissing(w) \/ EndJob(w) \/ Crash(w) \/ RetryJob(w)
    BY <2>5, WorkerLetsGo DEF TenantMissing, EndJob, Crash, RetryJob
  <2>6. CASE Provision(w) \/ Bootstrap(w) \/ RejectPlan(w) \/ AdapterRefuses(w)
    BY <1>2, <2>6
    DEF Provision, Bootstrap, RejectPlan, AdapterRefuses, Statuses, Final, Stages
  <2>7. CASE GiveUp(w)
    BY <1>2, <2>7 DEF GiveUp, Statuses, Final, Stages
  <2>8. CASE WriteAudit(w)
    BY <1>3, <2>8 DEF WriteAudit, Stages
  <2> QED
    BY <1>5, <2>1, <2>2, <2>3, <2>4, <2>5, <2>6, <2>7, <2>8 DEF Progress, AdapterFault
<1>6. CASE UNCHANGED vars
  BY <1>6, JobsStay DEF vars
<1> QED
  BY <1>1, <1>5, <1>6 DEF Next

\* The onboarding task implements the queue's contract, for any number of tenants,
\* workers and jobs: its first states are the contract's, and each step of a worker
\* or a request is one move of one job the contract allows, or none at all.
THEOREM Delivers == Spec => ImplementsDelivery
<1>1. Init => Delivery!DeliveryInit
  <2> SUFFICES ASSUME Init PROVE Delivery!DeliveryInit
    OBVIOUS
  <2>1. IInv
    BY InitIInv
  <2>2. \A j \in Jobs : Nowhere(j) /\ target[j] = NoTenant
    BY ConstantsAssumption DEF Init, Nowhere, Idle
  <2>3. \A j \in Jobs : JobPhase(j) = "unsent" /\ JobTries(j) = 0
    BY <2>1, <2>2, PlacesIInv DEF PlacesAgree
  <2> QED
    BY <2>3 DEF Delivery!DeliveryInit
<1>2. IInv /\ IInv' /\ [Next]_vars => [Delivery!DeliveryNext]_(Delivery!deliveryVars)
  BY NextDelivers
<1> QED
  BY <1>1, <1>2, Invariance, PTL DEF Spec, ImplementsDelivery, Delivery!DeliverySpec

================================================================================
