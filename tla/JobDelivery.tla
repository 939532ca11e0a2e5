------------------------------ MODULE JobDelivery ------------------------------
(***************************************************************************)
(* What the task queue promises about one enqueued job, whatever the job   *)
(* does: it is in one place at a time, it is tried at most MaxRetries + 1  *)
(* times, it settles once, and it only settles as exhausted when every try *)
(* was used.  TenantLifecycle (the onboard_tenant task of worker.py)       *)
(* implements this specification.                                          *)
(***************************************************************************)
EXTENDS Naturals

CONSTANTS
  Jobs,        \* job identities
  MaxRetries   \* max_retries of the Celery task

VARIABLES
  phase,   \* [Jobs -> Phases]
  tries    \* [Jobs -> 0 .. MaxRetries], retries used so far by a live job

deliveryVars == <<phase, tries>>

\* "unsent" -> "queued" <-> "running" -> "settling" -> "over", where
\* "exhausted" is the settling of a job that failed its last try.
Phases == {"unsent", "queued", "running", "settling", "exhausted", "over"}

DeliveryTypeOK ==
  /\ phase \in [Jobs -> Phases]
  /\ tries \in [Jobs -> 0 .. MaxRetries]

DeliveryInit ==
  /\ phase = [j \in Jobs |-> "unsent"]
  /\ tries = [j \in Jobs |-> 0]

Move(j, from, to) ==
  /\ phase[j] \in from
  /\ phase' = [phase EXCEPT ![j] = to]

Send(j) == Move(j, {"unsent"}, "queued") /\ UNCHANGED tries

Take(j) == Move(j, {"queued"}, "running") /\ UNCHANGED tries

Requeue(j) ==
  /\ tries[j] < MaxRetries
  /\ Move(j, {"running"}, "queued")
  /\ tries' = [tries EXCEPT ![j] = @ + 1]

Settle(j) == Move(j, {"running"}, "settling") /\ UNCHANGED tries

Exhaust(j) ==
  /\ tries[j] = MaxRetries
  /\ Move(j, {"running"}, "exhausted")
  /\ UNCHANGED tries

\* A job ends after settling, or at any moment when its worker dies.
Finish(j) ==
  /\ Move(j, {"running", "settling", "exhausted"}, "over")
  /\ tries' = [tries EXCEPT ![j] = 0]

DeliveryNext ==
  \E j \in Jobs :
    Send(j) \/ Take(j) \/ Requeue(j) \/ Settle(j) \/ Exhaust(j) \/ Finish(j)

DeliverySpec == DeliveryInit /\ [][DeliveryNext]_deliveryVars

================================================================================
