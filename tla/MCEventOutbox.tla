----------------------------- MODULE MCEventOutbox -----------------------------
(***************************************************************************)
(* Instances of EventOutbox for TLC: events of two tenants, one tenant's   *)
(* subscription to one type and a platform-wide one to all.                *)
(***************************************************************************)
EXTENDS EventOutbox, TLC

CONSTANTS acme, other, s1, s2

MCEvents ==
  1 :> [tenant |-> acme, type |-> "IncidentCreated"] @@
  2 :> [tenant |-> other, type |-> "TenantCreated"] @@
  3 :> [tenant |-> acme, type |-> "IncidentCreated"]

MCSubs ==
  s1 :> [tenant |-> acme, types |-> {"IncidentCreated"}] @@
  s2 :> [tenant |-> Platform, types |-> {"*"}]

\* Bound: a third event, which no run takes with the other two, only beside two that
\* are not rolled back and while the platform's subscription is the one there is.
Bounded ==
  event'[3] # "none" =>
    sub'[s1] = "none" /\ \A e \in Events : event'[e] # "rolled_back"

MCNext == Next /\ Bounded

MCSpec == Init /\ [][MCNext]_vars /\ \A d \in Runs : WF_vars(RunStep(d))

================================================================================
