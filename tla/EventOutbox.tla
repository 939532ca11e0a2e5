------------------------------ MODULE EventOutbox ------------------------------
(***************************************************************************)
(* The event outbox: API requests append rows to events inside their own   *)
(* transaction (EventService, db/services.py), subscriptions are created   *)
(* and disabled (api/routes.py), and the dispatch_events task of worker.py *)
(* sends the pending events to the matching webhooks                       *)
(* (integrations/event_dispatcher.py).  Beat starts a run every 30 seconds *)
(* whether or not the previous one has ended, so runs overlap.             *)
(*                                                                         *)
(* A run is one transaction: each event's new status is flushed, which     *)
(* locks its row, and all of them commit at the end.  An exception after   *)
(* some webhooks were sent rolls every status of the run back.             *)
(***************************************************************************)
EXTENDS Naturals, FiniteSets, FiniteSetsExt

CONSTANTS
  Events,       \* 1 .. n, in order of created_at
  Subs,         \* subscriptions
  EventOf,      \* each event's tenant (or Platform) and type
  SubOf,        \* each subscription's tenant (or Platform) and event_types
  Platform,     \* tenant_id NULL: an event of no tenant, a subscription to all
  Runs,         \* dispatch_events runs that can be active at once
  Limit         \* events taken by one run (100 in worker.py)

ASSUME OutboxAssumption ==
  /\ Events \subseteq Nat
  /\ Limit \in Nat \ {0}

VARIABLES
  event,     \* each events row: its status, or where its insertion is
  sub,       \* each subscriptions row
  run,       \* what each dispatch run is doing
  accepted,  \* <<e, s>>: the destination of s answered below 400 for e (ghost)
  refused,   \* <<e, s>>: it answered 400 or above (ghost)
  owed       \* subscriptions that matched e when it was committed and were
             \* not disabled before it was dispatched (ghost)

vars == <<event, sub, run, accepted, refused, owed>>

Outcomes == {"DISPATCHED", "FAILED_RETRYABLE"}
EventStates == {"none", "appended", "rolled_back", "PENDING"} \union Outcomes
NoEvent == 0

Idle == [pc |-> "idle", batch |-> {}, current |-> NoEvent, todo |-> {},
         ok |-> TRUE, flushed |-> {}, failed |-> {}]

\* flushed holds the events whose new status this run has flushed; failed are
\* those of them flushed as FAILED_RETRYABLE.
TypeOK ==
  /\ event \in [Events -> EventStates]
  /\ sub \in [Subs -> {"none", "ACTIVE", "DISABLED"}]
  /\ run \in [Runs -> [pc : {"idle", "next", "send", "commit"}, batch : SUBSET Events,
                       current : Events \union {NoEvent}, todo : SUBSET Subs,
                       ok : BOOLEAN, flushed : SUBSET Events, failed : SUBSET Events]]
  /\ accepted \in SUBSET (Events \X Subs)
  /\ refused \in SUBSET (Events \X Subs)
  /\ owed \in [Events -> SUBSET Subs]

\* No handler inserts or deletes a platform-wide subscription: they are seeded.
Seeded(s) == SubOf[s].tenant = Platform

Init ==
  /\ event = [e \in Events |-> "none"]
  /\ sub = [s \in Subs |-> IF Seeded(s) THEN "ACTIVE" ELSE "none"]
  /\ run = [d \in Runs |-> Idle]
  /\ accepted = {}
  /\ refused = {}
  /\ owed = [e \in Events |-> {}]

--------------------------------------------------------------------------------
(* API requests *)

Matches(e, s) ==
  /\ SubOf[s].tenant \in {EventOf[e].tenant, Platform}
  /\ \/ SubOf[s].types = {}
     \/ {EventOf[e].type, "*"} \cap SubOf[s].types # {}

Active == {s \in Subs : sub[s] = "ACTIVE"}

\* EventService.append inside a request that has not committed.
AppendEvent(e) ==
  /\ event[e] = "none"
  /\ \A f \in Events : f < e => event[f] # "none"
  /\ event' = [event EXCEPT ![e] = "appended"]
  /\ UNCHANGED <<sub, run, accepted, refused, owed>>

CommitEvent(e) ==
  /\ event[e] = "appended"
  /\ event' = [event EXCEPT ![e] = "PENDING"]
  /\ owed' = [owed EXCEPT ![e] = {s \in Active : Matches(e, s)}]
  /\ UNCHANGED <<sub, run, accepted, refused>>

RollbackEvent(e) ==
  /\ event[e] = "appended"
  /\ event' = [event EXCEPT ![e] = "rolled_back"]
  /\ UNCHANGED <<sub, run, accepted, refused, owed>>

\* POST .../subscriptions
CreateSubscription(s) ==
  /\ sub[s] = "none"
  /\ sub' = [sub EXCEPT ![s] = "ACTIVE"]
  /\ UNCHANGED <<event, run, accepted, refused, owed>>

\* DELETE .../subscriptions/{subscription_id}: the row stays, DISABLED.  404 for a
\* row of no tenant.
DeleteSubscription(s) ==
  /\ sub[s] = "ACTIVE" /\ ~Seeded(s)
  /\ sub' = [sub EXCEPT ![s] = "DISABLED"]
  /\ owed' = [e \in Events |-> IF event[e] = "DISPATCHED" THEN owed[e] ELSE owed[e] \ {s}]
  /\ UNCHANGED <<event, run, accepted, refused>>

--------------------------------------------------------------------------------
(* Dispatch runs *)

\* Mutant: the first Limit events, committed or not.
StartRunDirty(d) ==
  LET pending == {e \in Events : event[e] \in {"appended", "PENDING"}}
  IN  /\ run[d].pc = "idle"
      /\ pending # {}
      /\ run' = [run EXCEPT ![d] = [Idle EXCEPT !.pc = "next", !.batch =
           {e \in pending : Cardinality({f \in pending : f < e}) < Limit}]]
      /\ UNCHANGED <<event, sub, accepted, refused, owed>>

\* Mutant: every event, whatever its status.
StartRunUnfiltered(d) ==
  LET pending == {e \in Events : event[e] \in {"PENDING"} \union Outcomes}
  IN  /\ run[d].pc = "idle"
      /\ pending # {}
      /\ run' = [run EXCEPT ![d] = [Idle EXCEPT !.pc = "next", !.batch =
           {e \in pending : Cardinality({f \in pending : f < e}) < Limit}]]
      /\ UNCHANGED <<event, sub, accepted, refused, owed>>

\* list_pending: the oldest Limit committed events that are PENDING.  With none
\* the run ends at once.
StartRun(d) ==
  LET pending == {e \in Events : event[e] = "PENDING"}
  IN  /\ run[d].pc = "idle"
      /\ pending # {}
      /\ run' = [run EXCEPT ![d] = [Idle EXCEPT !.pc = "next", !.batch =
           {e \in pending : Cardinality({f \in pending : f < e}) < Limit}]]
      /\ UNCHANGED <<event, sub, accepted, refused, owed>>

\* Mutants: any order; a failure that stays for the events that follow; no
\* platform-wide subscriptions.
ResolveAnyOrder(d) ==
  /\ run[d].pc = "next"
  /\ \E e \in run[d].batch :
       run' = [run EXCEPT ![d].pc = "send", ![d].current = e, ![d].ok = TRUE,
                          ![d].todo = {s \in Active : Matches(e, s)}]
  /\ UNCHANGED <<event, sub, accepted, refused, owed>>

ResolveKeepsOk(d) ==
  LET e == Min(run[d].batch)
  IN  /\ run[d].pc = "next"
      /\ run' = [run EXCEPT ![d].pc = "send", ![d].current = e,
                            ![d].todo = {s \in Active : Matches(e, s)}]
      /\ UNCHANGED <<event, sub, accepted, refused, owed>>

ResolveTenantOnly(d) ==
  LET e == Min(run[d].batch)
  IN  /\ run[d].pc = "next"
      /\ run' = [run EXCEPT ![d].pc = "send", ![d].current = e, ![d].ok = TRUE,
           ![d].todo = {s \in Active : Matches(e, s) /\ SubOf[s].tenant # Platform}]
      /\ UNCHANGED <<event, sub, accepted, refused, owed>>

\* The next event, oldest first, and its subscriptions as they are now.  The
\* tenant's and the platform's are two SELECTs; each row is in one of them.
ResolveSubscriptions(d) ==
  LET e == Min(run[d].batch)
  IN  /\ run[d].pc = "next"
      /\ run' = [run EXCEPT ![d].pc = "send", ![d].current = e, ![d].ok = TRUE,
                            ![d].todo = {s \in Active : Matches(e, s)}]
      /\ UNCHANGED <<event, sub, accepted, refused, owed>>

\* One webhook, already answered: below 400, or not.
SendAccepted(d, s) ==
  /\ run[d].pc = "send"
  /\ s \in run[d].todo
  /\ accepted' = accepted \union {<<run[d].current, s>>}
  /\ run' = [run EXCEPT ![d].todo = @ \ {s}]
  /\ UNCHANGED <<event, sub, refused, owed>>

SendRefused(d, s) ==
  /\ run[d].pc = "send"
  /\ s \in run[d].todo
  /\ refused' = refused \union {<<run[d].current, s>>}
  /\ run' = [run EXCEPT ![d].todo = @ \ {s}, ![d].ok = FALSE]
  /\ UNCHANGED <<event, sub, accepted, owed>>

LockedByOther(d, e) == \E o \in Runs \ {d} : e \in run[o].flushed

\* Mutant: an event that was refused is tried again at once.
FlushStatusOrRepeat(d) ==
  LET e == run[d].current
      rest == IF run[d].ok THEN run[d].batch \ {e} ELSE run[d].batch
  IN  /\ run[d].pc = "send"
      /\ run[d].todo = {}
      /\ ~LockedByOther(d, e)
      /\ run' = [run EXCEPT
           ![d].pc = IF rest = {} THEN "commit" ELSE "next",
           ![d].batch = rest,
           ![d].flushed = IF run[d].ok THEN @ \union {e} ELSE @]
      /\ UNCHANGED <<event, sub, accepted, refused, owed>>

\* EventRepository.update: the flush waits for a run that flushed the same row.
FlushStatus(d) ==
  LET e == run[d].current
      rest == run[d].batch \ {e}
  IN  /\ run[d].pc = "send"
      /\ run[d].todo = {}
      /\ ~LockedByOther(d, e)
      /\ run' = [run EXCEPT
           ![d].pc = IF rest = {} THEN "commit" ELSE "next",
           ![d].batch = rest,
           ![d].flushed = @ \union {e},
           ![d].failed = IF run[d].ok THEN @ ELSE @ \union {e}]
      /\ UNCHANGED <<event, sub, accepted, refused, owed>>

Committed(r, e) ==
  CASE e \in r.failed -> "FAILED_RETRYABLE"
    [] e \in r.flushed \ r.failed -> "DISPATCHED"
    [] OTHER -> event[e]

\* The last status to commit stays, also over one that another run committed.
CommitRun(d) ==
  /\ run[d].pc = "commit"
  /\ event' = [e \in Events |-> Committed(run[d], e)]
  /\ run' = [run EXCEPT ![d] = Idle]
  /\ UNCHANGED <<sub, accepted, refused, owed>>

\* An exception of the secrets adapter (headers_ref) or of the HTTP client, or
\* the death of the worker: the session closes and every flush is undone.
AbortRun(d) ==
  /\ run[d].pc # "idle"
  /\ run' = [run EXCEPT ![d] = Idle]
  /\ UNCHANGED <<event, sub, accepted, refused, owed>>

--------------------------------------------------------------------------------

ApiStep ==
  \/ \E e \in Events : AppendEvent(e) \/ CommitEvent(e) \/ RollbackEvent(e)
  \/ \E s \in Subs : CreateSubscription(s) \/ DeleteSubscription(s)

RunStep(d) ==
  \/ StartRun(d)
  \/ ResolveSubscriptions(d)
  \/ \E s \in Subs : SendAccepted(d, s) \/ SendRefused(d, s)
  \/ FlushStatus(d)
  \/ CommitRun(d)

Next == ApiStep \/ \E d \in Runs : RunStep(d) \/ AbortRun(d)

\* Beat keeps starting runs and a run keeps going; nothing else need happen.
Spec == Init /\ [][Next]_vars /\ \A d \in Runs : WF_vars(RunStep(d))

(* Properties *)

\* DISPATCHED means delivered: every subscription that matched the event when
\* it was committed, and was not deleted before that, has accepted it,
\* whatever runs overlapped or were rolled back in between.
DispatchedReachedAll ==
  \A e \in Events : event[e] = "DISPATCHED" =>
    \A s \in owed[e] : <<e, s>> \in accepted

\* FAILED_RETRYABLE is said only of an event that some destination refused; the
\* failure of one event is never charged to another of the same run.
FailureIsItsOwn ==
  \A e \in Events : event[e] = "FAILED_RETRYABLE" =>
    \E s \in Subs : <<e, s>> \in refused

\* No webhook ever carries an event of a request that did not commit.
NoPhantomEvent ==
  \A p \in accepted \union refused : event[p[1]] \in {"PENDING"} \union Outcomes

\* Overlapping runs never wait for each other in a circle: both lock the rows
\* in order of created_at (the ORDER BY of list_pending).
NoLockCycle ==
  \A d, o \in Runs :
    ~ (/\ run[d].pc = "send" /\ run[d].current \in run[o].flushed
       /\ run[o].pc = "send" /\ run[o].current \in run[d].flushed)

\* Every committed event leaves PENDING, unless runs are aborted for ever: one
\* destination that always raises holds every event of the batch back.
EveryEventSettles ==
  \/ []<><<\E d \in Runs : AbortRun(d)>>_vars
  \/ \A e \in Events : event[e] = "PENDING" ~> event[e] \in Outcomes

\* A settled event keeps its outcome, and is not sent again, unless a run that
\* took it while it was pending is still under way: only runs that overlap may
\* contradict each other.
SettledOnce ==
  [][\A e \in Events :
       /\ event[e] \in Outcomes
       /\ \A d \in Runs : e \notin run[d].batch \union run[d].flushed
       => event'[e] = event[e] /\ \A d \in Runs : e \notin run'[d].batch]_vars

\* "Worker retry/backoff for retryable adapter failures" (docs/17-scale-ha-ops.md):
\* an event marked FAILED_RETRYABLE is taken up by a later run.
RetryableIsRetried ==
  \A e \in Events :
    event[e] = "FAILED_RETRYABLE" ~>
      event[e] = "DISPATCHED" \/ \E d \in Runs : e \in run[d].batch

================================================================================
