--------------------------------- MODULE Metering ---------------------------------
(***************************************************************************)
(* Metering of a tenant (metering/collector.py): a collection, by the      *)
(* worker's schedule or by POST metering/collect, takes a sample and rolls *)
(* up the last hour and the last day, in one transaction; the FinOps       *)
(* summary (api/routes.py) adds up the newest daily rollups.               *)
(*                                                                         *)
(* Collections overlap: each sees the samples committed when it reads, and *)
(* its own.  Of the metrics only which samples they add up is kept: the    *)
(* daily periods overlap too, so a sample is in many of them, and in the   *)
(* summary many times.                                                     *)
(***************************************************************************)
EXTENDS Integers, FiniteSets, Sequences

CONSTANTS
  MaxCollections,  \* bound: how many tasks and requests collect
  Hour, Day,    \* the periods, in ticks
  SummaryRows,  \* how many rollups the summary adds up (30)
  MaxRetries,   \* of the task
  LastTick      \* bound: the clock stops here

ASSUME MeteringAssumption ==
  {MaxCollections, Hour, Day, SummaryRows, MaxRetries, LastTick} \subseteq Nat

VARIABLES
  clock,
  collection,  \* the collections in the order in which they begin
  periods,     \* those that rolled up a day, in the order of period_start
  committed    \* those whose transaction committed

meteringVars == <<clock, collection, periods, committed>>

Grains == {"hourly", "daily"}
NoRollup == [end |-> 0, counted |-> {}]

NewCollection == [pc |-> "collect", tries |-> 0, captured |-> 0, before |-> {},
                  rollup |-> [g \in Grains |-> NoRollup]]

Rollup == [end : 0 .. LastTick, counted : SUBSET (1 .. MaxCollections)]

Collection ==
  [pc : {"again", "collect", "hourly", "daily", "commit", "done", "lost"},
   tries : 0 .. MaxRetries, captured : 0 .. LastTick, before : SUBSET (1 .. MaxCollections),
   rollup : [Grains -> Rollup]]

MeteringTypeOK ==
  /\ clock \in 0 .. LastTick
  /\ collection \in Seq(Collection) /\ Len(collection) <= MaxCollections
  /\ periods \in Seq(DOMAIN collection)
  /\ committed \subseteq DOMAIN collection

MeteringInit ==
  /\ clock = 0
  /\ collection = <<>>
  /\ periods = <<>>
  /\ committed = {}

TickClock ==
  /\ clock < LastTick
  /\ clock' = clock + 1
  /\ UNCHANGED <<collection, periods, committed>>

--------------------------------------------------------------------------------
(* collect_metering *)

BeginCollection ==
  /\ Len(collection) < MaxCollections
  /\ collection' = Append(collection, [NewCollection EXCEPT !.before = committed])
  /\ UNCHANGED <<clock, periods, committed>>

\* collect: the workloads and the counts are read, the sample is flushed.  From here
\* on nothing is retried, and the tries are forgotten.
CollectSample(c) ==
  /\ collection[c].pc = "collect"
  /\ collection' = [collection EXCEPT ![c].pc = "hourly", ![c].captured = clock, ![c].tries = 0]
  /\ UNCHANGED <<clock, periods, committed>>

\* Mutant: the tries are not counted against the limit.
RetryCollectionForever(c) ==
  /\ collection[c].pc = "collect"
  /\ collection' = [collection EXCEPT ![c].pc = "again", ![c].tries = @ + 1]
  /\ UNCHANGED <<clock, periods, committed>>

\* The clusters do not answer: nothing was flushed yet, the task is sent again.
RetryCollection(c) ==
  /\ collection[c].pc = "collect"
  /\ collection[c].tries < MaxRetries
  /\ collection' = [collection EXCEPT ![c].pc = "again", ![c].tries = @ + 1]
  /\ UNCHANGED <<clock, periods, committed>>

BeginAgain(c) ==
  /\ collection[c].pc = "again"
  /\ collection' = [collection EXCEPT ![c].pc = "collect", ![c].before = committed]
  /\ UNCHANGED <<clock, periods, committed>>

\* The samples the transaction sees whose time is in the period that ends now.
Sampled(c, length) ==
  {d \in committed \union {c} : collection[d].captured >= clock - length}

\* The rollup of the period that ends now; none is made of a period without samples.
RolledUp(c, grain, length) ==
  IF Sampled(c, length) = {} THEN collection[c].rollup
  ELSE [collection[c].rollup EXCEPT ![grain] = [end |-> clock, counted |-> Sampled(c, length)]]

\* The hour has no samples if the collection's own is older by now.
RollUpHour(c) ==
  /\ collection[c].pc = "hourly"
  /\ collection' = [collection EXCEPT ![c].pc = "daily", ![c].rollup = RolledUp(c, "hourly", Hour)]
  /\ UNCHANGED <<clock, periods, committed>>

\* Mutant: the day is rolled up from the samples that were there at the start.
RollUpDayStale(c) ==
  /\ collection[c].pc = "daily"
  /\ collection' = [collection EXCEPT ![c].pc = "commit",
       ![c].rollup["daily"] = [end |-> clock, counted |-> collection[c].before]]
  /\ periods' = IF collection[c].before = {} THEN periods ELSE Append(periods, c)
  /\ UNCHANGED <<clock, committed>>

RollUpDay(c) ==
  /\ collection[c].pc = "daily"
  /\ collection' = [collection EXCEPT ![c].pc = "commit", ![c].rollup = RolledUp(c, "daily", Day)]
  /\ periods' = IF Sampled(c, Day) = {} THEN periods ELSE Append(periods, c)
  /\ UNCHANGED <<clock, committed>>

CommitCollection(c) ==
  /\ collection[c].pc = "commit"
  /\ collection' = [collection EXCEPT ![c].pc = "done"]
  /\ committed' = committed \union {c}
  /\ UNCHANGED <<clock, periods>>

\* Any other failure, or the process dies: the sample and its rollups are gone.
LoseCollection(c) ==
  /\ collection[c].pc \in {"collect", "hourly", "daily", "commit"}
  /\ collection' = [collection EXCEPT ![c] = [NewCollection EXCEPT !.pc = "lost"]]
  /\ UNCHANGED <<clock, periods, committed>>

--------------------------------------------------------------------------------

MeteringNext ==
  \/ TickClock \/ BeginCollection
  \/ \E c \in DOMAIN collection :
       \/ CollectSample(c) \/ RetryCollection(c) \/ BeginAgain(c)
       \/ RollUpHour(c) \/ RollUpDay(c) \/ CommitCollection(c) \/ LoseCollection(c)

MeteringSpec == MeteringInit /\ [][MeteringNext]_meteringVars

(* Properties *)

\* The committed rollups whose day began later than that of c's.
Newer(c) ==
  {d \in committed : \E i, j \in DOMAIN periods : i < j /\ periods[i] = c /\ periods[j] = d}

\* tenant_finops_summary: the rollups it adds up, the newest by period_start.
Summary ==
  {c \in committed : /\ \E i \in DOMAIN periods : periods[i] = c
                     /\ Cardinality(Newer(c)) < SummaryRows}

\* Collections that were at work at the same time as c, and committed.
Overlapping(c) ==
  {d \in committed \ {c} : d \notin collection[c].before /\ c \notin collection[d].before}

\* Usage is billed: a sample of the last day is in what the FinOps summary adds up,
\* unless as many collections as it has rows overlapped the sample's own; and no
\* rollup counts a sample that was rolled back, or one older than its period.
RecentUsageIsBilled ==
  /\ \A c \in committed :
       /\ collection[c].captured >= clock - Day
       /\ Cardinality(Overlapping(c)) < SummaryRows
       => \E d \in Summary : c \in collection[d].rollup["daily"].counted
  /\ \A d \in committed, g \in Grains :
       /\ collection[d].rollup[g].counted \subseteq committed
       /\ \A c \in collection[d].rollup[g].counted :
            collection[d].rollup[g].end - collection[c].captured
              <= IF g = "hourly" THEN Hour ELSE Day

================================================================================
