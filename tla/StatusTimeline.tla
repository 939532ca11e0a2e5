---------------------------- MODULE StatusTimeline ----------------------------
(***************************************************************************)
(* A status column beside the log of its transitions: tenants.status with  *)
(* tenant_status_history, incidents.status with incident_transitions.      *)
(*                                                                         *)
(* The mapper issues an UPDATE only for a column whose value changed since *)
(* it was read, and always inserts the log row.  So a writer that read X   *)
(* and sets X logs a row and leaves the column as another writer made it.  *)
(*                                                                         *)
(* A log is a sequence in the order of the commits.  The table does not    *)
(* keep that order: it is read by a time filled with now(), the start of   *)
(* the transaction.  What it does keep is in `began`: how many rows of the *)
(* log were committed when the row's transaction began.                    *)
(***************************************************************************)
EXTENDS Naturals, Sequences

\* The column after a writer that read `from` sets `to`, when it holds `now`.
ColumnAfter(now, from, to) == IF to = from THEN now ELSE to

\* The first row gives the column its value, another one if it names a change.
Changes(log, i) == i = 1 \/ log[i].from # log[i].to

\* Whoever reads the table finds row k above row i: its transaction began when
\* row i was committed.  Rows of overlapping transactions come in either order.
IsLater(log, k, i) == log[k].began >= i

\* The status is that of a change in the log which no change is later than.
Explains(log, status) ==
  \E i \in 1 .. Len(log) :
    /\ Changes(log, i) /\ log[i].to = status
    /\ \A k \in 1 .. Len(log) : Changes(log, k) => ~IsLater(log, k, i)

\* Every row starts where the row committed before it ended.
Unbroken(log) == \A i \in 1 .. Len(log) - 1 : log[i].to = log[i + 1].from

================================================================================
