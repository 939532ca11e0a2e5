--------------------------------- MODULE Exports ---------------------------------
(***************************************************************************)
(* The export of a tenant's records: the request that queues it            *)
(* (api/routes.py), the worker's task (worker.py, exports/bundler.py), the *)
(* file and its artifact_refs row (artifacts/), and the download.          *)
(*                                                                         *)
(* The task goes to the queue before the export's row commits.  The worker *)
(* reads one table after the other, each as it is committed then, while    *)
(* other requests commit; the file is written outside the transaction.     *)
(* No step raises AdapterError, so the task's retries never come into play.*)
(*                                                                         *)
(* A fact stands for what one transaction records: an audit event and the  *)
(* row it tells of, in another table, or the change it tells of to the     *)
(* tenant's own row.  Rows are never deleted.                              *)
(***************************************************************************)
EXTENDS Sequences, Naturals, FiniteSets

CONSTANTS
  Bundles,   \* exports requested, each by one request
  Facts,
  TableOf,   \* the table of the row a fact's audit event tells of
  Tables     \* the tables, in the order in which the bundler reads them

\* Every table is read once, and the audit trail and the tables of the facts are read.
ASSUME TablesAssumption ==
  /\ Tables \in Seq(STRING)
  /\ \A i, j \in DOMAIN Tables : Tables[i] = Tables[j] => i = j
  /\ \E i \in DOMAIN Tables : Tables[i] = "audit"
  /\ \A f \in Facts : \E i \in DOMAIN Tables : Tables[i] = TableOf[f]

VARIABLES
  facts,   \* the committed facts
  export,  \* the exports: request, row, task, and what became of them
  queue,   \* exports whose task is in the queue
  files    \* the bundles on disk: export -> the rows in it

exportVars == <<facts, export, queue, files>>

NewExport == [request |-> "new", row |-> "none", task |-> "none",
              table |-> 1, got |-> {}, since |-> {}, mishap |-> FALSE]

\* A row of a bundle: the table it is from and the fact it belongs to.
RowsOf(table, known) ==
  {<<table, f>> : f \in IF table = "audit" THEN known ELSE {g \in known : TableOf[g] = table}}

Rows == {Tables[i] : i \in DOMAIN Tables} \X Facts

Export == [request : {"new", "sent", "done", "failed"},
           row : {"none", "QUEUED", "COMPLETED"},
           task : {"none", "reading", "stored", "ended"},
           table : 1 .. Len(Tables) + 1,
           got : SUBSET Rows, since : SUBSET Facts, mishap : BOOLEAN]

ExportsTypeOK ==
  /\ facts \subseteq Facts
  /\ export \in [Bundles -> Export]
  /\ queue \subseteq Bundles
  /\ DOMAIN files \subseteq Bundles /\ files \in [DOMAIN files -> SUBSET Rows]

ExportsInit ==
  /\ facts = {}
  /\ export = [e \in Bundles |-> NewExport]
  /\ queue = {}
  /\ files = [e \in {} |-> {}]

--------------------------------------------------------------------------------
(* create_export *)

\* The row is flushed and the task is sent.
SendExport(e) ==
  /\ export[e].request = "new"
  /\ export' = [export EXCEPT ![e].request = "sent"]
  /\ queue' = queue \union {e}
  /\ UNCHANGED <<facts, files>>

\* Mutant: the task was not sent.
CommitExportUnsent(e) ==
  /\ export[e].request \in {"new", "sent"}
  /\ export' = [export EXCEPT ![e].request = "done", ![e].row = "QUEUED", ![e].since = facts]
  /\ UNCHANGED <<facts, queue, files>>

\* The row, the audit event and the event commit.
CommitExport(e) ==
  /\ export[e].request = "sent"
  /\ export' = [export EXCEPT ![e].request = "done", ![e].row = "QUEUED", ![e].since = facts]
  /\ UNCHANGED <<facts, queue, files>>

\* The request fails after it sent the task, which is not taken back.
LoseExport(e) ==
  /\ export[e].request = "sent"
  /\ export' = [export EXCEPT ![e].request = "failed"]
  /\ UNCHANGED <<facts, queue, files>>

\* Any other request of the tenant: its row and its audit event commit together.
RecordFact(f) ==
  /\ f \notin facts
  /\ facts' = facts \union {f}
  /\ UNCHANGED <<export, queue, files>>

--------------------------------------------------------------------------------
(* export_tenant_bundle *)

\* A worker takes the task, and with it the message.  Without a row to be seen, the
\* task ends: "Export bundle not found".
TakeExport(e) ==
  /\ e \in queue
  /\ queue' = queue \ {e}
  /\ export' = IF export[e].row = "none"
               THEN [export EXCEPT ![e].task = "ended", ![e].mishap = TRUE]
               ELSE [export EXCEPT ![e].task = "reading"]
  /\ UNCHANGED <<facts, files>>

\* Mutant: the audit trail is read last.
ReadTableAuditLast(e) ==
  LET n == export[e].table
      order == SelectSeq(Tables, LAMBDA t : t # "audit") \o <<"audit">>
  IN  /\ export[e].task = "reading"
      /\ n \in DOMAIN Tables
      /\ export' = [export EXCEPT ![e].table = n + 1,
                                  ![e].got = @ \union RowsOf(order[n], facts)]
      /\ UNCHANGED <<facts, queue, files>>

\* The next table is read, as it is committed now: the tenant's row, the audit trail,
\* and the tables whose rows the audit trail tells of.
ReadTable(e) ==
  LET n == export[e].table
  IN  /\ export[e].task = "reading"
      /\ n \in DOMAIN Tables
      /\ export' = [export EXCEPT ![e].table = n + 1,
                                  ![e].got = @ \union RowsOf(Tables[n], facts)]
      /\ UNCHANGED <<facts, queue, files>>

\* Redacted and zipped, the bundle is written; its artifact row is flushed.
StoreBundle(e) ==
  /\ export[e].task = "reading"
  /\ export[e].table = Len(Tables) + 1
  /\ files' = [x \in DOMAIN files \union {e} |-> IF x = e THEN export[e].got ELSE files[x]]
  /\ export' = [export EXCEPT ![e].task = "stored"]
  /\ UNCHANGED <<facts, queue>>

\* The artifact row and COMPLETED, with the reference to it, commit.
CommitBundle(e) ==
  /\ export[e].task = "stored"
  /\ export' = [export EXCEPT ![e].task = "ended", ![e].row = "COMPLETED"]
  /\ UNCHANGED <<facts, queue, files>>

\* A query, the disk or the commit fails, or the worker dies.  Nothing is retried,
\* and the row is not told.
FailExport(e) ==
  /\ export[e].task \in {"reading", "stored"}
  /\ export' = [export EXCEPT ![e].task = "ended", ![e].mishap = TRUE]
  /\ UNCHANGED <<facts, queue, files>>

--------------------------------------------------------------------------------

ExportsNext ==
  \/ \E e \in Bundles :
       \/ SendExport(e) \/ CommitExport(e) \/ LoseExport(e) \/ TakeExport(e)
       \/ ReadTable(e) \/ StoreBundle(e) \/ CommitBundle(e) \/ FailExport(e)
  \/ \E f \in Facts : RecordFact(f)

ExportsSpec == ExportsInit /\ [][ExportsNext]_exportVars

(* Properties *)

\* What download_export answers: the bundle, or 404 while the row has no reference.
Download(e) == IF export[e].row = "COMPLETED" /\ e \in DOMAIN files THEN files[e] ELSE {}

\* A completed export can be downloaded and holds together, although its tables
\* were read at different moments: it has all that was committed before the export
\* was asked for, and of a fact that one table tells of, what every table read after
\* it has.  So for every audit event there is the row it tells of, but for changes
\* to the tenant's own row, which is read before the audit trail: for a change that
\* the row shows there is the audit event, and an event may be there without it.
BundleHoldsTogether ==
  \A e \in Bundles : export[e].row = "COMPLETED" =>
    /\ e \in DOMAIN files
    /\ \A f \in export[e].since : {<<"audit", f>>, <<TableOf[f], f>>} \subseteq Download(e)
    /\ \A f \in Facts, i, j \in DOMAIN Tables :
         /\ i < j /\ Tables[j] \in {"audit", TableOf[f]}
         /\ <<Tables[i], f>> \in Download(e)
         => <<Tables[j], f>> \in Download(e)

\* An export that stays QUEUED for ever is one whose task met with a mishap: it
\* failed, or was taken before the row was committed.  All others have their task
\* in the queue or at work.
QueuedIsUnderWay ==
  \A e \in Bundles : export[e].row = "QUEUED" =>
    e \in queue \/ export[e].task \in {"reading", "stored"} \/ export[e].mishap

================================================================================
