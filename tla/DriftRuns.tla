-------------------------------- MODULE DriftRuns --------------------------------
(***************************************************************************)
(* Drift runs of a tenant, by the worker's schedule or by POST drift/run:  *)
(* DriftManager.run goes through the detectors, each with a row of its own,*)
(* all in one transaction (drift/manager.py, worker.py, api/routes.py).    *)
(*                                                                         *)
(* Whatever a detector or the artifact store raises becomes the row's      *)
(* ERROR.  A database error breaks the session, and with it the run: the   *)
(* row's update then raises outside the try, and nothing is committed.     *)
(***************************************************************************)
EXTENDS Naturals, Sequences, FiniteSets

CONSTANTS
  Sweeps,     \* runs of the manager, each one task or one request
  Detectors,  \* the detectors, in their order
  Verdicts    \* what a detector can find: "clean", "drift", "skipped"

\* The detectors are the keys of a dictionary.
ASSUME DetectorsAssumption ==
  /\ Detectors \in Seq(STRING)
  /\ \A i, j \in DOMAIN Detectors : Detectors[i] = Detectors[j] => i = j
  /\ Verdicts \subseteq STRING /\ "RUNNING" \notin Verdicts

VARIABLES
  sweep,     \* the runs: how far they are and the rows they flushed
  history,   \* the rows committed
  stamps,    \* the runs in the order of their started_at
  reports    \* the artifacts on disk

driftVars == <<sweep, history, stamps, reports>>

NewSweep == [pc |-> "new", at |-> 1, rows |-> <<>>]

Statuses == Verdicts \union {"RUNNING", "ERROR"}

Row == [detector : STRING, status : Statuses, report : BOOLEAN]

Sweep == [pc : {"new", "row", "detect", "put", "update", "done", "lost"},
          at : 1 .. Len(Detectors) + 1, rows : Seq(Row)]

DriftTypeOK ==
  /\ sweep \in [Sweeps -> Sweep]
  /\ history \subseteq [sweep : Sweeps, detector : STRING, status : Statuses, report : BOOLEAN]
  /\ stamps \in Seq(Sweeps)
  /\ reports \subseteq Sweeps \X STRING

DriftInit ==
  /\ sweep = [s \in Sweeps |-> NewSweep]
  /\ history = {}
  /\ stamps = <<>>
  /\ reports = {}

Detector(s) == Detectors[sweep[s].at]

--------------------------------------------------------------------------------
(* DriftManager.run *)

\* The task is taken, or the request is let through.  Its transaction begins, which
\* is the started_at of all its rows (now() of PostgreSQL).
BeginSweep(s) ==
  /\ sweep[s].pc = "new"
  /\ sweep' = [sweep EXCEPT ![s].pc = "row"]
  /\ stamps' = Append(stamps, s)
  /\ UNCHANGED <<history, reports>>

\* The next detector's row is flushed as RUNNING.
CreateRun(s) ==
  /\ sweep[s].pc = "row"
  /\ sweep[s].at \in DOMAIN Detectors
  /\ sweep' = [sweep EXCEPT ![s].pc = "detect",
       ![s].rows = Append(@, [detector |-> Detector(s), status |-> "RUNNING", report |-> FALSE])]
  /\ UNCHANGED <<history, stamps, reports>>

\* The detector answers.
Detect(s) ==
  /\ sweep[s].pc = "detect"
  /\ \E v \in Verdicts : sweep' = [sweep EXCEPT ![s].pc = "put", ![s].rows[sweep[s].at].status = v]
  /\ UNCHANGED <<history, stamps, reports>>

\* The artifact is written and its row flushed.
PutReport(s) ==
  /\ sweep[s].pc = "put"
  /\ reports' = reports \union {<<s, Detector(s)>>}
  /\ sweep' = [sweep EXCEPT ![s].pc = "update", ![s].rows[sweep[s].at].report = TRUE]
  /\ UNCHANGED <<history, stamps>>

\* Mutant: an exception skips the update of the row.
CatchErrorUnrecorded(s) ==
  /\ sweep[s].pc \in {"detect", "put"}
  /\ sweep' = [sweep EXCEPT ![s].pc = "row", ![s].at = @ + 1]
  /\ UNCHANGED <<history, stamps, reports>>

\* An exception of the detector, retryable or not, or of the artifact store.
CatchError(s) ==
  /\ sweep[s].pc \in {"detect", "put"}
  /\ sweep' = [sweep EXCEPT ![s].pc = "update", ![s].rows[sweep[s].at].status = "ERROR"]
  /\ UNCHANGED <<history, stamps, reports>>

UpdateRun(s) ==
  /\ sweep[s].pc = "update"
  /\ sweep' = [sweep EXCEPT ![s].pc = "row", ![s].at = @ + 1]
  /\ UNCHANGED <<history, stamps, reports>>

\* After the last detector all rows commit.
CommitSweep(s) ==
  /\ sweep[s].pc = "row"
  /\ sweep[s].at > Len(Detectors)
  /\ sweep' = [sweep EXCEPT ![s].pc = "done"]
  /\ history' = history \union
       {[sweep |-> s, detector |-> sweep[s].rows[i].detector, status |-> sweep[s].rows[i].status,
         report |-> sweep[s].rows[i].report] : i \in DOMAIN sweep[s].rows}
  /\ UNCHANGED <<stamps, reports>>

\* The database fails or the process dies.  The task is not sent again: what was
\* raised is no AdapterError.
LoseSweep(s) ==
  /\ sweep[s].pc \notin {"new", "done", "lost"}
  /\ sweep' = [sweep EXCEPT ![s].pc = "lost"]
  /\ UNCHANGED <<history, stamps, reports>>

--------------------------------------------------------------------------------

DriftNext ==
  \E s \in Sweeps :
    \/ BeginSweep(s) \/ CreateRun(s) \/ Detect(s) \/ PutReport(s) \/ CatchError(s)
    \/ UpdateRun(s) \/ CommitSweep(s) \/ LoseSweep(s)

DriftSpec == DriftInit /\ [][DriftNext]_driftVars

(* Properties *)

Position(r) == CHOOSE i \in DOMAIN stamps : stamps[i] = r.sweep

\* get_drift_summary: of each detector the row that started last.
Latest(d) ==
  {r \in history : r.detector = d /\ \A o \in history : o.detector = d => Position(o) <= Position(r)}

\* However runs overlap and fail, what the summary shows is one run that went
\* through every detector: one row of each, none RUNNING, each with its artifact
\* in the store unless it is an ERROR; a failing detector neither hides the others
\* nor is hidden behind an older run.
SummaryIsOfOneRun ==
  LET shown == UNION {Latest(Detectors[i]) : i \in DOMAIN Detectors}
  IN  /\ history # {} =>
           \A i \in DOMAIN Detectors : \E r \in shown : r.detector = Detectors[i]
      /\ Cardinality(shown) <= Len(Detectors)
      /\ \A r, o \in shown : r.sweep = o.sweep
      /\ \A r \in shown :
           /\ r.status # "RUNNING"
           /\ r.status # "ERROR" => r.report /\ <<r.sweep, r.detector>> \in reports

================================================================================
