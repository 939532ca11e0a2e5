--------------------------- MODULE IncidentLifecycle ---------------------------
(***************************************************************************)
(* One incident: its row and its timeline (db/models.py), the API requests *)
(* that move it through INCIDENT_ALLOWED_TRANSITIONS (api/routes.py), and  *)
(* the pull requests that the PR bot opens for it (aiops/pr_bot.py,        *)
(* plugins/git_github.py) and the users of the Git provider settle.        *)
(*                                                                         *)
(* A request reads the incident, works (evidence, an investigator, the Git *)
(* provider), and checks and writes the transition against the status it   *)
(* read, with no lock: the row may have moved on.  The BEGIN that dates    *)
(* the timeline row (created_at is now()) is taken with the SELECT, its    *)
(* latest moment.                                                          *)
(***************************************************************************)
EXTENDS Naturals, Sequences, StatusTimeline

CONSTANTS
  Requests,     \* API requests that can be in flight at once
  MaxTimeline,  \* bounds the number of transitions
  MaxBranches,  \* bounds how often the branch is made
  Idle          \* the op of a request slot that is free

VARIABLES
  incident,  \* the row: its status (Absent before it is created) and proposal
  timeline,  \* incident_transitions, in commit order
  request,   \* what each request is doing
  branch,    \* the branch aiops/<incident_id> exists in the Git repository
  made,      \* how often it was made
  pulls,     \* the pull requests from it: the proposal, and the making of the
             \* branch they followed (ghost)
  open,      \* the last of them is open
  recorded   \* the remediation_prs rows: the pull request and the proposal

gitVars == <<branch, made, pulls, open>>
vars == <<incident, timeline, request, gitVars, recorded>>

Absent == "ABSENT"
Statuses == {"NEW", "EVIDENCE_COLLECTED", "INVESTIGATING", "PR_CREATED",
             "WAITING_APPROVAL", "RESOLVED", "CLOSED"}

\* INCIDENT_ALLOWED_TRANSITIONS
Allowed ==
  [NEW                |-> {"EVIDENCE_COLLECTED", "CLOSED"},
   EVIDENCE_COLLECTED |-> {"INVESTIGATING", "CLOSED"},
   INVESTIGATING      |-> {"PR_CREATED", "WAITING_APPROVAL", "RESOLVED", "CLOSED"},
   PR_CREATED         |-> {"WAITING_APPROVAL", "RESOLVED", "CLOSED"},
   WAITING_APPROVAL   |-> {"RESOLVED", "CLOSED"},
   RESOLVED           |-> {"CLOSED"},
   CLOSED             |-> {}]

\* A proposal, by what the PR bot makes of it: its fix type is on the tenant's
\* allowlist and its risk level is approved automatically; or its risk needs a
\* manual approval; or its fix type is not on the list.
NoProposal == "NONE"
Proposals == {"auto", "manual", "off_list"}

Free == [op |-> Idle, goal |-> "NEW", from |-> "NEW", proposal |-> NoProposal,
         began |-> 0, branch |-> 0, pull |-> 0]

\* branch, pull: which branch and which pull request a request has made, by number.
TypeOK ==
  /\ incident \in [status : Statuses \union {Absent}, proposal : Proposals \union {NoProposal}]
  /\ timeline \in Seq([from : Statuses \union {Absent}, to : Statuses, began : Nat])
  /\ request \in [Requests ->
       [op : {Idle, "transition", "evidence", "investigate", "create_pr"},
        goal : Statuses, from : Statuses, proposal : Proposals \union {NoProposal},
        began : Nat, branch : Nat, pull : Nat]]
  /\ branch \in BOOLEAN /\ open \in BOOLEAN
  /\ made \in Nat
  /\ pulls \in Seq([proposal : Proposals, branch : Nat])
  /\ recorded \in Seq([pull : Nat, proposal : Proposals])

Init ==
  /\ incident = [status |-> Absent, proposal |-> NoProposal]
  /\ timeline = <<>>
  /\ request = [r \in Requests |-> Free]
  /\ branch = FALSE /\ open = FALSE
  /\ made = 0
  /\ pulls = <<>>
  /\ recorded = <<>>

--------------------------------------------------------------------------------

\* POST .../incidents: one transaction.
CreateIncident ==
  /\ incident.status = Absent
  /\ incident' = [incident EXCEPT !.status = "NEW"]
  /\ timeline' = <<[from |-> Absent, to |-> "NEW", began |-> 0]>>
  /\ UNCHANGED <<request, gitVars, recorded>>

\* The SELECT every handler starts with, and the status it will ask for.
ReadIncident(r, op, goal) ==
  /\ incident.status # Absent
  /\ request[r].op = Idle
  /\ request' = [request EXCEPT ![r] =
       [op |-> op, goal |-> goal, from |-> incident.status,
        proposal |-> incident.proposal, began |-> Len(timeline), branch |-> 0, pull |-> 0]]
  /\ UNCHANGED <<incident, timeline, gitVars, recorded>>

StartTransition(r) == \E s \in Statuses : ReadIncident(r, "transition", s)
StartEvidence(r) == ReadIncident(r, "evidence", "EVIDENCE_COLLECTED")
StartInvestigation(r) == ReadIncident(r, "investigate", "INVESTIGATING")

\* create-pr answers 400 at once when there is no proposal.
StartPullRequest(r) ==
  /\ incident.proposal # NoProposal
  /\ ReadIncident(r, "create_pr", "PR_CREATED")

\* A create-pr request that has not called the Git provider yet.
Asks(r) == request[r].op = "create_pr" /\ request[r].branch = 0

\* Mutant: any proposal goes to the Git provider.
CreateBranchUnchecked(r) ==
  /\ Asks(r)
  /\ ~branch
  /\ branch' = TRUE
  /\ made' = made + 1
  /\ request' = [request EXCEPT ![r].branch = made + 1]
  /\ UNCHANGED <<incident, timeline, pulls, open, recorded>>

\* Mutant: a branch that exists is used again.
CreateBranchAgain(r) ==
  /\ Asks(r) /\ request[r].proposal = "auto"
  /\ branch' = TRUE
  /\ made' = IF branch THEN made ELSE made + 1
  /\ request' = [request EXCEPT ![r].branch = made']
  /\ UNCHANGED <<incident, timeline, pulls, open, recorded>>

\* Policy allows, the allowlist and the approval policy do too, and the Git
\* provider creates the branch, which it refuses if the name is taken.
CreateBranch(r) ==
  /\ Asks(r) /\ request[r].proposal = "auto"
  /\ ~branch
  /\ branch' = TRUE
  /\ made' = made + 1
  /\ request' = [request EXCEPT ![r].branch = made + 1]
  /\ UNCHANGED <<incident, timeline, pulls, open, recorded>>

\* The pull request a create-pr request asks for.
Pull(me) == [proposal |-> me.proposal, branch |-> me.branch]

\* Mutant: a pull request that is open already is taken for the request's own.
OpenPullOrTake(r) ==
  /\ request[r].branch # 0 /\ request[r].pull = 0
  /\ branch
  /\ pulls' = IF open THEN pulls
               ELSE Append(pulls, Pull(request[r]))
  /\ open' = TRUE
  /\ request' = [request EXCEPT ![r].pull = Len(pulls')]
  /\ UNCHANGED <<incident, timeline, branch, made, recorded>>

\* The Git provider refuses a pull request when the branch is gone or has one
\* that is open.
OpenPull(r) ==
  /\ request[r].branch # 0 /\ request[r].pull = 0
  /\ branch /\ ~open
  /\ pulls' = Append(pulls, Pull(request[r]))
  /\ open' = TRUE
  /\ request' = [request EXCEPT ![r].pull = Len(pulls) + 1]
  /\ UNCHANGED <<incident, timeline, branch, made, recorded>>

\* External: users of the Git provider merge or close the pull request, and
\* delete the branch, which closes it, at any time.
SettlePull ==
  /\ open
  /\ open' = FALSE
  /\ UNCHANGED <<incident, timeline, request, branch, made, pulls, recorded>>

DeleteBranch ==
  /\ branch /\ made < MaxBranches
  /\ branch' = FALSE
  /\ open' = FALSE
  /\ UNCHANGED <<incident, timeline, request, made, pulls, recorded>>

\* Every exit without a commit: 403, the PR bot's RuntimeError, a refusal of the
\* Git provider, a failing adapter, 409 for a transition that is not allowed, or the
\* death of the process.  What the Git provider did stays.
EndRequest(r) ==
  /\ request[r].op # Idle
  /\ request' = [request EXCEPT ![r] = Free]
  /\ UNCHANGED <<incident, timeline, gitVars, recorded>>

\* The work of the handler is done and only the transition is left to write.
Ready(me) ==
  /\ me.op # Idle
  /\ me.op = "create_pr" => me.pull # 0

\* The remediation_prs row of a create-pr request.
Row(me) == [pull |-> me.pull, proposal |-> me.proposal]

\* Mutants of the commit: no check against the table; the column is written whatever
\* was read.
CommitUnchecked(r) ==
  LET me == request[r]
  IN  /\ Ready(me)
      /\ Len(timeline) < MaxTimeline
      /\ timeline' = Append(timeline, [from |-> me.from, to |-> me.goal, began |-> me.began])
      /\ \E new \in IF me.op = "investigate" THEN Proposals ELSE {me.proposal} :
           incident' = [status |-> ColumnAfter(incident.status, me.from, me.goal),
                        proposal |-> ColumnAfter(incident.proposal, me.proposal, new)]
      /\ recorded' = IF me.op = "create_pr" THEN Append(recorded, Row(me)) ELSE recorded
      /\ request' = [request EXCEPT ![r] = Free]
      /\ UNCHANGED gitVars

CommitAlwaysUpdates(r) ==
  LET me == request[r]
  IN  /\ Ready(me)
      /\ me.goal = me.from \/ me.goal \in Allowed[me.from]
      /\ Len(timeline) < MaxTimeline
      /\ timeline' = Append(timeline, [from |-> me.from, to |-> me.goal, began |-> me.began])
      /\ \E new \in IF me.op = "investigate" THEN Proposals ELSE {me.proposal} :
           incident' = [status |-> me.goal, proposal |-> new]
      /\ recorded' = IF me.op = "create_pr" THEN Append(recorded, Row(me)) ELSE recorded
      /\ request' = [request EXCEPT ![r] = Free]
      /\ UNCHANGED gitVars

\* _record_incident_transition and the commit: the transition must be allowed
\* from the status that was read, or change nothing.  An investigation also
\* sets the proposal, create-pr also inserts the remediation_prs row.  The
\* timeline is in the order of these commits and its rows are dated by their
\* BEGIN, which may be another order (StatusTimeline).
CommitTransition(r) ==
  LET me == request[r]
  IN  /\ Ready(me)
      /\ me.goal = me.from \/ me.goal \in Allowed[me.from]
      /\ Len(timeline) < MaxTimeline
      /\ timeline' = Append(timeline, [from |-> me.from, to |-> me.goal, began |-> me.began])
      /\ \E new \in IF me.op = "investigate" THEN Proposals ELSE {me.proposal} :
           incident' = [status |-> ColumnAfter(incident.status, me.from, me.goal),
                        proposal |-> ColumnAfter(incident.proposal, me.proposal, new)]
      /\ recorded' = IF me.op = "create_pr" THEN Append(recorded, Row(me)) ELSE recorded
      /\ request' = [request EXCEPT ![r] = Free]
      /\ UNCHANGED gitVars

Next ==
  \/ CreateIncident
  \/ SettlePull \/ DeleteBranch
  \/ \E r \in Requests :
       \/ StartTransition(r) \/ StartEvidence(r)
       \/ StartInvestigation(r) \/ StartPullRequest(r)
       \/ CreateBranch(r) \/ OpenPull(r)
       \/ CommitTransition(r) \/ EndRequest(r)

Spec == Init /\ [][Next]_vars

(* Properties *)

\* The status of the incident is the to_status of a recorded change that no
\* other is later than, as the timeline is read, however the requests overlapped.
StatusFollowsTimeline ==
  incident.status # Absent => Explains(timeline, incident.status)

\* Where no two requests overlapped, the timeline is a path through
\* INCIDENT_ALLOWED_TRANSITIONS (with repeats) from NEW to the status.
SerialTimelineIsPath ==
  (\A i \in 2 .. Len(timeline) : timeline[i].began = i - 1) =>
    /\ Unbroken(timeline)
    /\ \A i \in 2 .. Len(timeline) :
         timeline[i].to \in Allowed[timeline[i].from] \union {timeline[i].from}
    /\ timeline # <<>> => timeline[Len(timeline)].to = incident.status

\* No branch has two pull requests, open, merged or closed, also when create-pr
\* runs twice at once, again after a failure, or from PR_CREATED: a second pull
\* request for an incident needs users to delete the branch of the first.
OnePullPerBranch ==
  \A m, n \in 1 .. Len(pulls) : pulls[m].branch = pulls[n].branch => m = n

\* Every remediation_prs row is of a pull request of its own that was opened for
\* the row's proposal, whatever requests failed in between.
RecordsArePulls ==
  /\ \A i \in 1 .. Len(recorded) :
       /\ recorded[i].pull \in 1 .. Len(pulls)
       /\ pulls[recorded[i].pull].proposal = recorded[i].proposal
  /\ \A i, j \in 1 .. Len(recorded) : recorded[i].pull = recorded[j].pull => i = j

\* The PR bot opens no pull request outside the allowlist and the approval
\* policy (docs/13-aiops-pr-autopilot.md), whatever proposal replaced the one
\* it was asked to act on.
PullWasApproved == \A n \in 1 .. Len(pulls) : pulls[n].proposal = "auto"

\* CLOSED is the end of an incident: the table allows nothing after it
\* (api/routes.py) and README.md ends the timeline with it.
ClosedIsFinal == [][incident.status = "CLOSED" => incident'.status = "CLOSED"]_vars

================================================================================
