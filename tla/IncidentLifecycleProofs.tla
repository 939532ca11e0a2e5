------------------------ MODULE IncidentLifecycleProofs ------------------------
(***************************************************************************)
(* Safety of IncidentLifecycle for any number of requests at once and a    *)
(* timeline of any length.                                                 *)
(***************************************************************************)
EXTENDS IncidentLifecycle, StatusTimelineProofs

Ops == {Idle, "transition", "evidence", "investigate", "create_pr"}

Calls == [op : Ops, goal : Statuses, from : Statuses,
          proposal : Proposals \union {NoProposal}, began : Nat,
          branch : Nat, pull : Nat]

Rows == [from : Statuses \union {Absent}, to : Statuses, began : Nat]

Pulls == [proposal : Proposals, branch : Nat]

Records == [pull : Nat, proposal : Proposals]

\* There is a timeline from the first row of the incident on.
TimelineStarts ==
  /\ incident.status = Absent <=> timeline = <<>>
  /\ \A r \in Requests : request[r].op # Idle => incident.status # Absent

\* A request that began after the whole timeline read the status the row still has.
ReadIsCurrent ==
  \A r \in Requests : request[r].op # Idle =>
    /\ request[r].began =< Len(timeline)
    /\ request[r].began = Len(timeline) => request[r].from = incident.status

\* The last change to commit gave the incident its status.
StatusGiven ==
  /\ incident.status # Absent => LastGave(timeline, incident.status)
  /\ BeganBefore(timeline)

\* A branch that was made belongs to who made it: no other request of the moment
\* and no other pull request has its number.
BranchIsOwned ==
  /\ \A r \in Requests : request[r].branch # 0 =>
       /\ request[r].op = "create_pr"
       /\ request[r].proposal = "auto"
       /\ request[r].branch =< made
       /\ \A n \in 1 .. Len(pulls) :
            pulls[n].branch = request[r].branch => n = request[r].pull
  /\ \A r, q \in Requests :
       request[r].branch # 0 /\ request[r].branch = request[q].branch => r = q
  /\ \A n \in 1 .. Len(pulls) : pulls[n].branch =< made

\* A pull request that was opened and is not on record yet is its opener's.
PullIsOwned ==
  /\ \A r \in Requests : request[r].pull # 0 =>
       /\ request[r].branch # 0
       /\ request[r].pull \in 1 .. Len(pulls)
       /\ pulls[request[r].pull].proposal = request[r].proposal
       /\ \A i \in 1 .. Len(recorded) : recorded[i].pull # request[r].pull
  /\ \A r, q \in Requests :
       request[r].pull # 0 /\ request[r].pull = request[q].pull => r = q

IInv ==
  /\ TypeOK
  /\ TimelineStarts
  /\ ReadIsCurrent
  /\ StatusGiven
  /\ SerialTimelineIsPath
  /\ BranchIsOwned
  /\ PullIsOwned
  /\ OnePullPerBranch
  /\ RecordsArePulls
  /\ PullWasApproved

LEMMA InitIInv == Init => IInv
<1> SUFFICES ASSUME Init PROVE IInv
  OBVIOUS
<1>1. Free \in Calls /\ Free.op = Idle /\ Free.branch = 0 /\ Free.pull = 0
  BY DEF Free, Calls, Ops, Statuses
<1>2. /\ request \in [Requests -> Calls]
      /\ \A r \in Requests : /\ request[r].op = Idle
                            /\ request[r].branch = 0 /\ request[r].pull = 0
  BY <1>1 DEF Init
<1>3. timeline = <<>> /\ recorded = <<>> /\ pulls = <<>> /\ incident.status = Absent
  BY DEF Init
<1>4. TypeOK
  BY <1>2, EmptySeq DEF Init, TypeOK, Calls, Ops
<1>6. Len(timeline) = 0 /\ Len(recorded) = 0 /\ Len(pulls) = 0
  BY <1>3
<1>5. TimelineStarts /\ ReadIsCurrent /\ BranchIsOwned /\ PullIsOwned
  BY <1>2, <1>3, <1>6 DEF TimelineStarts, ReadIsCurrent, BranchIsOwned, PullIsOwned
<1>7. StatusGiven /\ SerialTimelineIsPath
  BY <1>3, <1>6 DEF StatusGiven, BeganBefore, SerialTimelineIsPath, Unbroken
<1>8. OnePullPerBranch /\ RecordsArePulls /\ PullWasApproved
  BY <1>6 DEF OnePullPerBranch, RecordsArePulls, PullWasApproved
<1> QED
  BY <1>4, <1>5, <1>7, <1>8 DEF IInv

\* One request moves on and the others do not.
LEMMA CallEffect ==
  ASSUME TypeOK, NEW r \in Requests, NEW me \in Calls,
         request' = [request EXCEPT ![r] = me]
  PROVE  /\ request' \in [Requests -> Calls]
         /\ request'[r] = me
         /\ \A q \in Requests \ {r} : request'[q] = request[q]
BY DEF TypeOK, Calls, Ops

\* A request moves on without a commit.
LEMMA QuietStep ==
  ASSUME IInv, NEW r \in Requests, NEW me \in Calls,
         request' = [request EXCEPT ![r] = me],
         UNCHANGED <<incident, timeline>>,
         me.op # Idle =>
           \/ me.op = request[r].op /\ me.began = request[r].began /\ me.from = request[r].from
           \/ /\ incident.status # Absent
              /\ me.began = Len(timeline) /\ me.from = incident.status
  PROVE  /\ request' \in [Requests -> Calls]
         /\ request'[r] = me
         /\ \A q \in Requests \ {r} : request'[q] = request[q]
         /\ TimelineStarts' /\ ReadIsCurrent'
         /\ StatusGiven' /\ SerialTimelineIsPath'
<1>0. /\ TypeOK /\ TimelineStarts /\ ReadIsCurrent
      /\ StatusGiven /\ SerialTimelineIsPath
  BY DEF IInv
<1>1. /\ request' \in [Requests -> Calls]
      /\ request'[r] = me
      /\ \A q \in Requests \ {r} : request'[q] = request[q]
  BY <1>0, CallEffect
<1>2. TimelineStarts'
  BY <1>0, <1>1 DEF TimelineStarts
<1>3. ReadIsCurrent'
  <2>1. Len(timeline) \in Nat
    BY <1>0, LenProperties DEF TypeOK
  <2> QED
    BY <1>0, <1>1, <2>1 DEF ReadIsCurrent
<1>4. StatusGiven' /\ SerialTimelineIsPath'
  BY <1>0 DEF StatusGiven, SerialTimelineIsPath
<1> QED
  BY <1>1, <1>2, <1>3, <1>4

LEMMA CreateStep ==
  ASSUME IInv, CreateIncident
  PROVE  IInv'
<1> DEFINE first == [from |-> Absent, to |-> "NEW", began |-> 0]
<1>0. /\ TypeOK /\ TimelineStarts /\ BranchIsOwned /\ PullIsOwned
      /\ OnePullPerBranch /\ RecordsArePulls /\ PullWasApproved
      /\ incident \in [status : Statuses \union {Absent},
                       proposal : Proposals \union {NoProposal}]
  BY DEF IInv, TypeOK
<1>1. /\ incident' = [incident EXCEPT !.status = "NEW"]
      /\ timeline' = <<first>> /\ UNCHANGED <<request, branch, made, pulls, open, recorded>>
      /\ incident.status = Absent
  BY DEF CreateIncident, gitVars
<1>2. first \in Rows /\ first.to = "NEW" /\ first.began = 0
  BY DEF Rows, Statuses
<1>3. incident'.status = "NEW"
  BY <1>0, <1>1
<1>4. incident' \in [status : Statuses \union {Absent},
                     proposal : Proposals \union {NoProposal}]
  BY <1>0, <1>1 DEF Statuses
<1> HIDE DEF first
<1>5. /\ timeline' \in Seq(Rows) /\ Len(timeline') = 1 /\ timeline' # <<>>
      /\ timeline'[1] = first
  BY <1>1, <1>2
<1>6. TypeOK'
  BY <1>0, <1>1, <1>4, <1>5 DEF TypeOK, Rows
<1>7. \A r \in Requests : request'[r].op = Idle
  BY <1>0, <1>1 DEF TimelineStarts
<1>8. TimelineStarts' /\ ReadIsCurrent'
  BY <1>3, <1>5, <1>7 DEF TimelineStarts, ReadIsCurrent, Absent
<1>9. StatusGiven'
  <2>1. LastGave(timeline', incident'.status)
    BY <1>1, <1>2, <1>3, FirstGave
  <2>2. BeganBefore(timeline')
    BY <1>2, <1>5 DEF BeganBefore
  <2> QED
    BY <2>1, <2>2 DEF StatusGiven
<1>10. SerialTimelineIsPath'
  BY <1>2, <1>3, <1>5 DEF SerialTimelineIsPath, Unbroken
<1>11. BranchIsOwned' /\ PullIsOwned'
  BY <1>0, <1>1 DEF BranchIsOwned, PullIsOwned
<1>12. OnePullPerBranch' /\ RecordsArePulls' /\ PullWasApproved'
  BY <1>0, <1>1 DEF OnePullPerBranch, RecordsArePulls, PullWasApproved
<1> QED
  BY <1>6, <1>8, <1>9, <1>10, <1>11, <1>12 DEF IInv

\* A request lets go of what it made, or has made nothing yet.
LEMMA EmptyHanded ==
  ASSUME IInv, NEW r \in Requests, NEW me \in Calls, me.branch = 0, me.pull = 0,
         request' \in [Requests -> Calls], request'[r] = me,
         \A q \in Requests \ {r} : request'[q] = request[q],
         UNCHANGED <<branch, made, pulls, open, recorded>>
  PROVE  /\ BranchIsOwned' /\ PullIsOwned'
         /\ OnePullPerBranch' /\ RecordsArePulls' /\ PullWasApproved'
<1>1. BranchIsOwned'
  BY DEF IInv, BranchIsOwned
<1>2. PullIsOwned'
  BY DEF IInv, PullIsOwned
<1>3. OnePullPerBranch' /\ RecordsArePulls' /\ PullWasApproved'
  BY DEF IInv, OnePullPerBranch, RecordsArePulls, PullWasApproved
<1> QED
  BY <1>1, <1>2, <1>3

LEMMA ReadStep ==
  ASSUME IInv, NEW r \in Requests, NEW op \in Ops, NEW goal \in Statuses,
         ReadIncident(r, op, goal)
  PROVE  IInv'
<1> DEFINE me == [op |-> op, goal |-> goal, from |-> incident.status,
                  proposal |-> incident.proposal, began |-> Len(timeline),
                  branch |-> 0, pull |-> 0]
<1>0. /\ TypeOK
      /\ incident \in [status : Statuses \union {Absent},
                       proposal : Proposals \union {NoProposal}]
      /\ Len(timeline) \in Nat
  BY LenProperties DEF IInv, TypeOK
<1>1. /\ request' = [request EXCEPT ![r] = me] /\ incident.status # Absent
      /\ UNCHANGED <<incident, timeline, branch, made, pulls, open, recorded>>
  BY DEF ReadIncident, gitVars
<1>2. incident.status \in Statuses /\ incident.proposal \in Proposals \union {NoProposal}
  BY <1>0, <1>1
<1>3. /\ me \in Calls /\ me.branch = 0 /\ me.pull = 0
      /\ me.began = Len(timeline) /\ me.from = incident.status
  BY <1>0, <1>2 DEF Calls
<1> HIDE DEF me
<1>4. /\ request' \in [Requests -> Calls]
      /\ request'[r] = me
      /\ \A q \in Requests \ {r} : request'[q] = request[q]
      /\ TimelineStarts' /\ ReadIsCurrent'
      /\ StatusGiven' /\ SerialTimelineIsPath'
  BY <1>1, <1>3, QuietStep
<1>5. TypeOK'
  BY <1>0, <1>1, <1>4 DEF TypeOK, Calls, Ops
<1>6. /\ BranchIsOwned' /\ PullIsOwned'
      /\ OnePullPerBranch' /\ RecordsArePulls' /\ PullWasApproved'
  BY <1>1, <1>3, <1>4, EmptyHanded
<1> QED
  BY <1>4, <1>5, <1>6 DEF IInv

LEMMA EndStep ==
  ASSUME IInv, NEW r \in Requests, EndRequest(r)
  PROVE  IInv'
<1>1. Free \in Calls /\ Free.op = Idle /\ Free.branch = 0 /\ Free.pull = 0
  BY DEF Free, Calls, Ops, Statuses
<1>2. /\ request' = [request EXCEPT ![r] = Free]
      /\ UNCHANGED <<incident, timeline, branch, made, pulls, open, recorded>>
  BY DEF EndRequest, gitVars
<1>3. /\ request' \in [Requests -> Calls]
      /\ request'[r] = Free
      /\ \A q \in Requests \ {r} : request'[q] = request[q]
      /\ TimelineStarts' /\ ReadIsCurrent'
      /\ StatusGiven' /\ SerialTimelineIsPath'
  BY <1>1, <1>2, QuietStep
<1>4. TypeOK'
  BY <1>2, <1>3 DEF IInv, TypeOK, Calls, Ops
<1>5. /\ BranchIsOwned' /\ PullIsOwned'
      /\ OnePullPerBranch' /\ RecordsArePulls' /\ PullWasApproved'
  BY <1>1, <1>2, <1>3, EmptyHanded
<1> QED
  BY <1>3, <1>4, <1>5 DEF IInv

\* The branch a request makes has a number nobody has.
LEMMA CreateBranchStep ==
  ASSUME IInv, NEW r \in Requests, CreateBranch(r)
  PROVE  IInv'
<1> DEFINE me == [request[r] EXCEPT !.branch = made + 1]
<1>0. /\ TypeOK /\ BranchIsOwned /\ PullIsOwned
      /\ OnePullPerBranch /\ RecordsArePulls /\ PullWasApproved
      /\ request[r] \in Calls /\ request \in [Requests -> Calls]
      /\ made \in Nat /\ pulls \in Seq(Pulls)
  BY DEF IInv, TypeOK, Calls, Ops, Pulls
<1>1. /\ request[r].op = "create_pr" /\ request[r].branch = 0
      /\ request[r].proposal = "auto"
      /\ branch' = TRUE /\ made' = made + 1
      /\ request' = [request EXCEPT ![r] = me]
      /\ UNCHANGED <<incident, timeline, pulls, open, recorded>>
  BY <1>0 DEF CreateBranch, Asks, Calls
<1>2. /\ me \in Calls /\ me.op = request[r].op /\ me.proposal = request[r].proposal
      /\ me.began = request[r].began /\ me.from = request[r].from
      /\ me.branch = made + 1 /\ me.pull = request[r].pull
  BY <1>0 DEF Calls
<1> HIDE DEF me
<1>3. /\ request' \in [Requests -> Calls]
      /\ request'[r] = me
      /\ \A q \in Requests \ {r} : request'[q] = request[q]
      /\ TimelineStarts' /\ ReadIsCurrent'
      /\ StatusGiven' /\ SerialTimelineIsPath'
  BY <1>1, <1>2, QuietStep
<1>4. me.pull = 0
  BY <1>0, <1>1, <1>2 DEF PullIsOwned
<1>5. TypeOK'
  BY <1>0, <1>1, <1>3 DEF TypeOK, Calls, Ops
<1>6. /\ \A q \in Requests : request[q].branch \in Nat /\ request[q].branch =< made
      /\ \A n \in 1 .. Len(pulls) : pulls[n].branch \in Nat /\ pulls[n].branch =< made
  <2>1. ASSUME NEW q \in Requests
        PROVE  request[q].branch \in Nat /\ request[q].branch =< made
    <3>1. request[q].branch \in Nat
      BY <1>0 DEF Calls
    <3>2. request[q].branch = 0 \/ request[q].branch =< made
      BY <1>0 DEF BranchIsOwned
    <3> QED
      BY <1>0, <3>1, <3>2
  <2>2. ASSUME NEW n \in 1 .. Len(pulls)
        PROVE  pulls[n].branch \in Nat /\ pulls[n].branch =< made
    <3>1. pulls[n] \in Pulls
      BY <1>0, ElementOfSeq
    <3> QED
      BY <1>0, <3>1 DEF BranchIsOwned, Pulls
  <2> QED
    BY <2>1, <2>2
<1>7. BranchIsOwned'
  <2>1. ASSUME NEW q \in Requests, request'[q].branch # 0
        PROVE  /\ request'[q].op = "create_pr" /\ request'[q].proposal = "auto"
               /\ request'[q].branch =< made'
               /\ \A n \in 1 .. Len(pulls') :
                    pulls'[n].branch = request'[q].branch => n = request'[q].pull
    <3>1. CASE q = r
      BY <1>0, <1>1, <1>2, <1>3, <1>6, <3>1
    <3>2. CASE q # r
      BY <1>0, <1>1, <1>3, <1>6, <2>1, <3>2 DEF BranchIsOwned
    <3> QED
      BY <3>1, <3>2
  <2>2. \A q, p \in Requests :
          request'[q].branch # 0 /\ request'[q].branch = request'[p].branch => q = p
    BY <1>0, <1>2, <1>3, <1>6 DEF BranchIsOwned
  <2>3. \A n \in 1 .. Len(pulls') : pulls'[n].branch =< made'
    BY <1>0, <1>1, <1>6
  <2> QED
    BY <2>1, <2>2, <2>3 DEF BranchIsOwned
<1>8. PullIsOwned'
  BY <1>0, <1>1, <1>3, <1>4 DEF PullIsOwned
<1>9. OnePullPerBranch' /\ RecordsArePulls' /\ PullWasApproved'
  BY <1>0, <1>1 DEF OnePullPerBranch, RecordsArePulls, PullWasApproved
<1> QED
  BY <1>3, <1>5, <1>7, <1>8, <1>9 DEF IInv

\* The pull request a request opens is the first from the branch it made.
LEMMA OpenPullStep ==
  ASSUME IInv, NEW r \in Requests, OpenPull(r)
  PROVE  IInv'
<1> DEFINE me == [request[r] EXCEPT !.pull = Len(pulls) + 1]
           new == Pull(request[r])
           n == Len(pulls)
<1>0. /\ TypeOK /\ BranchIsOwned /\ PullIsOwned
      /\ OnePullPerBranch /\ RecordsArePulls /\ PullWasApproved
      /\ request[r] \in Calls /\ request \in [Requests -> Calls]
      /\ made \in Nat /\ pulls \in Seq(Pulls) /\ recorded \in Seq(Records) /\ n \in Nat
  BY LenProperties DEF IInv, TypeOK, Calls, Ops, Pulls, Records
<1>1. /\ request[r].branch # 0 /\ request[r].pull = 0
      /\ open' = TRUE /\ pulls' = Append(pulls, new)
      /\ request' = [request EXCEPT ![r] = me]
      /\ UNCHANGED <<incident, timeline, branch, made, recorded>>
  BY <1>0 DEF OpenPull, Calls
<1>2. /\ me \in Calls /\ me.op = request[r].op /\ me.proposal = request[r].proposal
      /\ me.began = request[r].began /\ me.from = request[r].from
      /\ me.branch = request[r].branch /\ me.pull = n + 1
  <2>1. PICK k \in Nat : k = Len(pulls) + 1
    BY <1>0
  <2>2. me = [request[r] EXCEPT !.pull = k]
    BY <2>1
  <2> HIDE DEF me
  <2> QED
    BY <1>0, <2>1, <2>2 DEF Calls
<1>3. /\ request[r].op = "create_pr" /\ request[r].proposal = "auto"
      /\ request[r].branch =< made /\ request[r].branch \in Nat
      /\ \A m \in 1 .. n : pulls[m].branch # request[r].branch
  <2>1. /\ request[r].op = "create_pr" /\ request[r].proposal = "auto"
        /\ request[r].branch =< made
        /\ \A m \in 1 .. n : pulls[m].branch = request[r].branch => m = 0
    BY <1>0, <1>1 DEF BranchIsOwned
  <2>2. request[r].branch \in Nat
    BY <1>0 DEF Calls
  <2>3. \A m \in 1 .. n : m # 0
    BY <1>0
  <2> QED
    BY <2>1, <2>2, <2>3
<1>4. /\ new \in Pulls /\ new.proposal = "auto" /\ new.branch = request[r].branch
  BY <1>0, <1>3 DEF Pull, Pulls, Proposals
<1> HIDE DEF me, new
<1>5. /\ pulls' \in Seq(Pulls) /\ Len(pulls') = n + 1
      /\ pulls'[n + 1] = new
      /\ \A m \in 1 .. n : pulls'[m] = pulls[m]
  BY <1>0, <1>1, <1>4, AppendRow
<1>6. /\ request' \in [Requests -> Calls]
      /\ request'[r] = me
      /\ \A q \in Requests \ {r} : request'[q] = request[q]
      /\ TimelineStarts' /\ ReadIsCurrent'
      /\ StatusGiven' /\ SerialTimelineIsPath'
  BY <1>1, <1>2, QuietStep
<1>7. TypeOK'
  BY <1>0, <1>1, <1>5, <1>6 DEF TypeOK, Calls, Ops, Pulls
<1>8. \A m \in 1 .. n + 1 : m \in 1 .. n \/ m = n + 1
  BY <1>0
<1>9. BranchIsOwned'
  <2>1. ASSUME NEW q \in Requests, request'[q].branch # 0
        PROVE  /\ request'[q].op = "create_pr" /\ request'[q].proposal = "auto"
               /\ request'[q].branch =< made'
               /\ \A m \in 1 .. Len(pulls') :
                    pulls'[m].branch = request'[q].branch => m = request'[q].pull
    <3>1. CASE q = r
      BY <1>1, <1>2, <1>3, <1>5, <1>6, <1>8, <3>1
    <3>2. CASE q # r
      <4>1. request'[q] = request[q] /\ request[q].branch # request[r].branch
        BY <1>0, <1>1, <1>6, <2>1, <3>2 DEF BranchIsOwned
      <4> QED
        BY <1>0, <1>1, <1>4, <1>5, <1>8, <2>1, <4>1 DEF BranchIsOwned
    <3> QED
      BY <3>1, <3>2
  <2>2. \A q, p \in Requests :
          request'[q].branch # 0 /\ request'[q].branch = request'[p].branch => q = p
    BY <1>0, <1>2, <1>6 DEF BranchIsOwned
  <2>3. \A m \in 1 .. Len(pulls') : pulls'[m].branch =< made'
    BY <1>0, <1>1, <1>3, <1>4, <1>5, <1>8 DEF BranchIsOwned
  <2> QED
    BY <2>1, <2>2, <2>3 DEF BranchIsOwned
<1>10. \A q \in Requests : request[q].pull # n + 1
  BY <1>0 DEF PullIsOwned
<1>11. \A i \in 1 .. Len(recorded) : recorded[i].pull # n + 1
  BY <1>0 DEF RecordsArePulls
<1>12. PullIsOwned'
  <2>1. ASSUME NEW q \in Requests, request'[q].pull # 0
        PROVE  /\ request'[q].branch # 0
               /\ request'[q].pull \in 1 .. Len(pulls')
               /\ pulls'[request'[q].pull].proposal = request'[q].proposal
               /\ \A i \in 1 .. Len(recorded') : recorded'[i].pull # request'[q].pull
    <3>1. CASE q = r
      BY <1>0, <1>1, <1>2, <1>3, <1>4, <1>5, <1>6, <1>11, <3>1
    <3>2. CASE q # r
      <4>1. /\ request'[q] = request[q]
            /\ request[q].pull \in 1 .. n /\ request[q].pull \in 1 .. n + 1
        BY <1>0, <1>6, <2>1, <3>2 DEF PullIsOwned
      <4> QED
        BY <1>0, <1>1, <1>5, <2>1, <4>1 DEF PullIsOwned
    <3> QED
      BY <3>1, <3>2
  <2>2. \A q, p \in Requests :
          request'[q].pull # 0 /\ request'[q].pull = request'[p].pull => q = p
    BY <1>0, <1>2, <1>6, <1>10 DEF PullIsOwned
  <2> QED
    BY <2>1, <2>2 DEF PullIsOwned
<1>13. OnePullPerBranch'
  <2>1. \A m \in 1 .. n : pulls'[m].branch # pulls'[n + 1].branch
    BY <1>3, <1>4, <1>5
  <2>2. \A l, m \in 1 .. n : pulls'[l].branch = pulls'[m].branch => l = m
    BY <1>0, <1>5 DEF OnePullPerBranch
  <2>3. \A l, m \in 1 .. n + 1 : pulls'[l].branch = pulls'[m].branch => l = m
    BY <1>8, <2>1, <2>2
  <2> QED
    BY <1>5, <2>3 DEF OnePullPerBranch
<1>14. RecordsArePulls'
  <2>1. ASSUME NEW i \in 1 .. Len(recorded)
        PROVE  /\ recorded[i].pull \in 1 .. n + 1
               /\ pulls'[recorded[i].pull].proposal = recorded[i].proposal
    <3>1. /\ recorded[i].pull \in 1 .. n
          /\ pulls[recorded[i].pull].proposal = recorded[i].proposal
      BY <1>0 DEF RecordsArePulls
    <3> QED
      BY <1>0, <1>5, <3>1
  <2> QED
    BY <1>0, <1>1, <1>5, <2>1 DEF RecordsArePulls
<1>15. PullWasApproved'
  BY <1>0, <1>4, <1>5, <1>8 DEF PullWasApproved
<1> QED
  BY <1>6, <1>7, <1>9, <1>12, <1>13, <1>14, <1>15 DEF IInv

\* What the users do at the Git provider leaves the platform's state alone.
LEMMA UsersStep ==
  ASSUME IInv, SettlePull \/ DeleteBranch
  PROVE  IInv'
<1>1. /\ branch' \in BOOLEAN /\ open' \in BOOLEAN
      /\ UNCHANGED <<incident, timeline, request, made, pulls, recorded>>
  BY DEF SettlePull, DeleteBranch, IInv, TypeOK
<1>2. TypeOK'
  BY <1>1 DEF IInv, TypeOK
<1>3. TimelineStarts' /\ ReadIsCurrent' /\ StatusGiven' /\ SerialTimelineIsPath'
  BY <1>1 DEF IInv, TimelineStarts, ReadIsCurrent, StatusGiven, SerialTimelineIsPath
<1>4. BranchIsOwned' /\ PullIsOwned'
  BY <1>1 DEF IInv, BranchIsOwned, PullIsOwned
<1>5. OnePullPerBranch' /\ RecordsArePulls' /\ PullWasApproved'
  BY <1>1 DEF IInv, OnePullPerBranch, RecordsArePulls, PullWasApproved
<1> QED
  BY <1>2, <1>3, <1>4, <1>5 DEF IInv

\* The commit.  The row may have moved since the request read it: the timeline
\* still explains it, and where nothing moved the path goes on.
LEMMA CommitStep ==
  ASSUME IInv, NEW r \in Requests, CommitTransition(r)
  PROVE  IInv'
<1> DEFINE me == request[r]
           row == [from |-> me.from, to |-> me.goal, began |-> me.began]
           status == ColumnAfter(incident.status, me.from, me.goal)
           n == Len(timeline)
<1>0. /\ TypeOK /\ TimelineStarts /\ ReadIsCurrent /\ StatusGiven
      /\ SerialTimelineIsPath /\ BranchIsOwned /\ PullIsOwned
      /\ OnePullPerBranch /\ RecordsArePulls /\ PullWasApproved
      /\ recorded \in Seq(Records) /\ pulls \in Seq(Pulls)
      /\ me \in Calls /\ request \in [Requests -> Calls] /\ timeline \in Seq(Rows)
      /\ incident \in [status : Statuses \union {Absent},
                       proposal : Proposals \union {NoProposal}]
  BY DEF IInv, TypeOK, Calls, Ops, Rows, Records, Pulls
<1>1. /\ me.op # Idle
      /\ me.op = "create_pr" => me.pull # 0
      /\ me.goal = me.from \/ me.goal \in Allowed[me.from]
      /\ timeline' = Append(timeline, row)
      /\ recorded' = IF me.op = "create_pr" THEN Append(recorded, Row(me)) ELSE recorded
      /\ request' = [request EXCEPT ![r] = Free]
      /\ UNCHANGED <<branch, made, pulls, open>>
  BY DEF CommitTransition, Ready, gitVars
<1>2. PICK new \in Proposals \union {NoProposal} :
        incident' = [status |-> status,
                     proposal |-> ColumnAfter(incident.proposal, me.proposal, new)]
  BY <1>0 DEF CommitTransition, Calls
<1>3. row \in Rows /\ row.from = me.from /\ row.to = me.goal /\ row.began = me.began
  BY <1>0 DEF Rows, Calls
<1> HIDE DEF row
<1>4. /\ timeline' \in Seq(Rows) /\ Len(timeline') = n + 1 /\ n \in Nat
      /\ timeline' # <<>>
      /\ timeline'[n + 1] = row
      /\ \A i \in 1 .. n : timeline'[i] = timeline[i]
  BY <1>0, <1>1, <1>3, AppendRow
<1>5. /\ Free \in Calls /\ Free.op = Idle /\ Free.branch = 0 /\ Free.pull = 0
  BY DEF Free, Calls, Ops, Statuses
<1>6. /\ request' \in [Requests -> Calls] /\ request'[r] = Free
      /\ \A q \in Requests \ {r} : request'[q] = request[q]
  BY <1>0, <1>1, <1>5, CallEffect
<1>7. incident.status # Absent /\ timeline # <<>>
  BY <1>0, <1>1 DEF TimelineStarts
<1>8. /\ incident'.status = status /\ status \in Statuses
      /\ incident' \in [status : Statuses \union {Absent},
                        proposal : Proposals \union {NoProposal}]
  BY <1>0, <1>2, <1>7 DEF ColumnAfter, Calls
<1>9. /\ me.op = "create_pr" => /\ Row(me) \in Records /\ me.proposal = "auto"
                               /\ Row(me).pull = me.pull
                               /\ Row(me).proposal = me.proposal
      /\ recorded' \in Seq(Records)
  <2>1. me.op = "create_pr" => me.proposal = "auto"
    BY <1>0, <1>1 DEF BranchIsOwned, PullIsOwned
  <2>2. me.op = "create_pr" => /\ Row(me) \in Records
                               /\ Row(me).pull = me.pull
                               /\ Row(me).proposal = me.proposal
    BY <1>0, <2>1 DEF Row, Records, Calls, Proposals
  <2> QED
    BY <1>0, <1>1, <2>1, <2>2, AppendProperties
<1>10. TypeOK'
  BY <1>0, <1>1, <1>4, <1>6, <1>8, <1>9 DEF TypeOK, Calls, Ops, Rows, Records
<1>11. TimelineStarts'
  BY <1>0, <1>4, <1>6, <1>5, <1>7, <1>8 DEF TimelineStarts, Statuses, Absent
<1>12. ReadIsCurrent'
  <2>1. \A q \in Requests : request[q].op # Idle => request[q].began < n + 1
    BY <1>0, <1>4 DEF ReadIsCurrent, Calls
  <2>2. ASSUME NEW q \in Requests, request'[q].op # Idle
        PROVE  request'[q].began =< n + 1 /\ request'[q].began # n + 1
    <3>1. request'[q] = request[q]
      BY <1>5, <1>6, <2>2
    <3>2. request[q].began \in Nat /\ request[q].began < n + 1
      BY <1>0, <2>1, <2>2, <3>1 DEF Calls
    <3> QED
      BY <1>4, <3>1, <3>2
  <2> QED
    BY <1>4, <2>2 DEF ReadIsCurrent
<1>13. StatusGiven'
  <2>1. LastGave(timeline, incident.status) /\ BeganBefore(timeline)
    BY <1>0, <1>7 DEF StatusGiven
  <2>2. LastGave(timeline', status)
    BY <1>0, <1>1, <1>3, <2>1, LastGaveAppend
  <2>3. row.began \in Nat /\ row.began =< n
    BY <1>0, <1>1, <1>3 DEF ReadIsCurrent, Calls
  <2>4. BeganBefore(timeline')
    BY <1>0, <1>1, <1>3, <2>1, <2>3, BeganAppend
  <2> QED
    BY <1>8, <2>2, <2>4 DEF StatusGiven
<1>14. SerialTimelineIsPath'
  <2> SUFFICES ASSUME \A i \in 2 .. n + 1 : timeline'[i].began = i - 1
               PROVE  /\ Unbroken(timeline')
                      /\ \A i \in 2 .. n + 1 :
                           timeline'[i].to \in Allowed[timeline'[i].from]
                                                 \union {timeline'[i].from}
                      /\ timeline'[n + 1].to = incident'.status
    BY <1>4 DEF SerialTimelineIsPath
  <2>1. n # 0
    BY <1>0, <1>7, EmptySeq
  <2>2. \A i \in 2 .. n : timeline[i].began = i - 1
    BY <1>4
  <2>3. /\ Unbroken(timeline)
        /\ \A i \in 2 .. n :
             timeline[i].to \in Allowed[timeline[i].from] \union {timeline[i].from}
        /\ timeline[n].to = incident.status
    BY <1>0, <1>7, <2>2 DEF SerialTimelineIsPath
  <2>4. me.began = n
    BY <1>3, <1>4, <2>1
  <2>5. me.from = incident.status
    BY <1>0, <1>1, <2>4 DEF ReadIsCurrent
  <2>6. Unbroken(timeline')
    BY <1>0, <1>1, <1>3, <1>7, <2>3, <2>5, UnbrokenAppend
  <2>7. ASSUME NEW i \in 2 .. n + 1
        PROVE  timeline'[i].to \in Allowed[timeline'[i].from] \union {timeline'[i].from}
    <3>1. CASE i = n + 1
      BY <1>1, <1>3, <1>4, <3>1
    <3>2. CASE i # n + 1
      <4>1. i \in 2 .. n /\ i \in 1 .. n
        BY <1>4, <3>2
      <4> QED
        BY <1>4, <2>3, <4>1
    <3> QED
      BY <3>1, <3>2
  <2>8. timeline'[n + 1].to = incident'.status
    BY <1>3, <1>4, <1>8, <2>5 DEF ColumnAfter
  <2> QED
    BY <2>6, <2>7, <2>8
<1>15. BranchIsOwned'
  BY <1>0, <1>1, <1>5, <1>6 DEF BranchIsOwned
<1>16. OnePullPerBranch' /\ PullWasApproved'
  BY <1>0, <1>1 DEF OnePullPerBranch, PullWasApproved
<1>17. PullIsOwned' /\ RecordsArePulls'
  <2>1. CASE me.op # "create_pr"
    BY <1>0, <1>1, <1>5, <1>6, <2>1 DEF PullIsOwned, RecordsArePulls
  <2>2. CASE me.op = "create_pr"
    <3> DEFINE k == Len(recorded)
    <3>1. /\ Len(recorded') = k + 1 /\ k \in Nat
          /\ recorded'[k + 1] = Row(me)
          /\ \A i \in 1 .. k : recorded'[i] = recorded[i]
      BY <1>0, <1>1, <1>9, <2>2, AppendRow
    <3>2. /\ me.pull # 0 /\ me.pull \in 1 .. Len(pulls)
          /\ pulls[me.pull].proposal = me.proposal
          /\ \A i \in 1 .. k : recorded[i].pull # me.pull
          /\ \A q \in Requests \ {r} : request[q].pull # me.pull
      BY <1>0, <1>1, <2>2 DEF PullIsOwned
    <3>3. \A i \in 1 .. k + 1 : i \in 1 .. k \/ i = k + 1
      BY <3>1
    <3>4. PullIsOwned'
      <4>1. ASSUME NEW q \in Requests, request'[q].pull # 0
            PROVE  /\ q # r
                   /\ request'[q] = request[q]
                   /\ \A i \in 1 .. k + 1 : recorded'[i].pull # request[q].pull
        <5>1. q # r /\ request'[q] = request[q] /\ request[q].pull # 0
          BY <1>5, <1>6, <4>1
        <5>2. request[q].pull # me.pull /\ \A i \in 1 .. k : recorded[i].pull # request[q].pull
          BY <1>0, <3>2, <5>1 DEF PullIsOwned
        <5> QED
          BY <1>9, <2>2, <3>1, <3>3, <5>1, <5>2
      <4> QED
        BY <1>0, <1>1, <3>1, <4>1 DEF PullIsOwned
    <3>5. RecordsArePulls'
      <4>1. \A i \in 1 .. k + 1 :
              /\ recorded'[i].pull \in 1 .. Len(pulls)
              /\ pulls[recorded'[i].pull].proposal = recorded'[i].proposal
        BY <1>0, <1>9, <2>2, <3>1, <3>2, <3>3 DEF RecordsArePulls
      <4>2. \A i, j \in 1 .. k + 1 : recorded'[i].pull = recorded'[j].pull => i = j
        BY <1>0, <1>9, <2>2, <3>1, <3>2, <3>3 DEF RecordsArePulls
      <4> QED
        BY <1>1, <3>1, <4>1, <4>2 DEF RecordsArePulls
    <3> QED
      BY <3>4, <3>5
  <2> QED
    BY <2>1, <2>2
<1> QED
  BY <1>10, <1>11, <1>12, <1>13, <1>14, <1>15, <1>16, <1>17 DEF IInv

LEMMA NextIInv == IInv /\ [Next]_vars => IInv'
<1> SUFFICES ASSUME IInv, [Next]_vars PROVE IInv'
  OBVIOUS
<1>1. ASSUME NEW r \in Requests,
             \/ StartTransition(r) \/ StartEvidence(r)
             \/ StartInvestigation(r) \/ StartPullRequest(r)
      PROVE  IInv'
  <2>1. PICK op \in {"transition", "evidence", "investigate", "create_pr"},
             goal \in Statuses : ReadIncident(r, op, goal)
    BY <1>1 DEF StartTransition, StartEvidence, StartInvestigation, StartPullRequest, Statuses
  <2> QED
    BY <2>1, ReadStep DEF Ops
<1>2. CASE UNCHANGED vars
  BY <1>2
  DEF vars, gitVars, IInv, TypeOK, TimelineStarts, ReadIsCurrent, StatusGiven,
      SerialTimelineIsPath, BranchIsOwned, PullIsOwned, OnePullPerBranch,
      RecordsArePulls, PullWasApproved
<1> QED
  BY <1>1, <1>2, CreateStep, CreateBranchStep, OpenPullStep, UsersStep, CommitStep, EndStep
  DEF Next

THEOREM Invariance == Spec => []IInv
BY InitIInv, NextIInv, PTL DEF Spec

--------------------------------------------------------------------------------
(* What the runs check *)

\* The variables keep their types.
THEOREM Typing == Spec => []TypeOK
<1>1. IInv => TypeOK
  BY DEF IInv
<1> QED
  BY <1>1, Invariance, PTL

\* The status of the incident is that of a change in its timeline which none is
\* later than, in the order the timeline is read, also when requests that read the
\* same row write one after the other.
THEOREM StatusExplained == Spec => []StatusFollowsTimeline
<1>1. IInv => StatusFollowsTimeline
  <2> SUFFICES ASSUME IInv, incident.status # Absent
               PROVE  Explains(timeline, incident.status)
    BY DEF StatusFollowsTimeline
  <2>1. timeline \in Seq(Rows)
    BY DEF IInv, TypeOK, Rows
  <2>2. LastGave(timeline, incident.status) /\ BeganBefore(timeline)
    BY DEF IInv, StatusGiven
  <2> QED
    BY <2>1, <2>2, LastGaveExplains
<1> QED
  BY <1>1, Invariance, PTL

\* Where no two requests overlapped, the timeline is a path of the table.
THEOREM SerialPath == Spec => []SerialTimelineIsPath
<1>1. IInv => SerialTimelineIsPath
  BY DEF IInv
<1> QED
  BY <1>1, Invariance, PTL

\* However often create-pr runs, and whatever users merge, close and delete
\* meanwhile, no two pull requests come from one making of the branch.
THEOREM BranchHasOnePull == Spec => []OnePullPerBranch
<1>1. IInv => OnePullPerBranch
  BY DEF IInv
<1> QED
  BY <1>1, Invariance, PTL

\* What is on record are pull requests that were opened, each recorded once.
THEOREM RecordedWasOpened == Spec => []RecordsArePulls
<1>1. IInv => RecordsArePulls
  BY DEF IInv
<1> QED
  BY <1>1, Invariance, PTL

\* The pull request carries a proposal the policies approved.
THEOREM PullIsApproved == Spec => []PullWasApproved
<1>1. IInv => PullWasApproved
  BY DEF IInv
<1> QED
  BY <1>1, Invariance, PTL

================================================================================
