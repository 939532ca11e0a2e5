---------------------------- MODULE ApiRequestsProofs ----------------------------
(***************************************************************************)
(* Safety of what API requests do besides tenants, incidents and keys, for *)
(* any number of requests, processes, tenants, modules, products,          *)
(* services, routes and rows: changes sent to Git, the rate limiter and    *)
(* the signing keys, the modules and products of a tenant, and paged       *)
(* listings; AccessApprovalProofs has the access requests.  The components *)
(* share no state, so each has an inductive invariant and theorems of its  *)
(* own.                                                                    *)
(***************************************************************************)
EXTENDS MCApiRequests, AccessApprovalProofs, FiniteSetTheorems,
        SequenceTheorems, WellFoundedInduction, TLAPS

--------------------------------------------------------------------------------
(* Changes sent to Git *)

\* The stages at which a call is through with its pull request.
Opened == {"checks", "commit", "done"}

\* The stages at which a scaffolding has created its repository.
HasRepo == {"branch", "pull"} \union Opened

IsOpen(i, b) == pulls[i].branch = b /\ pulls[i].state = "open"

\* A call holds its branch until it has opened its pull request, and then the pull
\* request is of its branch and its tag; the checks it needs have passed if it says so.
ChangeOK(c) ==
  /\ change[c].pc = "pull" =>
       Branch(c) \in branches /\ \A i \in 1 .. Len(pulls) : ~IsOpen(i, Branch(c))
  /\ change[c].pc \in Opened =>
       /\ change[c].pull \in 1 .. Len(pulls)
       /\ pulls[change[c].pull].branch = Branch(c)
       /\ pulls[change[c].pull].tag = change[c].tag
  /\ change[c].pc \in {"commit", "done"} /\ change[c].status = "created" =>
       change[c].required \subseteq pulls[change[c].pull].passed
  /\ change[c].kind = "promote" => change[c].repo = Home
  /\ change[c].kind = "scaffold" /\ change[c].pc \in HasRepo => change[c].repo \in repos
  /\ change[c].pc = "repo" => change[c].kind = "scaffold" /\ change[c].repo \in Repositories

\* No two calls hold one branch, have one pull request, or created one repository.
Apart(c, d) ==
  /\ change[c].pc = "pull" /\ change[d].pc = "pull" => Branch(c) # Branch(d)
  /\ change[c].pc \in Opened /\ change[d].pc \in Opened => change[c].pull # change[d].pull
  /\ change[c].kind = "scaffold" /\ change[c].pc \in HasRepo
     /\ change[d].kind = "scaffold" /\ change[d].pc \in HasRepo
     => change[c].repo # change[d].repo

\* The row of a promotion.
Promoted(c) ==
  [call |-> c, route |-> change[c].subject, tag |-> change[c].tag,
   required |-> change[c].required, pull |-> change[c].pull, status |-> change[c].status]

\* The answer of a scaffolding.
Scaffolded(c) ==
  [call |-> c, repo |-> change[c].repo, service |-> change[c].subject, pull |-> change[c].pull]

\* What is on record is of calls that are done.
OfCalls ==
  /\ \A r \in promotions :
       /\ r.call \in 1 .. Len(change) /\ change[r.call].pc = "done"
       /\ change[r.call].kind = "promote" /\ r = Promoted(r.call)
  /\ \A s \in scaffolds :
       /\ s.call \in 1 .. Len(change) /\ change[s.call].pc = "done"
       /\ change[s.call].kind = "scaffold" /\ s = Scaffolded(s.call)

\* The branch of an open pull request is there, and no other is open from it.
OpenOnce ==
  \A i \in 1 .. Len(pulls) : pulls[i].state = "open" =>
    /\ pulls[i].branch \in branches
    /\ \A j \in 1 .. Len(pulls) : IsOpen(j, pulls[i].branch) => i = j

VInv ==
  /\ GitTypeOK /\ Home \in repos /\ OpenOnce /\ OfCalls
  /\ \A c \in 1 .. Len(change) : ChangeOK(c)
  /\ \A c, d \in 1 .. Len(change) : c # d => Apart(c, d)

LEMMA InitVInv == GitInit => VInv
<1> SUFFICES ASSUME GitInit PROVE VInv
  OBVIOUS
<1>1. /\ repos = {Home} /\ branches = {} /\ pulls = <<>> /\ change = <<>>
      /\ promotions = {} /\ scaffolds = {}
  BY DEF GitInit
<1>2. GitTypeOK
  BY <1>1, GitAssumption DEF GitTypeOK, Places
<1> QED
  BY <1>1, <1>2 DEF VInv, OpenOnce, OfCalls

LEMMA GitTypes ==
  ASSUME VInv
  PROVE  /\ Len(change) \in Nat /\ DOMAIN change = 1 .. Len(change)
         /\ Len(pulls) \in Nat /\ DOMAIN pulls = 1 .. Len(pulls)
         /\ \A c \in 1 .. Len(change) : change[c] \in Change
         /\ \A i \in 1 .. Len(pulls) : pulls[i] \in Pull
BY DEF VInv, GitTypeOK

\* Pull requests stay: none is opened again and no check is taken back.
PullsKept ==
  /\ Len(pulls) <= Len(pulls') /\ Len(pulls') \in Nat
  /\ \A i \in 1 .. Len(pulls) :
       /\ pulls'[i].branch = pulls[i].branch /\ pulls'[i].tag = pulls[i].tag
       /\ pulls[i].passed \subseteq pulls'[i].passed

\* The branch that a call holds is there, and no pull request is open from it.
Held(b) == b \in branches /\ \A i \in 1 .. Len(pulls) : ~IsOpen(i, b)

\* What the other calls and Git's users do leave a call as it is.
LEMMA ChangeKept ==
  ASSUME VInv, NEW d \in 1 .. Len(change), change'[d] = change[d],
         PullsKept, repos \subseteq repos', change[d].pc = "pull" => Held(Branch(d))'
  PROVE  ChangeOK(d)'
<1>1. ChangeOK(d) /\ Len(pulls) \in Nat
  BY GitTypes DEF VInv
<1>2. Branch(d)' = Branch(d)
  BY DEF Branch
<1>3. ASSUME change[d].pc \in Opened
      PROVE  /\ change[d].pull \in 1 .. Len(pulls) /\ change[d].pull \in 1 .. Len(pulls')
             /\ pulls'[change[d].pull].branch = Branch(d)
             /\ pulls'[change[d].pull].tag = change[d].tag
  BY <1>1, <1>3 DEF ChangeOK, PullsKept
<1>4. ASSUME change[d].pc \in {"commit", "done"}, change[d].status = "created"
      PROVE  change[d].required \subseteq pulls'[change[d].pull].passed
  <2>1. change[d].pull \in 1 .. Len(pulls)
    BY <1>3, <1>4 DEF Opened
  <2> QED
    BY <1>1, <1>4, <2>1 DEF ChangeOK, PullsKept
<1> QED
  BY <1>1, <1>2, <1>3, <1>4 DEF ChangeOK, Held

\* A step of one call.
LEMMA OneChange ==
  ASSUME VInv, NEW c \in 1 .. Len(change), NEW x \in Change,
         change' = [change EXCEPT ![c] = x],
         GitTypeOK', PullsKept, repos \subseteq repos', OpenOnce', OfCalls', ChangeOK(c)',
         \A d \in 1 .. Len(change) : d # c /\ change[d].pc = "pull" => Held(Branch(d))',
         \A d \in 1 .. Len(change) : d # c => Apart(c, d)'
  PROVE  VInv'
<1>1. /\ Len(change') = Len(change) /\ change'[c] = x
      /\ \A d \in 1 .. Len(change) : d # c => change'[d] = change[d]
  BY DEF VInv, GitTypeOK
<1>2. \A d \in 1 .. Len(change) : d # c => Branch(d)' = Branch(d)
  BY <1>1 DEF Branch
<1>3. ASSUME NEW d \in 1 .. Len(change) PROVE ChangeOK(d)'
  <2>1. CASE d = c
    BY <2>1
  <2>2. CASE d # c
    BY <1>1, <2>2, ChangeKept
  <2> QED
    BY <2>1, <2>2
<1>4. ASSUME NEW d \in 1 .. Len(change), NEW e \in 1 .. Len(change), d # e
      PROVE  Apart(d, e)'
  <2>1. CASE d = c
    BY <1>4, <2>1
  <2>2. CASE e = c
    <3>1. Apart(c, d)'
      BY <1>4, <2>2
    <3> QED
      BY <2>2, <3>1 DEF Apart
  <2>3. CASE d # c /\ e # c
    <3>1. Apart(d, e)
      BY <1>4 DEF VInv
    <3> QED
      BY <1>1, <1>2, <2>3, <3>1 DEF Apart
  <2> QED
    BY <2>1, <2>2, <2>3
<1> QED
  BY <1>1, <1>3, <1>4 DEF VInv

\* A step of one call that changes nothing that is on record.
LEMMA RecordsKept ==
  ASSUME VInv, NEW c \in 1 .. Len(change), NEW x \in Change,
         change' = [change EXCEPT ![c] = x], change[c].pc # "done",
         UNCHANGED <<promotions, scaffolds>>
  PROVE  OfCalls'
<1>1. /\ Len(change') = Len(change)
      /\ \A d \in 1 .. Len(change) : d # c => change'[d] = change[d]
  BY DEF VInv, GitTypeOK
<1>2. \A d \in 1 .. Len(change) : d # c =>
        Promoted(d)' = Promoted(d) /\ Scaffolded(d)' = Scaffolded(d)
  BY <1>1 DEF Promoted, Scaffolded
<1>3. OfCalls
  BY DEF VInv
<1> QED
  BY <1>1, <1>2, <1>3 DEF OfCalls

LEMMA BeginChangeStep ==
  ASSUME VInv, BeginPromotion \/ BeginScaffold
  PROVE  VInv'
<1>1. /\ GitTypeOK /\ Len(change) < MaxCalls
      /\ UNCHANGED <<repos, branches, pulls, promotions, scaffolds>>
  BY DEF VInv, BeginPromotion, BeginScaffold
<1>2. PICK x \in Change :
        /\ change' = Append(change, x)
        /\ \/ x.pc = "repo" /\ x.kind = "scaffold" /\ x.repo \in Repositories
           \/ x.pc = "branch" /\ x.kind = "promote" /\ x.repo = Home
  <2>1. CASE BeginPromotion
    <3>1. PICK r \in Routes, t \in Tags, k \in CheckSets :
            change' = Append(change, [NewChange EXCEPT !.subject = r, !.tag = t, !.required = k])
      BY <2>1 DEF BeginPromotion
    <3>2. PICK x : x = [NewChange EXCEPT !.subject = r, !.tag = t, !.required = k]
      OBVIOUS
    <3>3. k \in Checks
      BY DEF Checks
    <3>4. x \in Change /\ x.pc = "branch" /\ x.kind = "promote" /\ x.repo = Home
      BY <3>2, <3>3 DEF NewChange, Change, Places
    <3> QED
      BY <3>1, <3>2, <3>4
  <2>2. CASE BeginScaffold
    <3>1. PICK v \in Services, w \in Repositories : change' = Append(change,
             [NewChange EXCEPT !.pc = "repo", !.kind = "scaffold", !.repo = w, !.subject = v])
      BY <2>2 DEF BeginScaffold
    <3>2. PICK x : x = [NewChange EXCEPT !.pc = "repo", !.kind = "scaffold", !.repo = w,
                                         !.subject = v]
      OBVIOUS
    <3>3. x \in Change /\ x.pc = "repo" /\ x.kind = "scaffold" /\ x.repo \in Repositories
      BY <3>2 DEF NewChange, Change, Checks, Places
    <3>4. change' = Append(change, x)
      BY <3>1, <3>2
    <3> QED
      BY <3>3, <3>4
  <2> QED
    BY <2>1, <2>2
<1>3. PICK n \in Nat : n = Len(change)
  BY GitTypes
<1>4. /\ change' \in Seq(Change) /\ Len(change') = n + 1 /\ change'[n + 1] = x
      /\ \A d \in 1 .. n : change'[d] = change[d]
      /\ \A d \in 1 .. n + 1 : d \in 1 .. n \/ d = n + 1
  BY <1>1, <1>2, <1>3 DEF GitTypeOK
<1>5. \A d \in 1 .. n : /\ Branch(d)' = Branch(d) /\ Promoted(d)' = Promoted(d)
                          /\ Scaffolded(d)' = Scaffolded(d)
  BY <1>4 DEF Branch, Promoted, Scaffolded
<1>6. GitTypeOK'
  BY <1>1, <1>3, <1>4, GitAssumption DEF GitTypeOK
<1>7. OpenOnce' /\ Home \in repos'
  BY <1>1 DEF VInv, OpenOnce, IsOpen
<1>8. OfCalls'
  BY <1>1, <1>3, <1>4, <1>5 DEF VInv, OfCalls
<1>9. ASSUME NEW d \in 1 .. n + 1 PROVE ChangeOK(d)'
  <2>1. CASE d = n + 1
    BY <1>2, <1>4, <2>1 DEF ChangeOK, Opened, HasRepo
  <2>2. CASE d \in 1 .. n
    <3>1. PullsKept
      BY <1>1, GitTypes DEF PullsKept
    <3>2. ChangeOK(d) /\ change'[d] = change[d] /\ Branch(d)' = Branch(d)
      BY <1>3, <1>4, <1>5, <2>2 DEF VInv
    <3>3. change[d].pc = "pull" => Held(Branch(d))'
      BY <1>1, <3>2 DEF ChangeOK, Held, IsOpen
    <3> QED
      BY <1>1, <1>3, <2>2, <3>1, <3>2, <3>3, ChangeKept
  <2> QED
    BY <1>4, <2>1, <2>2
<1>10. ASSUME NEW d \in 1 .. n + 1, NEW e \in 1 .. n + 1, d # e PROVE Apart(d, e)'
  <2>1. CASE d = n + 1 \/ e = n + 1
    BY <1>2, <1>4, <2>1 DEF Apart, Opened, HasRepo
  <2>2. CASE d \in 1 .. n /\ e \in 1 .. n
    <3>1. Apart(d, e)
      BY <1>3, <1>10, <2>2 DEF VInv
    <3> QED
      BY <1>4, <1>5, <2>2, <3>1 DEF Apart
  <2> QED
    BY <1>4, <2>1, <2>2
<1> QED
  BY <1>4, <1>6, <1>7, <1>8, <1>9, <1>10 DEF VInv

LEMMA FailStep ==
  ASSUME VInv, NEW c \in 1 .. Len(change), Fail(c), change[c].pc \notin {"done", "failed"},
         UNCHANGED <<repos, branches, pulls, promotions, scaffolds>>
  PROVE  VInv'
<1>1. GitTypeOK /\ ChangeOK(c) /\ change[c] \in Change /\ DOMAIN change = 1 .. Len(change)
  BY GitTypes DEF VInv
<1>2. PICK x : x = [change[c] EXCEPT !.pc = "failed"]
  OBVIOUS
<1>3. /\ x \in Change /\ x.pc = "failed" /\ x.kind = change[c].kind /\ x.repo = change[c].repo
      /\ change' = [change EXCEPT ![c] = x]
  BY <1>1, <1>2 DEF Change, Fail
<1>4. /\ change'[c] = x /\ change' \in Seq(Change) /\ Len(change') = Len(change)
      /\ \A d \in 1 .. Len(change) : d # c => change'[d] = change[d]
  BY <1>1, <1>3 DEF GitTypeOK
<1>5. GitTypeOK' /\ OpenOnce' /\ PullsKept
  BY <1>1, <1>4, GitTypes DEF VInv, GitTypeOK, OpenOnce, IsOpen, PullsKept
<1>6. OfCalls'
  BY <1>3, RecordsKept
<1>7. ChangeOK(c)'
  BY <1>1, <1>3, <1>4 DEF ChangeOK, Opened, HasRepo
<1>8. ASSUME NEW d \in 1 .. Len(change), d # c, change[d].pc = "pull" PROVE Held(Branch(d))'
  <2>1. ChangeOK(d) /\ Branch(d)' = Branch(d)
    BY <1>4, <1>8 DEF VInv, Branch
  <2> QED
    BY <1>8, <2>1 DEF ChangeOK, Held, IsOpen
<1>9. ASSUME NEW d \in 1 .. Len(change), d # c PROVE Apart(c, d)'
  BY <1>3, <1>4 DEF Apart, Opened, HasRepo
<1> QED
  BY <1>3, <1>5, <1>6, <1>7, <1>8, <1>9, OneChange

LEMMA CreateRepoStep ==
  ASSUME VInv, NEW c \in 1 .. Len(change), CreateRepo(c)
  PROVE  VInv'
<1>1. /\ GitTypeOK /\ OpenOnce /\ Home \in repos /\ ChangeOK(c)
      /\ change[c] \in Change /\ change[c].pc = "repo"
      /\ UNCHANGED <<branches, pulls, promotions, scaffolds>>
  BY GitTypes DEF VInv, CreateRepo
<1>2. CASE change[c].repo \in repos
  BY <1>1, <1>2, FailStep DEF CreateRepo
<1>3. CASE change[c].repo \notin repos
  <2>1. PICK x : x = [change[c] EXCEPT !.pc = "branch"]
    OBVIOUS
  <2>2. /\ x \in Change /\ x.pc = "branch" /\ x.repo = change[c].repo
        /\ x.kind = "scaffold" /\ x.repo \in Repositories
        /\ repos' = repos \union {x.repo} /\ change' = [change EXCEPT ![c] = x]
    BY <1>1, <1>3, <2>1 DEF Change, CreateRepo, ChangeOK
  <2>3. /\ change'[c] = x /\ change' \in Seq(Change) /\ Len(change') = Len(change)
        /\ \A d \in 1 .. Len(change) : d # c => change'[d] = change[d]
    BY <1>1, <2>2 DEF GitTypeOK
  <2>4. /\ GitTypeOK' /\ OpenOnce' /\ PullsKept /\ repos \subseteq repos'
    BY <1>1, <2>2, <2>3, GitTypes DEF GitTypeOK, OpenOnce, IsOpen, PullsKept, Places
  <2>5. OfCalls'
    BY <1>1, <2>2, RecordsKept
  <2>6. ChangeOK(c)'
    BY <2>2, <2>3 DEF ChangeOK, Opened
  <2>7. ASSUME NEW d \in 1 .. Len(change), d # c, change[d].pc = "pull" PROVE Held(Branch(d))'
    <3>1. ChangeOK(d) /\ Branch(d)' = Branch(d)
      BY <2>3, <2>7 DEF VInv, Branch
    <3> QED
      BY <1>1, <2>7, <3>1 DEF ChangeOK, Held, IsOpen
  <2>8. ASSUME NEW d \in 1 .. Len(change), d # c PROVE Apart(c, d)'
    <3>1. ChangeOK(d)
      BY DEF VInv
    <3> QED
      BY <1>3, <2>2, <2>3, <2>8, <3>1 DEF Apart, Opened, ChangeOK
  <2> QED
    BY <2>2, <2>4, <2>5, <2>6, <2>7, <2>8, OneChange
<1> QED
  BY <1>2, <1>3

LEMMA PushBranchStep ==
  ASSUME VInv, NEW c \in 1 .. Len(change), PushBranch(c)
  PROVE  VInv'
<1>1. /\ GitTypeOK /\ OpenOnce /\ Home \in repos /\ ChangeOK(c)
      /\ change[c] \in Change /\ change[c].pc = "branch"
      /\ UNCHANGED <<repos, pulls, promotions, scaffolds>>
  BY GitTypes DEF VInv, PushBranch
<1>2. CASE Branch(c) \in branches
  BY <1>1, <1>2, FailStep DEF PushBranch
<1>3. CASE Branch(c) \notin branches
  <2>1. PICK x : x = [change[c] EXCEPT !.pc = "pull"]
    OBVIOUS
  <2>2. /\ x \in Change /\ x.pc = "pull" /\ x.subject = change[c].subject
        /\ x.kind = change[c].kind /\ x.repo = change[c].repo
        /\ branches' = branches \union {Branch(c)} /\ change' = [change EXCEPT ![c] = x]
    BY <1>1, <1>3, <2>1 DEF Change, PushBranch
  <2>3. /\ change'[c] = x /\ change' \in Seq(Change) /\ Len(change') = Len(change)
        /\ \A d \in 1 .. Len(change) : d # c => change'[d] = change[d]
        /\ \A d \in 1 .. Len(change) : Branch(d)' = Branch(d)
    BY <1>1, <2>2 DEF GitTypeOK, Branch
  <2>4. Branch(c) \in repos \X (Routes \union Services)
    BY <1>1 DEF Branch, ChangeOK, HasRepo, Change
  <2>5. /\ GitTypeOK' /\ OpenOnce' /\ PullsKept
    <3>1. branches' \subseteq repos \X (Routes \union Services)
      BY <1>1, <2>2, <2>4 DEF GitTypeOK
    <3>2. GitTypeOK'
      BY <1>1, <2>3, <3>1 DEF GitTypeOK
    <3>3. OpenOnce' /\ PullsKept
      BY <1>1, <2>2, GitTypes DEF OpenOnce, IsOpen, PullsKept
    <3> QED
      BY <3>2, <3>3
  <2>6. OfCalls'
    BY <1>1, <2>2, RecordsKept
  <2>7. ChangeOK(c)'
    <3>1. \A i \in 1 .. Len(pulls) : ~IsOpen(i, Branch(c))
      BY <1>1, <1>3 DEF OpenOnce, IsOpen
    <3> QED
      BY <1>1, <2>2, <2>3, <3>1 DEF ChangeOK, Opened, HasRepo, IsOpen
  <2>8. ASSUME NEW d \in 1 .. Len(change), d # c, change[d].pc = "pull" PROVE Held(Branch(d))'
    <3>1. ChangeOK(d)
      BY DEF VInv
    <3> QED
      BY <1>1, <2>2, <2>3, <2>8, <3>1 DEF ChangeOK, Held, IsOpen
  <2>9. ASSUME NEW d \in 1 .. Len(change), d # c PROVE Apart(c, d)'
    <3>1. ChangeOK(d) /\ Apart(c, d)
      BY <2>9 DEF VInv
    <3> QED
      BY <1>1, <1>3, <2>2, <2>3, <2>9, <3>1 DEF Apart, Opened, HasRepo, ChangeOK
  <2> QED
    BY <1>1, <2>2, <2>5, <2>6, <2>7, <2>8, <2>9, OneChange
<1> QED
  BY <1>2, <1>3

LEMMA OpenPullStep ==
  ASSUME VInv, NEW c \in 1 .. Len(change), OpenPull(c)
  PROVE  VInv'
<1>1. /\ GitTypeOK /\ OpenOnce /\ Home \in repos /\ ChangeOK(c)
      /\ change[c] \in Change /\ change[c].pc = "pull"
      /\ UNCHANGED <<repos, branches, promotions, scaffolds>>
  BY GitTypes DEF VInv, OpenPull
<1>2. PICK n \in Nat : n = Len(pulls)
  BY GitTypes
<1>3. PICK y : y = [branch |-> Branch(c), tag |-> change[c].tag, state |-> "open", passed |-> {}]
  OBVIOUS
<1>4. PICK pc \in {"commit", "checks"} : pc = IF change[c].required = {} THEN "commit" ELSE "checks"
  OBVIOUS
<1>5. PICK x : x = [change[c] EXCEPT !.pull = n + 1, !.pc = pc]
  OBVIOUS
<1>6. /\ x \in Change /\ x.pc = pc /\ x.pull = n + 1 /\ x.subject = change[c].subject
      /\ x.repo = change[c].repo
      /\ x.kind = change[c].kind /\ x.tag = change[c].tag /\ x.required = change[c].required
      /\ pulls' = Append(pulls, y) /\ change' = [change EXCEPT ![c] = x]
  BY <1>1, <1>2, <1>3, <1>4, <1>5 DEF Change, OpenPull
<1>7. /\ change'[c] = x /\ change' \in Seq(Change) /\ Len(change') = Len(change)
      /\ \A d \in 1 .. Len(change) : d # c => change'[d] = change[d]
      /\ \A d \in 1 .. Len(change) : Branch(d)' = Branch(d)
  BY <1>1, <1>6 DEF GitTypeOK, Branch
<1>8. y \in Pull
  BY <1>1, <1>3 DEF ChangeOK, GitTypeOK, Pull, Branches, Checks, Change
<1>9. /\ pulls' \in Seq(Pull) /\ Len(pulls') = n + 1 /\ pulls'[n + 1] = y
      /\ \A i \in 1 .. n : pulls'[i] = pulls[i]
      /\ \A i \in 1 .. n + 1 : i \in 1 .. n \/ i = n + 1
  BY <1>1, <1>2, <1>6, <1>8 DEF GitTypeOK
<1>10. GitTypeOK'
  BY <1>1, <1>7, <1>9 DEF GitTypeOK
<1>11. PullsKept
  BY <1>2, <1>9 DEF PullsKept
<1>12. OpenOnce'
  <2>1. \A i \in 1 .. n : ~IsOpen(i, Branch(c))
    BY <1>1, <1>2 DEF ChangeOK
  <2>2. Branch(c) \in branches /\ y.branch = Branch(c)
    BY <1>1, <1>3 DEF ChangeOK
  <2>3. ASSUME NEW i \in 1 .. n + 1, pulls'[i].state = "open"
        PROVE  pulls'[i].branch \in branches
    BY <1>1, <1>2, <1>9, <2>2, <2>3 DEF OpenOnce
  <2>4. ASSUME NEW i \in 1 .. n + 1, NEW j \in 1 .. n + 1, i # j,
               pulls'[i].state = "open", pulls'[j].state = "open"
        PROVE  pulls'[i].branch # pulls'[j].branch
    <3>1. CASE i = n + 1 \/ j = n + 1
      BY <1>9, <2>1, <2>2, <2>4, <3>1 DEF IsOpen
    <3>2. CASE i \in 1 .. n /\ j \in 1 .. n
      BY <1>1, <1>2, <1>9, <2>4, <3>2 DEF OpenOnce, IsOpen
    <3> QED
      BY <1>9, <3>1, <3>2
  <2> QED
    BY <1>1, <1>9, <2>3, <2>4 DEF OpenOnce, IsOpen
<1>13. OfCalls'
  BY <1>1, <1>6, RecordsKept
<1>14. ChangeOK(c)'
  <2>1. pulls'[n + 1].branch = Branch(c) /\ pulls'[n + 1].tag = change[c].tag
    BY <1>3, <1>9
  <2>2. pc = "commit" => change[c].required = {}
    BY <1>4
  <2> QED
    BY <1>1, <1>2, <1>6, <1>7, <1>9, <2>1, <2>2 DEF ChangeOK, Opened, HasRepo
<1>15. ASSUME NEW d \in 1 .. Len(change), d # c, change[d].pc = "pull" PROVE Held(Branch(d))'
  <2>1. ChangeOK(d) /\ Apart(c, d)
    BY <1>15 DEF VInv
  <2>2. Branch(c) # Branch(d)
    BY <1>1, <1>15, <2>1 DEF Apart
  <2>3. \A i \in 1 .. n + 1 : ~(pulls'[i].branch = Branch(d) /\ pulls'[i].state = "open")
    BY <1>2, <1>3, <1>9, <1>15, <2>1, <2>2 DEF ChangeOK, IsOpen
  <2> QED
    BY <1>1, <1>7, <1>9, <1>15, <2>1, <2>3 DEF ChangeOK, Held, IsOpen
<1>16. ASSUME NEW d \in 1 .. Len(change), d # c PROVE Apart(c, d)'
  <2>1. ChangeOK(d) /\ Apart(c, d)
    BY <1>16 DEF VInv
  <2>2. change[d].pc \in Opened => change[d].pull # n + 1
    BY <1>2, <2>1 DEF ChangeOK
  <2> QED
    BY <1>1, <1>6, <1>7, <1>16, <2>1, <2>2 DEF Apart, Opened, HasRepo
<1> QED
  BY <1>1, <1>6, <1>10, <1>11, <1>12, <1>13, <1>14, <1>15, <1>16, OneChange

LEMMA ReadChecksStep ==
  ASSUME VInv, NEW c \in 1 .. Len(change), ReadChecks(c)
  PROVE  VInv'
<1>1. /\ GitTypeOK /\ OpenOnce /\ Home \in repos /\ ChangeOK(c)
      /\ change[c] \in Change /\ change[c].pc = "checks"
      /\ UNCHANGED <<repos, branches, pulls, promotions, scaffolds>>
  BY GitTypes DEF VInv, ReadChecks
<1>2. PICK s \in {"created", "pending_checks"} :
        s = IF change[c].required \subseteq pulls[change[c].pull].passed
            THEN "created" ELSE "pending_checks"
  OBVIOUS
<1>3. PICK x : x = [change[c] EXCEPT !.pc = "commit", !.status = s]
  OBVIOUS
<1>4. /\ x \in Change /\ x.pc = "commit" /\ x.status = s /\ x.subject = change[c].subject
      /\ x.repo = change[c].repo
      /\ x.kind = change[c].kind /\ x.tag = change[c].tag /\ x.required = change[c].required
      /\ x.pull = change[c].pull /\ change' = [change EXCEPT ![c] = x]
  BY <1>1, <1>2, <1>3 DEF Change, ReadChecks
<1>5. /\ change'[c] = x /\ change' \in Seq(Change) /\ Len(change') = Len(change)
      /\ \A d \in 1 .. Len(change) : d # c => change'[d] = change[d]
      /\ \A d \in 1 .. Len(change) : Branch(d)' = Branch(d)
  BY <1>1, <1>4 DEF GitTypeOK, Branch
<1>6. GitTypeOK' /\ OpenOnce' /\ PullsKept
  BY <1>1, <1>5, GitTypes DEF GitTypeOK, OpenOnce, IsOpen, PullsKept
<1>7. OfCalls'
  BY <1>1, <1>4, RecordsKept
<1>8. ChangeOK(c)'
  BY <1>1, <1>2, <1>4, <1>5 DEF ChangeOK, Opened, HasRepo
<1>9. ASSUME NEW d \in 1 .. Len(change), d # c, change[d].pc = "pull" PROVE Held(Branch(d))'
  <2>1. ChangeOK(d)
    BY DEF VInv
  <2> QED
    BY <1>1, <1>5, <1>9, <2>1 DEF ChangeOK, Held, IsOpen
<1>10. ASSUME NEW d \in 1 .. Len(change), d # c PROVE Apart(c, d)'
  <2>1. Apart(c, d)
    BY <1>10 DEF VInv
  <2> QED
    BY <1>1, <1>4, <1>5, <1>10, <2>1 DEF Apart, Opened, HasRepo
<1> QED
  BY <1>1, <1>4, <1>6, <1>7, <1>8, <1>9, <1>10, OneChange

LEMMA CommitChangeStep ==
  ASSUME VInv, NEW c \in 1 .. Len(change), CommitChange(c)
  PROVE  VInv'
<1>1. /\ GitTypeOK /\ OpenOnce /\ OfCalls /\ Home \in repos /\ ChangeOK(c)
      /\ change[c] \in Change /\ change[c].pc = "commit"
      /\ UNCHANGED <<repos, branches, pulls>>
  BY GitTypes DEF VInv, CommitChange
<1>2. PICK x : x = [change[c] EXCEPT !.pc = "done"]
  OBVIOUS
<1>3. /\ x \in Change /\ x.pc = "done" /\ x.status = change[c].status
      /\ x.repo = change[c].repo
      /\ x.subject = change[c].subject /\ x.kind = change[c].kind /\ x.tag = change[c].tag
      /\ x.required = change[c].required /\ x.pull = change[c].pull
      /\ change' = [change EXCEPT ![c] = x]
  BY <1>1, <1>2 DEF Change, CommitChange
<1>4. /\ change'[c] = x /\ change' \in Seq(Change) /\ Len(change') = Len(change)
      /\ \A d \in 1 .. Len(change) : d # c => change'[d] = change[d]
      /\ \A d \in 1 .. Len(change) : Branch(d)' = Branch(d)
  BY <1>1, <1>3 DEF GitTypeOK, Branch
<1>5. \A d \in 1 .. Len(change) : /\ Promoted(d)' = Promoted(d)
                                   /\ Scaffolded(d)' = Scaffolded(d)
  BY <1>3, <1>4 DEF Promoted, Scaffolded
<1>6. c \in 1 .. MaxCalls
  BY <1>1, GitTypes, GitAssumption DEF GitTypeOK
<1>7. \A d \in 1 .. Len(change) :
        /\ change'[d].kind = change[d].kind /\ change'[d].subject = change[d].subject
        /\ change[d].pc = "done" => change'[d].pc = "done"
  BY <1>3, <1>4
<1>8. OfCalls' /\ GitTypeOK'
  <2>1. CASE change[c].kind = "promote"
    <3>1. promotions' = promotions \union {Promoted(c)} /\ scaffolds' = scaffolds
      BY <2>1 DEF CommitChange, Promoted
    <3>2. Promoted(c) \in [call : 1 .. MaxCalls, route : Routes \union Services,
                           tag : Tags \union {None}, required : Checks, pull : Nat,
                           status : {"created", "pending_checks"}]
      BY <1>1, <1>6 DEF Promoted, Change
    <3>3. Promoted(c).call = c
      BY DEF Promoted
    <3>4. ASSUME NEW r \in promotions'
          PROVE  /\ r.call \in 1 .. Len(change) /\ change'[r.call].pc = "done"
                 /\ change'[r.call].kind = "promote" /\ r = Promoted(r.call)'
      <4>1. CASE r = Promoted(c)
        BY <1>3, <1>4, <1>5, <2>1, <3>3, <4>1
      <4>2. CASE r \in promotions
        BY <1>1, <1>5, <1>7, <4>2 DEF OfCalls
      <4> QED
        BY <3>1, <4>1, <4>2
    <3>5. OfCalls'
      BY <1>1, <1>4, <1>5, <1>7, <3>1, <3>4 DEF OfCalls
    <3> QED
      BY <1>1, <1>4, <3>1, <3>2, <3>5 DEF GitTypeOK
  <2>2. CASE change[c].kind # "promote"
    <3>1. /\ scaffolds' = scaffolds \union {Scaffolded(c)}
          /\ promotions' = promotions /\ change[c].kind = "scaffold"
      BY <1>1, <2>2 DEF CommitChange, Change, Scaffolded
    <3>2. Scaffolded(c) \in Scaffold /\ Scaffolded(c).call = c
      BY <1>1, <1>6 DEF Scaffolded, Scaffold, Change
    <3>3. ASSUME NEW s \in scaffolds'
          PROVE  /\ s.call \in 1 .. Len(change) /\ change'[s.call].pc = "done"
                 /\ change'[s.call].kind = "scaffold" /\ s = Scaffolded(s.call)'
      <4>1. CASE s = Scaffolded(c)
        BY <1>3, <1>4, <1>5, <3>1, <3>2, <4>1
      <4>2. CASE s \in scaffolds
        BY <1>1, <1>5, <1>7, <4>2 DEF OfCalls
      <4> QED
        BY <3>1, <4>1, <4>2
    <3>4. OfCalls'
      BY <1>1, <1>4, <1>5, <1>7, <3>1, <3>3 DEF OfCalls
    <3> QED
      BY <1>1, <1>4, <3>1, <3>2, <3>4 DEF GitTypeOK
  <2> QED
    BY <2>1, <2>2
<1>9. OpenOnce' /\ PullsKept
  BY <1>1, GitTypes DEF OpenOnce, IsOpen, PullsKept
<1>10. ChangeOK(c)'
  BY <1>1, <1>3, <1>4 DEF ChangeOK, Opened, HasRepo
<1>11. ASSUME NEW d \in 1 .. Len(change), d # c, change[d].pc = "pull" PROVE Held(Branch(d))'
  <2>1. ChangeOK(d)
    BY DEF VInv
  <2> QED
    BY <1>1, <1>4, <1>11, <2>1 DEF ChangeOK, Held, IsOpen
<1>12. ASSUME NEW d \in 1 .. Len(change), d # c PROVE Apart(c, d)'
  <2>1. Apart(c, d)
    BY <1>12 DEF VInv
  <2> QED
    BY <1>1, <1>3, <1>4, <1>12, <2>1 DEF Apart, Opened, HasRepo
<1> QED
  BY <1>1, <1>3, <1>8, <1>9, <1>10, <1>11, <1>12, OneChange

\* What Git and its users do: they open no pull request and no branch.
LEMMA OfGitStep ==
  ASSUME VInv, UNCHANGED <<repos, change, promotions, scaffolds>>, PullsKept,
         pulls' \in Seq(Pull), Len(pulls') = Len(pulls), branches' \subseteq branches,
         \A i \in 1 .. Len(pulls) : pulls'[i].state = "open" =>
           pulls[i].state = "open" /\ pulls[i].branch \in branches',
         \A d \in 1 .. Len(change) : change[d].pc = "pull" => Branch(d) \in branches'
  PROVE  VInv'
<1>1. GitTypeOK /\ OpenOnce /\ OfCalls /\ Home \in repos
  BY DEF VInv
<1>2. GitTypeOK'
  BY <1>1 DEF GitTypeOK
<1>3. OpenOnce'
  BY <1>1 DEF OpenOnce, IsOpen, PullsKept
<1>4. OfCalls'
  BY <1>1 DEF OfCalls, Promoted, Scaffolded
<1>5. ASSUME NEW d \in 1 .. Len(change) PROVE ChangeOK(d)'
  <2>1. ChangeOK(d) /\ Branch(d)' = Branch(d)
    BY DEF VInv, Branch
  <2>2. change[d].pc = "pull" => Held(Branch(d))'
    BY <2>1 DEF ChangeOK, Held, IsOpen, PullsKept
  <2> QED
    BY <2>2, ChangeKept
<1>6. ASSUME NEW d \in 1 .. Len(change), NEW e \in 1 .. Len(change), d # e
      PROVE  Apart(d, e)'
  <2>1. Apart(d, e)
    BY <1>6 DEF VInv
  <2> QED
    BY <2>1 DEF Apart, Branch
<1> QED
  BY <1>1, <1>2, <1>3, <1>4, <1>5, <1>6 DEF VInv

LEMMA UsersStep ==
  ASSUME VInv, NEW i \in 1 .. Len(pulls), PassCheck(i) \/ SettlePull(i)
  PROVE  VInv'
<1>1. /\ GitTypeOK /\ OpenOnce /\ pulls[i] \in Pull /\ pulls[i].state = "open"
      /\ UNCHANGED <<repos, branches, change, promotions, scaffolds>>
  BY GitTypes DEF VInv, PassCheck, SettlePull
<1>2. PICK x \in Pull :
        /\ pulls' = [pulls EXCEPT ![i] = x] /\ x.branch = pulls[i].branch
        /\ x.tag = pulls[i].tag /\ pulls[i].passed \subseteq x.passed
  <2>1. CASE PassCheck(i)
    <3>1. PICK k \in UNION CheckSets :
            pulls' = [pulls EXCEPT ![i].passed = @ \union {k}]
      BY <2>1 DEF PassCheck
    <3>2. PICK x : x = [pulls[i] EXCEPT !.passed = @ \union {k}]
      OBVIOUS
    <3>3. /\ x.branch = pulls[i].branch /\ x.tag = pulls[i].tag
          /\ x.passed = pulls[i].passed \union {k} /\ x \in Pull
      BY <1>1, <3>2 DEF Pull, Checks
    <3> QED
      BY <1>1, <3>1, <3>2, <3>3
  <2>2. CASE SettlePull(i)
    <3>1. PICK x : x = [pulls[i] EXCEPT !.state = "settled"]
      OBVIOUS
    <3>2. /\ x.branch = pulls[i].branch /\ x.tag = pulls[i].tag
          /\ x.passed = pulls[i].passed /\ x \in Pull
      BY <1>1, <3>1 DEF Pull
    <3> QED
      BY <2>2, <3>1, <3>2 DEF SettlePull
  <2> QED
    BY <2>1, <2>2
<1>3. /\ pulls' \in Seq(Pull) /\ Len(pulls') = Len(pulls) /\ pulls'[i] = x
      /\ \A j \in 1 .. Len(pulls) : j # i => pulls'[j] = pulls[j]
  BY <1>1, <1>2 DEF GitTypeOK
<1>4. PullsKept
  BY <1>2, <1>3, GitTypes DEF PullsKept
<1>5. \A j \in 1 .. Len(pulls) : pulls'[j].state = "open" =>
        pulls[j].state = "open" /\ pulls[j].branch \in branches'
  BY <1>1, <1>3 DEF OpenOnce
<1>6. \A d \in 1 .. Len(change) : change[d].pc = "pull" => Branch(d) \in branches'
  BY <1>1 DEF VInv, ChangeOK
<1> QED
  BY <1>1, <1>3, <1>4, <1>5, <1>6, OfGitStep

LEMMA DeleteBranchStep ==
  ASSUME VInv, NEW b \in branches, DeleteBranch(b)
  PROVE  VInv'
<1>1. /\ GitTypeOK /\ OpenOnce /\ branches' = branches \ {b}
      /\ UNCHANGED <<repos, pulls, change, promotions, scaffolds>>
  BY DEF VInv, DeleteBranch
<1>2. PullsKept /\ pulls' \in Seq(Pull)
  BY <1>1, GitTypes DEF PullsKept, GitTypeOK
<1>3. \A i \in 1 .. Len(pulls) : pulls'[i].state = "open" =>
        pulls[i].state = "open" /\ pulls[i].branch \in branches'
  BY <1>1, GitTypes DEF OpenOnce, DeleteBranch
<1>4. \A d \in 1 .. Len(change) : change[d].pc = "pull" => Branch(d) \in branches'
  BY <1>1, GitTypes DEF VInv, ChangeOK, DeleteBranch
<1> QED
  BY <1>1, <1>2, <1>3, <1>4, OfGitStep

LEMMA NextVInv == VInv /\ [GitNext]_gitVars => VInv'
<1> SUFFICES ASSUME VInv, [GitNext]_gitVars PROVE VInv'
  OBVIOUS
<1>1. CASE BeginPromotion \/ BeginScaffold
  BY <1>1, BeginChangeStep
<1>2. CASE \E c \in DOMAIN change :
             \/ CreateRepo(c) \/ PushBranch(c) \/ OpenPull(c) \/ ReadChecks(c)
             \/ CommitChange(c) \/ AbandonChange(c)
  <2>1. PICK c \in 1 .. Len(change) :
          \/ CreateRepo(c) \/ PushBranch(c) \/ OpenPull(c) \/ ReadChecks(c)
          \/ CommitChange(c) \/ AbandonChange(c)
    BY <1>2, GitTypes
  <2>2. CASE AbandonChange(c)
    BY <2>2, FailStep DEF AbandonChange
  <2> QED
    BY <2>1, <2>2, CreateRepoStep, PushBranchStep, OpenPullStep, ReadChecksStep, CommitChangeStep
<1>3. CASE \E i \in DOMAIN pulls : PassCheck(i) \/ SettlePull(i)
  BY <1>3, GitTypes, UsersStep
<1>4. CASE \E b \in branches : DeleteBranch(b)
  BY <1>4, DeleteBranchStep
<1>5. CASE UNCHANGED gitVars
  <2>1. UNCHANGED <<repos, branches, pulls, change, promotions, scaffolds>>
    BY <1>5 DEF gitVars
  <2>2. PullsKept /\ pulls' \in Seq(Pull)
    BY <2>1, GitTypes DEF PullsKept, VInv, GitTypeOK
  <2>3. \A i \in 1 .. Len(pulls) : pulls[i].state = "open" => pulls[i].branch \in branches
    BY DEF VInv, OpenOnce
  <2>4. \A d \in 1 .. Len(change) : change[d].pc = "pull" => Branch(d) \in branches
    BY DEF VInv, ChangeOK
  <2> QED
    BY <2>1, <2>2, <2>3, <2>4, OfGitStep
<1> QED
  BY <1>1, <1>2, <1>3, <1>4, <1>5 DEF GitNext

\* The invariant of the changes sent to Git holds in every reachable state.
THEOREM GitInvariance == GitSpec => []VInv
<1> QED
  BY InitVInv, NextVInv, PTL DEF GitSpec

\* Repositories, branches, pull requests, calls and records keep their types.
THEOREM GitTyping == GitSpec => []GitTypeOK
<1>1. VInv => GitTypeOK
  BY DEF VInv
<1> QED
  BY <1>1, GitInvariance, PTL

\* Every promotion on record has a pull request of its own, every scaffolding its
\* repository and its pull request, however calls race, fail half way and repeat.
THEOREM ChangesBacked == GitSpec => []ChangesOwnTheirPulls
<1>1. VInv => ChangesOwnTheirPulls
  <2> SUFFICES ASSUME VInv PROVE ChangesOwnTheirPulls
    OBVIOUS
  <2>1. /\ OfCalls /\ OpenOnce /\ DOMAIN pulls = 1 .. Len(pulls)
        /\ \A c \in 1 .. Len(change) : ChangeOK(c)
        /\ \A c, d \in 1 .. Len(change) : c # d => Apart(c, d)
    BY GitTypes DEF VInv
  <2>2. ASSUME NEW r \in promotions
        PROVE  /\ pulls[r.pull].branch = <<Home, r.route>> /\ pulls[r.pull].tag = r.tag
               /\ r.status = "created" => r.required \subseteq pulls[r.pull].passed
    <3>1. PICK c \in 1 .. Len(change) :
            change[c].pc = "done" /\ change[c].kind = "promote" /\ r = Promoted(c)
      BY <2>1 DEF OfCalls
    <3>2. /\ r.pull = change[c].pull /\ r.route = change[c].subject /\ r.tag = change[c].tag
          /\ r.status = change[c].status /\ r.required = change[c].required
      BY <3>1 DEF Promoted
    <3> QED
      BY <2>1, <3>1, <3>2 DEF ChangeOK, Opened, Branch
  <2>3. ASSUME NEW r \in promotions, NEW o \in promotions, o.pull = r.pull PROVE o = r
    <3>1. /\ r.call \in 1 .. Len(change) /\ change[r.call].pc = "done" /\ r = Promoted(r.call)
          /\ o.call \in 1 .. Len(change) /\ change[o.call].pc = "done" /\ o = Promoted(o.call)
      BY <2>1 DEF OfCalls
    <3>2. r.pull = change[r.call].pull /\ o.pull = change[o.call].pull
      BY <3>1 DEF Promoted
    <3>3. r.call = o.call
      BY <2>1, <2>3, <3>1, <3>2 DEF Apart, Opened
    <3> QED
      BY <3>1, <3>3
  <2>4. PromotionOwnsItsPull
    BY <2>1, <2>2, <2>3 DEF PromotionOwnsItsPull, OpenOnce, IsOpen
  <2>5. ASSUME NEW s \in scaffolds
        PROVE  /\ s.repo \in repos /\ pulls[s.pull].branch = <<s.repo, s.service>>
               /\ s.call \in 1 .. Len(change) /\ change[s.call].pc = "done"
               /\ change[s.call].kind = "scaffold" /\ s = Scaffolded(s.call)
               /\ s.pull = change[s.call].pull /\ s.repo = change[s.call].repo
    <3>1. /\ s.call \in 1 .. Len(change) /\ change[s.call].pc = "done"
          /\ change[s.call].kind = "scaffold" /\ s = Scaffolded(s.call)
      BY <2>1 DEF OfCalls
    <3>2. /\ s.pull = change[s.call].pull /\ s.repo = change[s.call].repo
          /\ s.service = change[s.call].subject
      BY <3>1 DEF Scaffolded
    <3> QED
      BY <2>1, <3>1, <3>2 DEF ChangeOK, Opened, HasRepo, Branch
  <2>6. ASSUME NEW s \in scaffolds, NEW o \in scaffolds, o.repo = s.repo \/ o.pull = s.pull
        PROVE  o = s
    <3>1. s.call = o.call
      BY <2>1, <2>5, <2>6 DEF Apart, Opened, HasRepo
    <3> QED
      BY <2>5, <3>1
  <2>7. ASSUME NEW s \in scaffolds, NEW r \in promotions PROVE r.pull # s.pull
    <3>1. /\ r.call \in 1 .. Len(change) /\ change[r.call].pc = "done"
          /\ change[r.call].kind = "promote" /\ r = Promoted(r.call)
      BY <2>1 DEF OfCalls
    <3>2. r.pull = change[r.call].pull
      BY <3>1 DEF Promoted
    <3> QED
      BY <2>1, <2>5, <3>1, <3>2 DEF Apart, Opened
  <2>8. ScaffoldedOnce
    BY <2>5, <2>6, <2>7 DEF ScaffoldedOnce
  <2> QED
    BY <2>4, <2>8 DEF ChangesOwnTheirPulls
<1> QED
  BY <1>1, GitInvariance, PTL

--------------------------------------------------------------------------------
(* The rate limiter and the signing keys *)

\* The requests of a tenant that a process let through.
Passed(p, t) ==
  {r \in 1 .. Len(req) :
     req[r].pc # "limited" /\ req[r].process = p /\ req[r].tenant = t}

\* Those in the window that ends with a request.
UpTo(r) ==
  {q \in Passed(req[r].process, req[r].tenant) :
     q <= r /\ req[q].sent >= req[r].sent - Window}

\* A bucket holds only what was let through and, while the process keeps its memory,
\* all of it that the window now ending covers; so no window is over full.
WindowInv ==
  /\ \A r \in 1 .. Len(req) : req[r].sent <= now
  /\ \A q, r \in 1 .. Len(req) : q <= r => req[q].sent <= req[r].sent
  /\ \A p \in Processes, t \in Tenants : bucket[p][t] \subseteq Passed(p, t)
  /\ \A p \in Processes \ restarted, t \in Tenants : \A r \in Passed(p, t) :
       req[r].sent >= now - Window => r \in bucket[p][t]
  /\ \A r \in 1 .. Len(req) :
       req[r].pc # "limited" /\ req[r].process \notin restarted
       => Cardinality(UpTo(r)) <= MaxRequests
  /\ \A r \in 1 .. Len(req) : req[r].pc = "limited" =>
       Cardinality(Admitted(req[r].process, req[r].tenant, req[r].sent - Window, req[r].sent))
         >= MaxRequests

\* What the provider published at some time from f on: a key that is not there
\* was withdrawn no earlier, a key that is missing was published no earlier.
SeenFrom(f, keys) ==
  \A k \in Keys :
    /\ k \in keys /\ withdrawn[k] # Never => f <= withdrawn[k]
    /\ k \notin keys /\ issued[k] # Never /\ withdrawn[k] = Never => f <= issued[k]

FetchOK(r) ==
  req[r].pc = "fetch" => now <= req[r].at + Latency /\ SeenFrom(req[r].at, req[r].keys)

JudgedOK(r) ==
  /\ req[r].pc \in {"accepted", "unknown"} => issued[req[r].key] # Never
  /\ req[r].pc = "accepted" /\ withdrawn[req[r].key] # Never =>
       req[r].at < withdrawn[req[r].key] + (CacheSeconds + Latency)
  /\ req[r].pc = "unknown" /\ withdrawn[req[r].key] = Never =>
       req[r].at < issued[req[r].key] + (CacheSeconds + Latency)

CacheOK(p) ==
  cache[p].at # Never => cache[p].at <= now /\ SeenFrom(cache[p].at - Latency, cache[p].keys)

KeysInv ==
  /\ \A r \in 1 .. Len(req) : req[r].at <= now /\ FetchOK(r) /\ JudgedOK(r)
  /\ \A p \in Processes : CacheOK(p)

GInv == GateTypeOK /\ WindowInv /\ KeysInv

LEMMA GateTypes ==
  ASSUME GateTypeOK
  PROVE  /\ now \in Nat /\ Window \in Nat /\ MaxRequests \in Nat /\ MaxTime \in Nat
         /\ Senders \in Nat /\ Latency \in Nat /\ CacheSeconds \in Nat /\ CacheSeconds > 0
         /\ Len(req) \in Nat /\ DOMAIN req = 1 .. Len(req)
         /\ \A r \in 1 .. Len(req) :
              /\ req[r] \in Request /\ req[r].sent \in Nat /\ req[r].at \in Nat
              /\ req[r].process \in Processes /\ req[r].tenant \in Tenants
         /\ \A k \in Keys : issued[k] \in Nat \union {Never} /\ withdrawn[k] \in Nat \union {Never}
         /\ \A p \in Processes : cache[p].at \in Nat \union {Never} /\ cache[p].keys \in SUBSET Keys
         /\ Never \notin Nat
<1>1. /\ Window \in Nat /\ MaxRequests \in Nat /\ MaxTime \in Nat /\ Senders \in Nat
      /\ Latency \in Nat /\ CacheSeconds \in Nat /\ CacheSeconds > 0 /\ Never \notin Nat
  BY GateAssumption
<1>2. Times \subseteq Nat
  BY DEF Times
<1>3. now \in Nat /\ Len(req) \in Nat /\ DOMAIN req = 1 .. Len(req)
  BY <1>2 DEF GateTypeOK
<1>4. ASSUME NEW r \in 1 .. Len(req)
      PROVE  /\ req[r] \in Request /\ req[r].sent \in Nat /\ req[r].at \in Nat
             /\ req[r].process \in Processes /\ req[r].tenant \in Tenants
  <2>1. req[r] \in Request
    BY DEF GateTypeOK
  <2> QED
    BY <1>2, <2>1 DEF Request
<1>5. \A k \in Keys : issued[k] \in Nat \union {Never} /\ withdrawn[k] \in Nat \union {Never}
  BY <1>2 DEF GateTypeOK
<1>6. \A p \in Processes : cache[p].at \in Nat \union {Never} /\ cache[p].keys \in SUBSET Keys
  BY <1>2 DEF GateTypeOK
<1> QED
  BY <1>1, <1>3, <1>4, <1>5, <1>6

\* The sets of requests that are counted are finite.
LEMMA GateFinite ==
  ASSUME GateTypeOK, NEW S \in SUBSET (1 .. Len(req))
  PROVE  IsFiniteSet(S) /\ Cardinality(S) \in Nat
<1>1. IsFiniteSet(1 .. Len(req))
  BY GateTypes, FS_Interval
<1>2. IsFiniteSet(S)
  BY <1>1, FS_Subset
<1> QED
  BY <1>2, FS_CardinalityType

LEMMA InitGInv == GateInit => GInv
<1> SUFFICES ASSUME GateInit PROVE GInv
  OBVIOUS
<1>1. /\ now = 0 /\ bucket = [p \in Processes |-> [t \in Tenants |-> {}]]
      /\ cache = [p \in Processes |-> NoCache] /\ withdrawn = [k \in Keys |-> Never]
      /\ issued = [k \in Keys |-> IF k = FirstKey THEN 0 ELSE Never]
      /\ req = <<>> /\ restarted = {}
  BY DEF GateInit
<1>2. MaxRequests \in Nat /\ Cardinality({}) = 0 /\ Senders \in Nat /\ MaxTime \in Nat
  BY GateAssumption, FS_EmptySet
<1>3. \A p \in Processes, t \in Tenants : Cardinality(bucket[p][t]) <= MaxRequests
  BY <1>1, <1>2
<1>4. /\ bucket \in [Processes -> [Tenants -> SUBSET DOMAIN req]]
      /\ cache \in [Processes -> [keys : SUBSET Keys, at : Times \union {Never}]]
  BY <1>1 DEF NoCache
<1>5. issued \in [Keys -> Times \union {Never}] /\ withdrawn \in [Keys -> Times \union {Never}]
  BY <1>1, <1>2 DEF Times
<1>6. GateTypeOK
  BY <1>1, <1>2, <1>3, <1>4, <1>5 DEF GateTypeOK, Times
<1>7. WindowInv
  BY <1>1 DEF WindowInv, Passed
<1>8. KeysInv
  BY <1>1 DEF KeysInv, CacheOK, NoCache
<1> QED
  BY <1>6, <1>7, <1>8 DEF GInv

\* Steps that let no request in or out of the count.
SameRequests ==
  /\ Len(req') = Len(req)
  /\ \A r \in 1 .. Len(req) :
       /\ req'[r].process = req[r].process /\ req'[r].tenant = req[r].tenant
       /\ req'[r].sent = req[r].sent /\ (req'[r].pc = "limited" <=> req[r].pc = "limited")

LEMMA WindowKept ==
  ASSUME GInv, GateTypeOK', SameRequests, now <= now', restarted \subseteq restarted',
         \A p \in Processes, t \in Tenants :
           bucket'[p][t] \subseteq bucket[p][t] /\ (p \notin restarted' => bucket'[p][t] = bucket[p][t])
  PROVE  WindowInv'
<1>1. WindowInv /\ now \in Nat /\ now' \in Nat /\ Window \in Nat
      /\ DOMAIN req = 1 .. Len(req) /\ DOMAIN req' = 1 .. Len(req')
      /\ \A r \in 1 .. Len(req) : req[r].sent \in Nat
  BY GateTypes DEF GInv, GateTypeOK, Times
<1>2. ASSUME NEW p, NEW t PROVE Passed(p, t)' = Passed(p, t)
  BY DEF SameRequests, Passed
<1>3. ASSUME NEW p, NEW t, NEW f, NEW u
      PROVE  Admitted(p, t, f, u)' = Admitted(p, t, f, u)
  BY <1>1 DEF SameRequests, Admitted
<1>4. ASSUME NEW r \in 1 .. Len(req) PROVE UpTo(r)' = UpTo(r)
  BY <1>2, <1>4 DEF SameRequests, UpTo, Passed
<1>5. \A r \in 1 .. Len(req') : req'[r].sent <= now'
  BY <1>1 DEF WindowInv, SameRequests
<1>6. \A q, r \in 1 .. Len(req') : q <= r => req'[q].sent <= req'[r].sent
  BY <1>1 DEF WindowInv, SameRequests
<1>7. \A p \in Processes, t \in Tenants : bucket'[p][t] \subseteq Passed(p, t)'
  BY <1>1, <1>2 DEF WindowInv
<1>8. ASSUME NEW p \in Processes \ restarted', NEW t \in Tenants, NEW r \in Passed(p, t),
             req'[r].sent >= now' - Window
      PROVE  r \in bucket'[p][t]
  <2>1. req[r].sent >= now - Window
    BY <1>1, <1>8 DEF SameRequests, Passed
  <2> QED
    BY <1>1, <1>8, <2>1 DEF WindowInv
<1>9. \A r \in 1 .. Len(req') :
        req'[r].pc # "limited" /\ req'[r].process \notin restarted'
        => Cardinality(UpTo(r)') <= MaxRequests
  BY <1>1, <1>4 DEF WindowInv, SameRequests
<1>10. ASSUME NEW r \in 1 .. Len(req), req'[r].pc = "limited"
       PROVE  Cardinality(Admitted(req[r].process, req[r].tenant, req[r].sent - Window,
                                   req[r].sent)') >= MaxRequests
  <2>1. PICK p, t, f, u :
          p = req[r].process /\ t = req[r].tenant /\ f = req[r].sent - Window /\ u = req[r].sent
    OBVIOUS
  <2>2. Cardinality(Admitted(p, t, f, u)) >= MaxRequests
    BY <1>1, <1>10, <2>1 DEF WindowInv, SameRequests
  <2>3. p = req'[r].process /\ t = req'[r].tenant /\ f = req'[r].sent - Window /\ u = req'[r].sent
    BY <2>1 DEF SameRequests
  <2> QED
    BY <1>3, <2>2, <2>3
<1> QED
  BY <1>2, <1>5, <1>6, <1>7, <1>8, <1>9, <1>10 DEF WindowInv, SameRequests

LEMMA ArriveStep ==
  ASSUME GInv, Arrive
  PROVE  GInv'
<1>1. /\ GateTypeOK /\ WindowInv /\ KeysInv
      /\ UNCHANGED <<now, cache, issued, withdrawn, restarted>> /\ Len(req) < Senders
  BY DEF GInv, Arrive
<1>2. PICK p \in Processes, t \in Tenants, w \in Callers, full \in BOOLEAN :
        /\ full <=> Cardinality(Recent(p, t)) >= MaxRequests
        /\ bucket' = IF full THEN bucket
                     ELSE [bucket EXCEPT ![p][t] = Recent(p, t) \union {Len(req) + 1}]
        /\ req' = Append(req, Received(p, t, w, full))
  <2>1. PICK p \in Processes, t \in Tenants, w \in Callers :
          LET full == Cardinality(Recent(p, t)) >= MaxRequests
          IN  /\ bucket' = IF full THEN bucket
                           ELSE [bucket EXCEPT ![p][t] = Recent(p, t) \union {Len(req) + 1}]
              /\ req' = Append(req, Received(p, t, w, full))
    BY Zenon DEF Arrive
  <2>2. CASE Cardinality(Recent(p, t)) >= MaxRequests
    <3>1. bucket' = bucket /\ req' = Append(req, Received(p, t, w, TRUE))
      BY <2>1, <2>2 DEF Received
    <3> QED
      BY <2>2, <3>1
  <2>3. CASE ~(Cardinality(Recent(p, t)) >= MaxRequests)
    <3>1. /\ bucket' = [bucket EXCEPT ![p][t] = Recent(p, t) \union {Len(req) + 1}]
          /\ req' = Append(req, Received(p, t, w, FALSE))
      BY <2>1, <2>3 DEF Received
    <3> QED
      BY <2>3, <3>1
  <2> QED
    BY <2>2, <2>3
<1>3. PICK n \in Nat : n = Len(req) /\ DOMAIN req = 1 .. n
  BY <1>1, GateTypes
<1>4. PICK x : x = Received(p, t, w, full)
  OBVIOUS
<1>5. /\ x.process = p /\ x.tenant = t /\ x.sent = now /\ x.at = now
      /\ x.pc = IF full THEN "limited" ELSE "auth"
  BY <1>4 DEF Received
<1>6. x \in Request
  BY <1>1, <1>4, GateAssumption DEF Received, Request, GateTypeOK
<1>7. /\ req' \in Seq(Request) /\ Len(req') = n + 1 /\ req'[n + 1] = x /\ DOMAIN req' = 1 .. n + 1
      /\ \A r \in 1 .. n : req'[r] = req[r]
      /\ \A r \in 1 .. n + 1 : r \in 1 .. n \/ r = n + 1
  BY <1>1, <1>2, <1>3, <1>4, <1>6 DEF GateTypeOK
<1>8. PICK R : R = Recent(p, t)
  OBVIOUS
<1>9. /\ R \subseteq bucket[p][t] /\ bucket[p][t] \subseteq 1 .. n /\ n + 1 \notin R
      /\ IsFiniteSet(R) /\ Cardinality(R) \in Nat
      /\ \A r \in R : req[r].sent >= now - Window
  <2>1. bucket[p][t] \subseteq 1 .. n
    BY <1>1, <1>3 DEF GateTypeOK
  <2>2. R \subseteq bucket[p][t] /\ R \subseteq 1 .. n
    BY <1>8, <2>1 DEF Recent
  <2> QED
    BY <1>1, <1>3, <1>8, <2>1, <2>2, GateFinite DEF Recent
<1>10. ~full => Cardinality(R) < MaxRequests /\ Cardinality(R \union {n + 1}) <= MaxRequests
  <2>1. ~full => Cardinality(R) < MaxRequests
    BY <1>1, <1>2, <1>8, <1>9, GateTypes
  <2>2. Cardinality(R \union {n + 1}) = Cardinality(R) + 1
    BY <1>9, FS_AddElement
  <2> QED
    BY <1>1, <1>9, <2>1, <2>2, GateTypes
<1>11. ASSUME NEW pp \in Processes, NEW tt \in Tenants
       PROVE  IF pp = p /\ tt = t /\ ~full THEN bucket'[pp][tt] = R \union {n + 1}
              ELSE bucket'[pp][tt] = bucket[pp][tt]
  BY <1>1, <1>2, <1>3, <1>8 DEF GateTypeOK
<1>12. GateTypeOK'
  <2>1. bucket' \in [Processes -> [Tenants -> SUBSET (1 .. n + 1)]]
    <3>1. bucket \in [Processes -> [Tenants -> SUBSET (1 .. n + 1)]]
      BY <1>1, <1>3 DEF GateTypeOK
    <3>2. R \union {n + 1} \in SUBSET (1 .. n + 1)
      BY <1>9
    <3>3. CASE full
      BY <1>2, <3>1, <3>3
    <3>4. CASE ~full
      BY <1>2, <1>3, <1>8, <3>1, <3>2, <3>4
    <3> QED
      BY <3>3, <3>4
  <2>2. \A pp \in Processes, tt \in Tenants : Cardinality(bucket'[pp][tt]) <= MaxRequests
    BY <1>1, <1>10, <1>11 DEF GateTypeOK
  <2>3. Len(req') <= Senders
    BY <1>1, <1>3, <1>7, GateTypes
  <2> QED
    BY <1>1, <1>7, <2>1, <2>2, <2>3 DEF GateTypeOK, Times
<1>13. ASSUME NEW pp, NEW tt
       PROVE  Passed(pp, tt)' = IF pp = p /\ tt = t /\ ~full THEN Passed(pp, tt) \union {n + 1}
                                ELSE Passed(pp, tt)
  BY <1>3, <1>5, <1>7 DEF Passed
<1>14. \A r \in 1 .. n : req[r].sent \in Nat /\ req[r].at \in Nat
  BY <1>1, <1>3, GateTypes
<1>15. now \in Nat /\ Window \in Nat
  BY <1>1, GateTypes
<1>16. WindowInv'
  <2>1. \A r \in 1 .. Len(req') : req'[r].sent <= now'
    BY <1>1, <1>3, <1>5, <1>7, <1>14, <1>15 DEF WindowInv
  <2>2. \A q, r \in 1 .. Len(req') : q <= r => req'[q].sent <= req'[r].sent
    <3> SUFFICES ASSUME NEW q \in 1 .. n + 1, NEW r \in 1 .. n + 1, q <= r
                 PROVE  req'[q].sent <= req'[r].sent
      BY <1>7
    <3>1. CASE r = n + 1
      BY <1>1, <1>3, <1>5, <1>7, <1>14, <1>15, <3>1 DEF WindowInv
    <3>2. CASE r \in 1 .. n
      BY <1>1, <1>3, <1>7, <3>2 DEF WindowInv
    <3> QED
      BY <1>7, <3>1, <3>2
  <2>3. \A pp \in Processes, tt \in Tenants : bucket'[pp][tt] \subseteq Passed(pp, tt)'
    BY <1>1, <1>9, <1>11, <1>13 DEF WindowInv
  <2>4. ASSUME NEW pp \in Processes \ restarted, NEW tt \in Tenants, NEW r \in Passed(pp, tt)',
               req'[r].sent >= now - Window
        PROVE  r \in bucket'[pp][tt]
    <3>1. CASE r = n + 1
      <4>1. pp = p /\ tt = t /\ ~full
        BY <1>5, <1>7, <2>4, <3>1 DEF Passed
      <4> QED
        BY <1>11, <3>1, <4>1
    <3>2. CASE r # n + 1
      <4>1. r \in Passed(pp, tt) /\ req[r].sent >= now - Window
        BY <1>3, <1>7, <1>13, <2>4, <3>2 DEF Passed
      <4>2. r \in bucket[pp][tt]
        BY <1>1, <2>4, <4>1 DEF WindowInv
      <4> QED
        BY <1>8, <1>11, <4>1, <4>2 DEF Recent
    <3> QED
      BY <3>1, <3>2
  <2>5. ASSUME NEW r \in 1 .. n + 1, req'[r].pc # "limited", req'[r].process \notin restarted
        PROVE  Cardinality(UpTo(r)') <= MaxRequests
    <3>1. CASE r = n + 1
      <4>1. ~full /\ p \notin restarted
        BY <1>5, <1>7, <2>5, <3>1
      <4>2. UpTo(r)' \subseteq R \union {n + 1}
        <5> SUFFICES ASSUME NEW q \in UpTo(r)', q # n + 1 PROVE q \in R
          OBVIOUS
        <5>1. q \in Passed(p, t)' /\ req'[q].sent >= now - Window
          BY <1>5, <1>7, <3>1 DEF UpTo
        <5>2. q \in Passed(p, t) /\ q \in 1 .. n /\ req[q].sent >= now - Window
          BY <1>3, <1>7, <1>13, <4>1, <5>1 DEF Passed
        <5>3. q \in bucket[p][t]
          BY <1>1, <4>1, <5>2 DEF WindowInv
        <5> QED
          BY <1>8, <5>2, <5>3 DEF Recent
      <4>3. IsFiniteSet(R \union {n + 1})
        BY <1>9, FS_AddElement
      <4>4. /\ Cardinality(UpTo(r)') <= Cardinality(R \union {n + 1})
            /\ IsFiniteSet(UpTo(r)')
        BY <4>2, <4>3, FS_Subset
      <4>5. Cardinality(UpTo(r)') \in Nat /\ Cardinality(R \union {n + 1}) \in Nat
        BY <4>3, <4>4, FS_CardinalityType
      <4>6. Cardinality(R \union {n + 1}) <= MaxRequests
        BY <1>10, <4>1
      <4> QED
        BY <1>1, <4>4, <4>5, <4>6, GateTypes
    <3>2. CASE r \in 1 .. n
      <4>1. req'[r] = req[r]
        BY <1>7, <3>2
      <4>2. UpTo(r)' = UpTo(r)
        <5>1. PICK pp, tt : pp = req[r].process /\ tt = req[r].tenant
          OBVIOUS
        <5>2. \A q \in Passed(pp, tt)' : q <= r => q \in Passed(pp, tt)
          BY <1>3, <1>7, <3>2 DEF Passed
        <5>3. \A q \in Passed(pp, tt) : q \in Passed(pp, tt)' /\ req'[q] = req[q]
          BY <1>3, <1>7 DEF Passed
        <5>4. UpTo(r)' = {q \in Passed(pp, tt)' : q <= r /\ req'[q].sent >= req[r].sent - Window}
          BY <4>1, <5>1 DEF UpTo
        <5>5. UpTo(r) = {q \in Passed(pp, tt) : q <= r /\ req[q].sent >= req[r].sent - Window}
          BY <5>1 DEF UpTo
        <5> QED
          BY <5>2, <5>3, <5>4, <5>5
      <4>3. req[r].pc # "limited" /\ req[r].process \notin restarted
        BY <2>5, <4>1
      <4> QED
        BY <1>1, <1>3, <3>2, <4>2, <4>3 DEF WindowInv
    <3> QED
      BY <1>7, <3>1, <3>2
  <2>6. ASSUME NEW r \in 1 .. n + 1, req'[r].pc = "limited"
        PROVE  Cardinality(Admitted(req[r].process, req[r].tenant, req[r].sent - Window,
                                    req[r].sent)') >= MaxRequests
    <3>1. PICK pp, tt, f, u :
            /\ pp = req'[r].process /\ tt = req'[r].tenant
            /\ f = req'[r].sent - Window /\ u = req'[r].sent
      OBVIOUS
    <3>2. PICK A : A = {q \in 1 .. n + 1 : /\ req'[q].pc # "limited"
                          /\ req'[q].process = pp /\ req'[q].tenant = tt
                          /\ req'[q].sent \in f .. u}
      OBVIOUS
    <3>3. A = Admitted(req[r].process, req[r].tenant, req[r].sent - Window, req[r].sent)'
      BY <1>7, <3>1, <3>2 DEF Admitted
    <3>4. A \subseteq 1 .. Len(req') /\ GateTypeOK'
      BY <1>7, <1>12, <3>2
    <3>5. IsFiniteSet(A) /\ Cardinality(A) \in Nat
      <4>1. IsFiniteSet(1 .. n + 1)
        BY FS_Interval
      <4>2. IsFiniteSet(A)
        BY <1>7, <3>4, <4>1, FS_Subset
      <4> QED
        BY <4>2, FS_CardinalityType
    <3>6. CASE r = n + 1
      <4>1. full /\ pp = p /\ tt = t /\ f = now - Window /\ u = now
        BY <1>5, <1>7, <2>6, <3>1, <3>6
      <4>2. R \subseteq A
        <5> SUFFICES ASSUME NEW q \in R PROVE q \in A
          OBVIOUS
        <5>1. q \in 1 .. n /\ q \in Passed(p, t) /\ req'[q] = req[q] /\ q \in 1 .. n + 1
          BY <1>1, <1>7, <1>9 DEF WindowInv
        <5>2. req[q].sent \in f .. u
          BY <1>1, <1>3, <1>9, <1>14, <1>15, <4>1, <5>1 DEF WindowInv
        <5> QED
          BY <3>2, <4>1, <5>1, <5>2 DEF Passed
      <4>3. Cardinality(R) <= Cardinality(A)
        BY <3>5, <4>2, FS_Subset
      <4>4. Cardinality(R) >= MaxRequests
        BY <1>2, <1>8, <4>1
      <4> QED
        BY <1>1, <1>9, <3>3, <3>5, <4>3, <4>4, GateTypes
    <3>7. CASE r \in 1 .. n
      <4>1. req'[r] = req[r] /\ req[r].pc = "limited"
        BY <1>7, <2>6, <3>7
      <4>2. PICK B : B = Admitted(pp, tt, f, u)
        OBVIOUS
      <4>3. Cardinality(B) >= MaxRequests
        BY <1>1, <1>3, <3>1, <3>7, <4>1, <4>2 DEF WindowInv
      <4>4. B \subseteq A /\ B \subseteq 1 .. Len(req)
        BY <1>3, <1>7, <3>2, <4>2 DEF Admitted
      <4>5. Cardinality(B) <= Cardinality(A) /\ Cardinality(B) \in Nat
        BY <1>1, <3>5, <4>4, FS_Subset, GateFinite
      <4> QED
        BY <1>1, <3>3, <3>5, <4>3, <4>5, GateTypes
    <3> QED
      BY <1>7, <3>6, <3>7
  <2> QED
    BY <1>1, <1>7, <2>1, <2>2, <2>3, <2>4, <2>5, <2>6 DEF WindowInv
<1>17. KeysInv'
  <2>1. \A r \in 1 .. n + 1 : (req[r].at <= now /\ FetchOK(r) /\ JudgedOK(r))'
    <3> SUFFICES ASSUME NEW r \in 1 .. n + 1
                 PROVE  req'[r].at <= now /\ FetchOK(r)' /\ JudgedOK(r)'
      BY <1>1
    <3>1. CASE r = n + 1
      BY <1>5, <1>7, <1>15, <3>1 DEF FetchOK, JudgedOK
    <3>2. CASE r \in 1 .. n
      BY <1>1, <1>3, <1>7, <3>2 DEF KeysInv, FetchOK, JudgedOK, SeenFrom
    <3> QED
      BY <1>7, <3>1, <3>2
  <2>2. \A pp \in Processes : CacheOK(pp)'
    BY <1>1 DEF KeysInv, CacheOK, SeenFrom
  <2> QED
    BY <1>7, <2>1, <2>2 DEF KeysInv
<1> QED
  BY <1>12, <1>16, <1>17 DEF GInv

\* A step of one request that was let through.
LEMMA OneRequestStep ==
  ASSUME GInv, NEW r \in 1 .. Len(req), NEW x \in Request, req' = [req EXCEPT ![r] = x],
         x.process = req[r].process, x.tenant = req[r].tenant, x.sent = req[r].sent,
         x.pc # "limited", req[r].pc # "limited", x.at <= now,
         UNCHANGED <<now, bucket, issued, withdrawn, restarted>>,
         cache' \in [Processes -> [keys : SUBSET Keys, at : Times \union {Never}]],
         FetchOK(r)', JudgedOK(r)', \A p \in Processes : CacheOK(p)'
  PROVE  GInv'
<1>1. GateTypeOK /\ WindowInv /\ KeysInv /\ now \in Nat
  BY GateTypes DEF GInv
<1>2. /\ req' \in Seq(Request) /\ Len(req') = Len(req) /\ req'[r] = x
      /\ DOMAIN req' = DOMAIN req
      /\ \A q \in 1 .. Len(req) : q # r => req'[q] = req[q]
  BY <1>1 DEF GateTypeOK
<1>3. GateTypeOK'
  BY <1>1, <1>2 DEF GateTypeOK, Times
<1>4. SameRequests
  BY <1>2 DEF SameRequests
<1>5. WindowInv'
  BY <1>1, <1>3, <1>4, WindowKept
<1>6. \A q \in 1 .. Len(req) : q # r => req'[q].at <= now' /\ FetchOK(q)' /\ JudgedOK(q)'
  BY <1>1, <1>2 DEF KeysInv, FetchOK, JudgedOK, SeenFrom
<1>7. KeysInv'
  BY <1>2, <1>6 DEF KeysInv
<1> QED
  BY <1>3, <1>5, <1>7 DEF GInv

\* The verdict on a token, by keys that were read no longer ago than allowed.
LEMMA JudgeStep ==
  ASSUME GInv, NEW r \in 1 .. Len(req), req[r].pc \in {"auth", "fetch"},
         NEW f \in Int, NEW ks, SeenFrom(f, ks), now < f + (CacheSeconds + Latency),
         Judge(r, ks), UNCHANGED <<now, bucket, issued, withdrawn, restarted>>,
         cache' \in [Processes -> [keys : SUBSET Keys, at : Times \union {Never}]],
         \A p \in Processes : CacheOK(p)'
  PROVE  GInv'
<1>1. /\ GateTypeOK /\ req[r] \in Request /\ now \in Times /\ now \in Nat
      /\ CacheSeconds \in Nat /\ Latency \in Nat
  BY GateTypes DEF GInv, GateTypeOK
<1>2. PICK k \in Keys :
        /\ issued[k] # Never
        /\ req' = [req EXCEPT ![r].pc = IF k \in ks THEN "accepted" ELSE "unknown",
                              ![r].key = k, ![r].keys = {}, ![r].at = now]
  BY DEF Judge
<1>3. PICK pc \in {"accepted", "unknown"} : pc = IF k \in ks THEN "accepted" ELSE "unknown"
  OBVIOUS
<1>4. PICK x : x = [req[r] EXCEPT !.pc = pc, !.key = k, !.keys = {}, !.at = now]
  OBVIOUS
<1>5. /\ x.process = req[r].process /\ x.tenant = req[r].tenant /\ x.sent = req[r].sent
      /\ x.pc = pc /\ x.key = k /\ x.at = now
  BY <1>1, <1>4 DEF Request
<1>6. x \in Request
  BY <1>1, <1>3, <1>4 DEF Request
<1>7. req' = [req EXCEPT ![r] = x] /\ req'[r] = x
  <2>1. req' = [req EXCEPT ![r] = x]
    BY <1>2, <1>3, <1>4
  <2> QED
    BY <1>1, <2>1 DEF GateTypeOK
<1>8. issued[k] \in Nat /\ (withdrawn[k] # Never => withdrawn[k] \in Nat)
  BY <1>1, <1>2, GateTypes
<1>9. pc = "accepted" /\ withdrawn[k] # Never => now < withdrawn[k] + (CacheSeconds + Latency)
  BY <1>1, <1>3, <1>8 DEF SeenFrom
<1>10. pc = "unknown" /\ withdrawn[k] = Never => now < issued[k] + (CacheSeconds + Latency)
  BY <1>1, <1>2, <1>3, <1>8 DEF SeenFrom
<1>11. FetchOK(r)' /\ JudgedOK(r)'
  BY <1>2, <1>3, <1>5, <1>7, <1>9, <1>10 DEF FetchOK, JudgedOK
<1>12. x.at <= now /\ x.pc # "limited"
  BY <1>1, <1>3, <1>5
<1> QED
  BY <1>5, <1>6, <1>7, <1>11, <1>12, OneRequestStep

LEMMA VerifyCachedStep ==
  ASSUME GInv, NEW r \in 1 .. Len(req), VerifyCached(r)
  PROVE  GInv'
<1>1. /\ GateTypeOK /\ KeysInv /\ req[r].pc = "auth" /\ req[r].process \in Processes
      /\ UNCHANGED <<now, bucket, cache, issued, withdrawn, restarted>>
      /\ Latency \in Nat /\ CacheSeconds \in Nat /\ now \in Nat
  BY GateTypes DEF GInv, VerifyCached
<1>2. PICK p \in Processes : p = req[r].process
  BY <1>1
<1>3. PICK f, ks : f = cache[p].at - Latency /\ ks = cache[p].keys
  OBVIOUS
<1>4. cache[p].at # Never /\ now - cache[p].at < CacheSeconds /\ Judge(r, ks)
  BY <1>2, <1>3 DEF VerifyCached, Fresh
<1>5. cache[p].at \in Nat /\ SeenFrom(f, ks)
  BY <1>1, <1>3, <1>4, GateTypes DEF KeysInv, CacheOK
<1>6. f \in Int /\ now < f + (CacheSeconds + Latency)
  BY <1>1, <1>3, <1>4, <1>5
<1>7. \A q \in Processes : CacheOK(q)'
  BY <1>1 DEF KeysInv, CacheOK, SeenFrom
<1>8. cache' \in [Processes -> [keys : SUBSET Keys, at : Times \union {Never}]]
  BY <1>1 DEF GateTypeOK
<1> QED
  BY <1>1, <1>4, <1>5, <1>6, <1>7, <1>8, JudgeStep

LEMMA FetchKeysStep ==
  ASSUME GInv, NEW r \in 1 .. Len(req), FetchKeys(r)
  PROVE  GInv'
<1>1. /\ GateTypeOK /\ KeysInv /\ req[r] \in Request /\ req[r].pc = "auth"
      /\ UNCHANGED <<now, bucket, cache, issued, withdrawn, restarted>>
      /\ now \in Times /\ now \in Nat /\ Latency \in Nat
  BY GateTypes DEF GInv, GateTypeOK, FetchKeys
<1>2. PICK x : x = [req[r] EXCEPT !.pc = "fetch", !.keys = Published, !.at = now]
  OBVIOUS
<1>3. /\ x.process = req[r].process /\ x.tenant = req[r].tenant /\ x.sent = req[r].sent
      /\ x.pc = "fetch" /\ x.keys = Published /\ x.at = now
  BY <1>1, <1>2 DEF Request
<1>4. x \in Request
  BY <1>1, <1>2 DEF Request, Published
<1>5. req' = [req EXCEPT ![r] = x] /\ req'[r] = x
  <2>1. req' = [req EXCEPT ![r] = x]
    BY <1>2 DEF FetchKeys
  <2> QED
    BY <1>1, <2>1 DEF GateTypeOK
<1>6. SeenFrom(now, Published)
  BY DEF SeenFrom, Published
<1>7. FetchOK(r)' /\ JudgedOK(r)'
  BY <1>1, <1>3, <1>5, <1>6 DEF FetchOK, JudgedOK, SeenFrom
<1>8. \A p \in Processes : CacheOK(p)'
  BY <1>1 DEF KeysInv, CacheOK, SeenFrom
<1>9. cache' \in [Processes -> [keys : SUBSET Keys, at : Times \union {Never}]]
  BY <1>1 DEF GateTypeOK
<1>10. x.at <= now /\ x.pc # "limited" /\ req[r].pc # "limited"
  BY <1>1, <1>3
<1> QED
  BY <1>1, <1>3, <1>4, <1>5, <1>7, <1>8, <1>9, <1>10, OneRequestStep

LEMMA StoreKeysStep ==
  ASSUME GInv, NEW r \in 1 .. Len(req), StoreKeys(r)
  PROVE  GInv'
<1>1. /\ GateTypeOK /\ KeysInv /\ req[r] \in Request /\ req[r].pc = "fetch"
      /\ req[r].process \in Processes /\ req[r].at \in Nat
      /\ UNCHANGED <<now, bucket, issued, withdrawn, restarted>>
      /\ now \in Times /\ now \in Nat /\ Latency \in Nat /\ CacheSeconds \in Nat /\ CacheSeconds > 0
  BY GateTypes DEF GInv, GateTypeOK, StoreKeys
<1>2. PICK p \in Processes : p = req[r].process
  BY <1>1
<1>3. PICK f, ks : f = req[r].at /\ ks = req[r].keys
  OBVIOUS
<1>4. PICK e : e = [keys |-> ks, at |-> now]
  OBVIOUS
<1>5. Judge(r, ks) /\ cache' = [cache EXCEPT ![p] = e]
  BY <1>2, <1>3, <1>4 DEF StoreKeys
<1>6. f <= now /\ now <= f + Latency /\ SeenFrom(f, ks)
  BY <1>1, <1>3 DEF KeysInv, FetchOK
<1>7. e \in [keys : SUBSET Keys, at : Times \union {Never}] /\ e.at = now /\ e.keys = ks
  BY <1>1, <1>3, <1>4 DEF Request
<1>8. cache' \in [Processes -> [keys : SUBSET Keys, at : Times \union {Never}]]
  BY <1>1, <1>5, <1>7 DEF GateTypeOK
<1>9. /\ cache'[p].at = now /\ cache'[p].keys = ks
      /\ \A q \in Processes : q # p => cache'[q] = cache[q]
  BY <1>1, <1>5, <1>7 DEF GateTypeOK
<1>10. \A k \in Keys : /\ issued[k] # Never => issued[k] \in Nat
                       /\ withdrawn[k] # Never => withdrawn[k] \in Nat
  BY <1>1, GateTypes
<1>11. SeenFrom(now - Latency, ks)
  BY <1>1, <1>3, <1>6, <1>10 DEF SeenFrom
<1>12. CacheOK(p)'
  BY <1>1, <1>9, <1>11 DEF CacheOK, SeenFrom
<1>13. \A q \in Processes : q # p => CacheOK(q)'
  BY <1>1, <1>9 DEF KeysInv, CacheOK, SeenFrom
<1>14. f \in Int /\ now < f + (CacheSeconds + Latency)
  BY <1>1, <1>3, <1>6
<1> QED
  BY <1>1, <1>5, <1>6, <1>8, <1>12, <1>13, <1>14, JudgeStep

LEMMA FailFetchStep ==
  ASSUME GInv, NEW r \in 1 .. Len(req), FailFetch(r)
  PROVE  GInv'
<1>1. /\ GateTypeOK /\ KeysInv /\ req[r] \in Request /\ req[r].pc = "fetch" /\ req[r].at <= now
      /\ UNCHANGED <<now, bucket, cache, issued, withdrawn, restarted>>
  BY GateTypes DEF GInv, KeysInv, FailFetch
<1>2. PICK x : x = [req[r] EXCEPT !.pc = "failed"]
  OBVIOUS
<1>3. /\ x.process = req[r].process /\ x.tenant = req[r].tenant /\ x.sent = req[r].sent
      /\ x.pc = "failed" /\ x.at = req[r].at /\ x \in Request
  BY <1>1, <1>2 DEF Request
<1>4. req' = [req EXCEPT ![r] = x] /\ req'[r] = x
  <2>1. req' = [req EXCEPT ![r] = x]
    BY <1>2 DEF FailFetch
  <2> QED
    BY <1>1, <2>1 DEF GateTypeOK
<1>5. FetchOK(r)' /\ JudgedOK(r)'
  BY <1>3, <1>4 DEF FetchOK, JudgedOK
<1>6. \A p \in Processes : CacheOK(p)'
  BY <1>1 DEF KeysInv, CacheOK, SeenFrom
<1>7. cache' \in [Processes -> [keys : SUBSET Keys, at : Times \union {Never}]]
  BY <1>1 DEF GateTypeOK
<1> QED
  BY <1>1, <1>3, <1>4, <1>5, <1>6, <1>7, OneRequestStep

LEMMA TickStep ==
  ASSUME GInv, Tick
  PROVE  GInv'
<1>1. /\ GateTypeOK /\ KeysInv /\ now < MaxTime /\ now' = now + 1
      /\ UNCHANGED <<bucket, cache, issued, withdrawn, req, restarted>>
      /\ \A r \in DOMAIN req : req[r].pc = "fetch" => now < req[r].at + Latency
  BY DEF GInv, Tick
<1>2. /\ now \in Nat /\ MaxTime \in Nat /\ Latency \in Nat /\ DOMAIN req = 1 .. Len(req)
      /\ \A r \in 1 .. Len(req) : req[r].at \in Nat
      /\ \A p \in Processes : cache[p].at \in Nat \union {Never}
  BY <1>1, GateTypes
<1>3. GateTypeOK'
  BY <1>1, <1>2 DEF GateTypeOK, Times
<1>4. SameRequests
  BY <1>1 DEF SameRequests
<1>5. WindowInv'
  BY <1>1, <1>2, <1>3, <1>4, WindowKept
<1>6. \A r \in 1 .. Len(req) : req[r].at <= now' /\ FetchOK(r)' /\ JudgedOK(r)'
  BY <1>1, <1>2 DEF KeysInv, FetchOK, JudgedOK, SeenFrom
<1>7. \A p \in Processes : CacheOK(p)'
  BY <1>1, <1>2 DEF KeysInv, CacheOK, SeenFrom
<1>8. KeysInv'
  BY <1>1, <1>6, <1>7 DEF KeysInv
<1> QED
  BY <1>3, <1>5, <1>8 DEF GInv

LEMMA ProviderStep ==
  ASSUME GInv, NEW k \in Keys, PublishKey(k) \/ WithdrawKey(k)
  PROVE  GInv'
<1>1. /\ GateTypeOK /\ KeysInv /\ now \in Nat /\ now \in Times /\ Never \notin Nat
      /\ Latency \in Nat /\ CacheSeconds \in Nat /\ CacheSeconds > 0
      /\ UNCHANGED <<now, bucket, cache, req, restarted>>
  BY GateTypes DEF GInv, GateTypeOK, PublishKey, WithdrawKey
<1>2. /\ \/ issued[k] = Never /\ issued' = [issued EXCEPT ![k] = now] /\ withdrawn' = withdrawn
         \/ withdrawn[k] = Never /\ withdrawn' = [withdrawn EXCEPT ![k] = now] /\ issued' = issued
      /\ issued \in [Keys -> Times \union {Never}] /\ withdrawn \in [Keys -> Times \union {Never}]
  BY <1>1 DEF PublishKey, WithdrawKey, Published, GateTypeOK
<1>3. GateTypeOK'
  <2>1. issued' \in [Keys -> Times \union {Never}] /\ withdrawn' \in [Keys -> Times \union {Never}]
    BY <1>1, <1>2
  <2> QED
    BY <1>1, <2>1 DEF GateTypeOK, Times
<1>4. SameRequests
  BY <1>1 DEF SameRequests
<1>5. WindowInv'
  BY <1>1, <1>3, <1>4, WindowKept
<1>6. /\ \A v \in Keys : issued[v] # Never => issued'[v] = issued[v]
      /\ \A v \in Keys : issued'[v] # issued[v] => issued'[v] = now
      /\ \A v \in Keys : withdrawn[v] # Never => withdrawn'[v] = withdrawn[v]
      /\ \A v \in Keys : withdrawn'[v] # withdrawn[v] => withdrawn'[v] = now
  BY <1>2
<1>7. ASSUME NEW f \in Int, f <= now, NEW ks, SeenFrom(f, ks)
      PROVE  SeenFrom(f, ks)'
  BY <1>6, <1>7 DEF SeenFrom
<1>8. ASSUME NEW r \in 1 .. Len(req) PROVE req'[r].at <= now' /\ FetchOK(r)' /\ JudgedOK(r)'
  <2>1. /\ req[r] \in Request /\ req[r].at \in Nat /\ req[r].at <= now /\ FetchOK(r)
        /\ JudgedOK(r) /\ req[r].key \in Keys
    BY <1>1, GateTypes DEF KeysInv, Request
  <2>2. PICK f, ks : f = req[r].at /\ ks = req[r].keys
    OBVIOUS
  <2>3. SeenFrom(f, ks) => SeenFrom(f, ks)'
    BY <1>7, <2>1, <2>2
  <2>4. FetchOK(r)'
    BY <1>1, <2>1, <2>2, <2>3 DEF FetchOK, SeenFrom
  <2>5. PICK v \in Keys : v = req[r].key
    BY <2>1
  <2>6. JudgedOK(r)'
    <3>1. now < now + (CacheSeconds + Latency) /\ now + (CacheSeconds + Latency) \in Nat
      BY <1>1
    <3>2. req[r].at < now + (CacheSeconds + Latency)
      BY <2>1, <1>1
    <3> QED
      BY <1>1, <1>6, <2>1, <2>5, <3>2 DEF JudgedOK
  <2> QED
    BY <1>1, <2>1, <2>4, <2>6
<1>9. ASSUME NEW p \in Processes PROVE CacheOK(p)'
  <2>1. CacheOK(p) /\ cache[p].at \in Nat \union {Never}
    BY <1>1, GateTypes DEF KeysInv
  <2>2. PICK f, ks : f = cache[p].at - Latency /\ ks = cache[p].keys
    OBVIOUS
  <2>3. ASSUME cache[p].at # Never PROVE SeenFrom(f, ks)'
    <3>1. f \in Int /\ f <= now /\ SeenFrom(f, ks)
      BY <1>1, <2>1, <2>2, <2>3 DEF CacheOK
    <3> QED
      BY <1>7, <3>1
  <2> QED
    BY <1>1, <2>1, <2>2, <2>3 DEF CacheOK, SeenFrom
<1>10. KeysInv'
  BY <1>1, <1>8, <1>9 DEF KeysInv
<1> QED
  BY <1>3, <1>5, <1>10 DEF GInv

LEMMA RestartStep ==
  ASSUME GInv, NEW p \in Processes, Restart(p)
  PROVE  GInv'
<1>1. /\ GateTypeOK /\ KeysInv /\ MaxRequests \in Nat /\ now \in Nat
      /\ DOMAIN req = 1 .. Len(req) /\ Len(req) \in Nat
      /\ UNCHANGED <<now, issued, withdrawn>> /\ restarted' = restarted \union {p}
      /\ bucket' = [bucket EXCEPT ![p] = [t \in Tenants |-> {}]]
      /\ cache' = [cache EXCEPT ![p] = NoCache]
  BY GateTypes DEF GInv, Restart
<1>2. ASSUME NEW r \in 1 .. Len(req)
      PROVE  /\ req'[r] \in Request
             /\ \/ req'[r] = req[r]
                \/ req'[r] = [req[r] EXCEPT !.pc = "failed"] /\ req[r].pc # "limited"
    <2>1. req[r] \in Request
      BY <1>1, GateTypes
    <2>2. [req[r] EXCEPT !.pc = "failed"] \in Request
      BY <2>1 DEF Request
    <2>3. \/ req'[r] = req[r]
          \/ req'[r] = [req[r] EXCEPT !.pc = "failed"] /\ req[r].pc # "limited"
      BY <1>1 DEF Restart
    <2> QED
      BY <2>1, <2>2, <2>3
<1>3. ASSUME NEW r \in 1 .. Len(req)
      PROVE  /\ req'[r].process = req[r].process /\ req'[r].tenant = req[r].tenant
             /\ req'[r].sent = req[r].sent /\ req'[r].at = req[r].at
             /\ (req'[r].pc = "failed" /\ req[r].pc # "limited") \/ req'[r] = req[r]
  <2>1. req[r] \in Request
    BY <1>1, GateTypes
  <2> QED
    BY <1>2, <2>1, ZenonT(40) DEF Request
<1>4. DOMAIN req' = 1 .. Len(req) /\ req' \in Seq(Request) /\ Len(req') = Len(req)
  <2>1. req' = [r \in 1 .. Len(req) |-> req'[r]]
    BY <1>1 DEF Restart
  <2>2. req' \in [1 .. Len(req) -> Request]
    BY <1>2, <2>1
  <2> QED
    BY <1>1, <2>2
<1>5. /\ \A q \in Processes, t \in Tenants : bucket'[q][t] = IF q = p THEN {} ELSE bucket[q][t]
      /\ \A q \in Processes : cache'[q] = IF q = p THEN NoCache ELSE cache[q]
  BY <1>1 DEF GateTypeOK
<1>6. GateTypeOK'
  <2>1. \A q \in Processes, t \in Tenants : Cardinality(bucket'[q][t]) <= MaxRequests
    BY <1>1, <1>5, FS_EmptySet DEF GateTypeOK
  <2>2. bucket' \in [Processes -> [Tenants -> SUBSET DOMAIN req']]
    BY <1>1, <1>4 DEF GateTypeOK
  <2>3. cache' \in [Processes -> [keys : SUBSET Keys, at : Times \union {Never}]]
    BY <1>1 DEF GateTypeOK, NoCache
  <2> QED
    BY <1>1, <1>4, <2>1, <2>2, <2>3 DEF GateTypeOK, Times
<1>7. SameRequests
  BY <1>3, <1>4 DEF SameRequests
<1>8. WindowInv'
  BY <1>1, <1>5, <1>6, <1>7, WindowKept
<1>9. \A r \in 1 .. Len(req) : req'[r].at <= now' /\ FetchOK(r)' /\ JudgedOK(r)'
  BY <1>1, <1>3 DEF KeysInv, FetchOK, JudgedOK, SeenFrom
<1>10. \A q \in Processes : CacheOK(q)'
  BY <1>1, <1>5 DEF KeysInv, CacheOK, SeenFrom, NoCache
<1>11. KeysInv'
  BY <1>4, <1>9, <1>10 DEF KeysInv
<1> QED
  BY <1>6, <1>8, <1>11 DEF GInv

LEMMA NextGInv == GInv /\ [GateNext]_gateVars => GInv'
<1> SUFFICES ASSUME GInv, [GateNext]_gateVars PROVE GInv'
  OBVIOUS
<1>1. CASE Arrive
  BY <1>1, ArriveStep
<1>2. CASE Tick
  BY <1>2, TickStep
<1>3. CASE \E r \in DOMAIN req : VerifyCached(r) \/ FetchKeys(r) \/ StoreKeys(r) \/ FailFetch(r)
  <2>1. PICK r \in 1 .. Len(req) :
          VerifyCached(r) \/ FetchKeys(r) \/ StoreKeys(r) \/ FailFetch(r)
    BY <1>3, GateTypes DEF GInv
  <2> QED
    BY <2>1, VerifyCachedStep, FetchKeysStep, StoreKeysStep, FailFetchStep
<1>4. CASE \E k \in Keys : PublishKey(k) \/ WithdrawKey(k)
  BY <1>4, ProviderStep
<1>5. CASE \E p \in Processes : Restart(p)
  BY <1>5, RestartStep
<1>6. CASE UNCHANGED gateVars
  <2>1. UNCHANGED <<now, bucket, cache, issued, withdrawn, req, restarted>>
    BY <1>6 DEF gateVars
  <2>2. GateTypeOK'
    BY <2>1 DEF GInv, GateTypeOK, Times
  <2>3. WindowInv' /\ KeysInv'
    BY <2>1 DEF GInv, WindowInv, Passed, UpTo, Admitted, KeysInv, FetchOK, JudgedOK,
                CacheOK, SeenFrom
  <2> QED
    BY <2>2, <2>3 DEF GInv
<1> QED
  BY <1>1, <1>2, <1>3, <1>4, <1>5, <1>6 DEF GateNext

\* The invariant of the rate limiter and the signing keys holds in every reachable state.
THEOREM GateInvariance == GateSpec => []GInv
<1> QED
  BY InitGInv, NextGInv, PTL DEF GateSpec

\* The clock, buckets, caches, keys and requests keep their types, and no bucket
\* holds more stamps than the limit.
THEOREM GateTyping == GateSpec => []GateTypeOK
<1>1. GInv => GateTypeOK
  BY DEF GInv
<1> QED
  BY <1>1, GateInvariance, PTL

\* A process sees the signing keys as they were no longer ago than its cache and
\* one fetch allow: neither a withdrawn key nor a new one is misjudged for longer.
THEOREM KeysAreRecent == GateSpec => []KeyViewIsRecent
<1>1. GInv => KeyViewIsRecent
  <2> SUFFICES ASSUME GInv, NEW r \in DOMAIN req
               PROVE  LET k == req[r].key
                      IN  /\ req[r].pc = "accepted" /\ withdrawn[k] # Never =>
                               req[r].at < withdrawn[k] + (CacheSeconds + Latency)
                          /\ req[r].pc = "unknown" /\ withdrawn[k] = Never =>
                               req[r].at < issued[k] + (CacheSeconds + Latency)
    BY DEF KeyViewIsRecent
  <2>1. JudgedOK(r)
    BY GateTypes DEF GInv, KeysInv
  <2> QED
    BY <2>1 DEF JudgedOK
<1> QED
  BY <1>1, GateInvariance, PTL

\* A non-empty set of numbers up to a bound has a greatest one.
LEMMA GreatestOf ==
  ASSUME NEW n \in Nat, NEW P \in SUBSET (1 .. n), P # {}
  PROVE  \E m \in P : \A k \in P : k <= m
<1> DEFINE before == {ss \in Nat \X Nat : ss[1] < ss[2]}
           Q == {n - k : k \in P}
<1>1. IsWellFoundedOn(before, Nat)
  BY NatLessThanWellFounded, Zenon DEF OpToRel
<1>2. Q \subseteq Nat /\ Q # {}
  <2>1. \A k \in P : n - k \in Nat
    OBVIOUS
  <2> QED
    BY <2>1, Zenon
<1>3. PICK q \in Q : \A y \in Q : <<y, q>> \notin before
  <2> HIDE DEF before, Q
  <2> QED
    BY <1>1, <1>2, WFMin, Zenon
<1>4. PICK m \in P : q = n - m
  BY <1>3
<1>5. ASSUME NEW k \in P PROVE k <= m
  <2>1. k \in 1 .. n /\ m \in 1 .. n /\ n - k \in Q
    BY <1>4
  <2>2. n - k \in Nat /\ n - m \in Nat
    BY <2>1
  <2>3. <<n - k, n - m>> \notin before
    BY <1>3, <1>4, <2>1
  <2> QED
    BY <2>1, <2>2, <2>3
<1> QED
  BY <1>5

\* A process that keeps its memory lets no more through than the limit in any
\* window, and refuses only when so many were let through in the window now ending.
THEOREM WindowsAreHonest == GateSpec => []WindowIsHonest
<1>1. GInv => WindowIsHonest
  <2> SUFFICES ASSUME GInv PROVE WindowIsHonest
    OBVIOUS
  <2>1. /\ WindowInv /\ GateTypeOK /\ DOMAIN req = 1 .. Len(req) /\ Len(req) \in Nat
        /\ Window \in Nat /\ MaxRequests \in Nat
        /\ \A r \in 1 .. Len(req) : req[r].sent \in Nat
    BY GateTypes DEF GInv
  <2>2. ASSUME NEW p \in Processes \ restarted, NEW t \in Tenants, NEW f \in Times
        PROVE  Cardinality(Admitted(p, t, f, f + Window)) <= MaxRequests
    <3>1. PICK A : A = Admitted(p, t, f, f + Window)
      OBVIOUS
    <3>2. /\ A \subseteq 1 .. Len(req) /\ A \subseteq Passed(p, t) /\ f \in Nat
          /\ \A q \in A : req[q].sent \in f .. f + Window
      <4>1. f \in Nat
        BY DEF Times
      <4> QED
        BY <2>1, <3>1, <4>1 DEF Admitted, Passed
    <3>3. CASE A = {}
      <4>1. Cardinality(A) = 0
        BY <3>3, FS_EmptySet
      <4> QED
        BY <2>1, <3>1, <4>1
    <3>4. CASE A # {}
      <4>1. PICK m \in A : \A q \in A : q <= m
        BY <2>1, <3>2, <3>4, GreatestOf
      <4>2. /\ m \in 1 .. Len(req) /\ req[m].process = p /\ req[m].tenant = t
            /\ req[m].pc # "limited"
        BY <3>2 DEF Passed
      <4>3. A \subseteq UpTo(m)
        <5> SUFFICES ASSUME NEW q \in A PROVE q \in UpTo(m)
          OBVIOUS
        <5>1. req[q].sent \in f .. f + Window /\ req[m].sent \in f .. f + Window
          BY <3>2
        <5>2. req[q].sent >= req[m].sent - Window
          BY <2>1, <3>2, <5>1
        <5> QED
          BY <3>2, <4>1, <4>2, <5>2 DEF UpTo
      <4>4. UpTo(m) \subseteq 1 .. Len(req)
        BY DEF UpTo, Passed
      <4>5. /\ IsFiniteSet(UpTo(m)) /\ Cardinality(UpTo(m)) \in Nat
            /\ Cardinality(A) \in Nat
        BY <2>1, <3>2, <4>4, GateFinite
      <4>6. Cardinality(A) <= Cardinality(UpTo(m))
        BY <4>3, <4>5, FS_Subset
      <4>7. Cardinality(UpTo(m)) <= MaxRequests
        BY <2>1, <4>2 DEF WindowInv
      <4> QED
        BY <2>1, <3>1, <4>5, <4>6, <4>7
    <3> QED
      BY <3>3, <3>4
  <2>3. \A r \in DOMAIN req : req[r].pc = "limited" =>
          Cardinality(Admitted(req[r].process, req[r].tenant, req[r].sent - Window, req[r].sent))
            >= MaxRequests
    BY <2>1 DEF WindowInv
  <2> QED
    BY <2>2, <2>3 DEF WindowIsHonest
<1> QED
  BY <1>1, GateInvariance, PTL

--------------------------------------------------------------------------------
(* The modules and products of a tenant *)

\* Every template of these products was accepted by Argo CD.
Installed(products) ==
  \A p \in products : \A i \in Templates(p) : TemplateName(p, i) \in DOMAIN apps

\* A request installs what its product needs, place by place, and commits after that.
ToggleOK(q) ==
  /\ Installed(toggle[q].saw.products)
  /\ toggle[q].pc \in {"read", "install", "commit"} => toggle[q].product \in Products
  /\ toggle[q].pc = "commit" => toggle[q].op = "disable"
  /\ toggle[q].pc = "install" =>
       /\ toggle[q].todo \subseteq Templates(toggle[q].product)
       /\ \A i \in Templates(toggle[q].product) \ toggle[q].todo :
            TemplateName(toggle[q].product, i) \in DOMAIN apps

\* What a run has dealt with: an application applied, a reference noted.
DealtWith(i) ==
  /\ TenantPlan.items[i].action = "install" => TenantPlan.items[i].name \in DOMAIN apps
  /\ TenantPlan.items[i].action = "integrate" => TenantPlan.items[i].module \in onboard.refs

\* A run goes through a plan without errors; what is not left to do is dealt with.
RunOK ==
  /\ onboard.todo \subseteq Installs(TenantPlan)
  /\ onboard.pc # "idle" =>
       /\ TenantPlan.errors = {}
       /\ \A i \in Installs(TenantPlan) : i \in onboard.todo \/ DealtWith(i)
  /\ onboard.pc \in {"record", "store", "ready"} => onboard.todo = {}

\* The helm charts among the tenant's applications have its values over those of the
\* other layers.
ValuesOK ==
  \A i \in DOMAIN Catalog :
    Catalog[i].helm /\ AppName(Tenant, Catalog[i].id) \in DOMAIN apps =>
      \A k \in config.spec.overrides[Catalog[i].id] :
        apps[AppName(Tenant, Catalog[i].id)][k] = "tenant"

TInv ==
  /\ ModulesTypeOK /\ TogglesTakeEffect /\ ValuesOK /\ RunOK
  /\ Installed(metadata.products) /\ Installed(onboard.saw.products)
  /\ \A q \in Toggles : ToggleOK(q)

LEMMA PlanItems ==
  ASSUME NEW i \in Installs(TenantPlan)
  PROVE  /\ i \in DOMAIN Catalog /\ Catalog[i].id \in ModuleIds
         /\ TenantPlan.items[i] =
              Item(Catalog[i], Tenant, config.spec, config.provider,
                   CapabilityUnion(config.provider, config.report))
<1>1. PICK caps : caps = CapabilityUnion(config.provider, config.report)
  OBVIOUS
<1>2. PICK D : D = {j \in {v \in DOMAIN Catalog : Catalog[v].id \in EnabledModules(config.spec)} :
                      Action(Catalog[j], caps) # "unknown"}
  OBVIOUS
<1>3. TenantPlan.items =
        [j \in D |-> Item(Catalog[j], Tenant, config.spec, config.provider, caps)]
  BY <1>1, <1>2 DEF TenantPlan, Plan
<1>4. i \in D /\ i \in DOMAIN Catalog
  BY <1>2, <1>3 DEF Installs
<1> QED
  BY <1>1, <1>3, <1>4 DEF ModuleIds

\* Applying an application adds it or replaces it.
LEMMA Applying ==
  ASSUME NEW n, NEW v, apps' = Applied(n, v)
  PROVE  /\ DOMAIN apps' = DOMAIN apps \union {n} /\ apps'[n] = v
         /\ \A a \in DOMAIN apps : a # n => apps'[a] = apps[a]
BY DEF Applied

LEMMA InitTInv == ModulesInit => TInv
<1> SUFFICES ASSUME ModulesInit PROVE TInv
  OBVIOUS
<1>1. /\ config \in [spec : TenantSpecs, provider : Providers, report : Reports]
      /\ metadata = NoMetadata /\ wanted = NoMetadata /\ lock = Nobody /\ apps = <<>>
      /\ toggle = [q \in Toggles |-> NewToggle] /\ onboard = IdleRun /\ overlap = FALSE
  BY DEF ModulesInit
<1>2. NoMetadata \in Columns /\ NoMetadata.products = {} /\ DOMAIN apps = {}
  BY <1>1 DEF NoMetadata, Columns
<1>3. NewToggle \in Toggle /\ IdleRun \in Onboarding
  BY <1>2 DEF NewToggle, IdleRun, Toggle, Onboarding
<1>4. ModulesTypeOK
  BY <1>1, <1>2, <1>3 DEF ModulesTypeOK
<1>5. TogglesTakeEffect /\ ValuesOK
  BY <1>1, <1>2 DEF TogglesTakeEffect, ValuesOK
<1>6. RunOK /\ Installed(metadata.products) /\ Installed(onboard.saw.products)
  BY <1>1, <1>2 DEF RunOK, IdleRun, Installed
<1>7. \A q \in Toggles : ToggleOK(q)
  BY <1>1, <1>2 DEF ToggleOK, NewToggle, Installed
<1> QED
  BY <1>4, <1>5, <1>6, <1>7 DEF TInv

\* Nothing that was applied goes away.
LEMMA InstalledGrows ==
  ASSUME DOMAIN apps \subseteq DOMAIN apps', NEW S, Installed(S)
  PROVE  Installed(S)'
BY DEF Installed

\* The other requests, when one request or a run steps.
LEMMA ToggleKept ==
  ASSUME NEW q \in Toggles, ToggleOK(q), toggle'[q] = toggle[q],
         DOMAIN apps \subseteq DOMAIN apps'
  PROVE  ToggleOK(q)'
<1>1. PICK S : S = toggle[q].saw.products
  OBVIOUS
<1>2. Installed(S)'
  BY <1>1, InstalledGrows DEF ToggleOK
<1> QED
  BY <1>1, <1>2 DEF ToggleOK, Installed

\* The run, when a request steps.
LEMMA RunKept ==
  ASSUME RunOK, onboard' = onboard, config' = config, DOMAIN apps \subseteq DOMAIN apps'
  PROVE  RunOK'
BY DEF RunOK, DealtWith, TenantPlan

\* A step of one request that applies nothing.
LEMMA OneToggle ==
  ASSUME TInv, NEW q \in Toggles, NEW x \in Toggle, toggle' = [toggle EXCEPT ![q] = x],
         UNCHANGED <<config, apps, onboard>>, ToggleOK(q)',
         {metadata', wanted'} \subseteq Columns, lock' \in Toggles \union {Nobody},
         overlap' \in BOOLEAN, TogglesTakeEffect', Installed(metadata.products)'
  PROVE  TInv'
<1>1. ModulesTypeOK /\ ValuesOK /\ RunOK /\ Installed(onboard.saw.products)
      /\ \A v \in Toggles : ToggleOK(v)
  BY DEF TInv
<1>2. toggle' \in [Toggles -> Toggle] /\ \A v \in Toggles : v # q => toggle'[v] = toggle[v]
  BY <1>1 DEF ModulesTypeOK
<1>3. ModulesTypeOK'
  BY <1>1, <1>2 DEF ModulesTypeOK
<1>4. RunOK' /\ ValuesOK' /\ Installed(onboard.saw.products)'
  BY <1>1, RunKept DEF ValuesOK, Installed
<1>5. \A v \in Toggles : ToggleOK(v)'
  BY <1>1, <1>2, ToggleKept
<1> QED
  BY <1>3, <1>4, <1>5 DEF TInv

LEMMA BeginToggleStep ==
  ASSUME TInv, NEW q \in Toggles, BeginToggle(q)
  PROVE  TInv'
<1>1. /\ ModulesTypeOK /\ Installed(metadata.products) /\ TogglesTakeEffect
      /\ UNCHANGED <<config, metadata, lock, apps, onboard, wanted, overlap>>
  BY DEF TInv, BeginToggle
<1>2. PICK op \in {"enable", "disable"}, p \in Products :
        toggle' = [toggle EXCEPT ![q] =
          [NewToggle EXCEPT !.pc = "read", !.op = op, !.product = p, !.saw = metadata]]
  BY DEF BeginToggle
<1>3. PICK x : x = [NewToggle EXCEPT !.pc = "read", !.op = op, !.product = p, !.saw = metadata]
  OBVIOUS
<1>4. x.pc = "read" /\ x.product = p /\ x.saw = metadata
  BY <1>3 DEF NewToggle
<1>5. x \in Toggle
  BY <1>1, <1>3 DEF NewToggle, Toggle, ModulesTypeOK
<1>6. toggle' = [toggle EXCEPT ![q] = x] /\ toggle'[q] = x
  BY <1>1, <1>2, <1>3 DEF ModulesTypeOK
<1>7. ToggleOK(q)'
  BY <1>1, <1>4, <1>6 DEF ToggleOK, Installed
<1>8. TogglesTakeEffect' /\ Installed(metadata.products)'
  BY <1>1 DEF TogglesTakeEffect, Installed
<1> QED
  BY <1>1, <1>5, <1>6, <1>7, <1>8, OneToggle DEF ModulesTypeOK

LEMMA RefuseStep ==
  ASSUME TInv, NEW q \in Toggles, Refuse(q),
         UNCHANGED <<config, metadata, apps, onboard, wanted, overlap>>
  PROVE  TInv'
<1>1. /\ ModulesTypeOK /\ Installed(metadata.products) /\ TogglesTakeEffect /\ ToggleOK(q)
      /\ toggle[q] \in Toggle
  BY DEF TInv, ModulesTypeOK
<1>2. PICK x : x = [toggle[q] EXCEPT !.pc = "refused"]
  OBVIOUS
<1>3. x \in Toggle /\ x.pc = "refused" /\ x.saw = toggle[q].saw
  BY <1>1, <1>2 DEF Toggle
<1>4. toggle' = [toggle EXCEPT ![q] = x] /\ toggle'[q] = x
  BY <1>1, <1>2 DEF Refuse, ModulesTypeOK
<1>5. ToggleOK(q)'
  BY <1>1, <1>3, <1>4 DEF ToggleOK, Installed
<1>6. lock' \in Toggles \union {Nobody}
  BY <1>1 DEF Refuse, ModulesTypeOK
<1>7. TogglesTakeEffect' /\ Installed(metadata.products)'
  BY <1>1 DEF TogglesTakeEffect, Installed
<1> QED
  BY <1>1, <1>3, <1>4, <1>5, <1>6, <1>7, OneToggle DEF ModulesTypeOK

LEMMA FlushToggleStep ==
  ASSUME TInv, NEW q \in Toggles, FlushToggle(q)
  PROVE  TInv'
<1>1. /\ ModulesTypeOK /\ Installed(metadata.products) /\ TogglesTakeEffect /\ ToggleOK(q)
      /\ toggle[q] \in Toggle /\ toggle[q].pc = "read" /\ toggle[q].product \in Products
      /\ UNCHANGED <<config, metadata, apps, onboard, wanted, overlap>>
  BY DEF TInv, ModulesTypeOK, FlushToggle, ToggleOK
<1>2. PICK changes \in BOOLEAN :
        changes <=> Toggled(toggle[q].op, toggle[q].saw, toggle[q].product) # toggle[q].saw
  BY Zenon
<1>3. CASE Refuse(q)
  BY <1>1, <1>3, RefuseStep
<1>4. CASE ~Refuse(q)
  <2>1. PICK pc \in {"install", "commit"} :
          pc = IF toggle[q].op = "enable" THEN "install" ELSE "commit"
    OBVIOUS
  <2>2. /\ toggle' = [toggle EXCEPT ![q].pc = pc, ![q].todo = Templates(toggle[q].product)]
        /\ lock' \in {q, lock}
    BY <1>4, <2>1 DEF FlushToggle
  <2>3. Templates(toggle[q].product) \subseteq Nat
    BY <1>1, ModulesAssumption DEF Templates
  <2>4. PICK x : x = [toggle[q] EXCEPT !.pc = pc, !.todo = Templates(toggle[q].product)]
    OBVIOUS
  <2>5. /\ x.pc = pc /\ x.todo = Templates(toggle[q].product) /\ x.saw = toggle[q].saw
        /\ x.op = toggle[q].op /\ x.product = toggle[q].product
    BY <1>1, <2>4 DEF Toggle
  <2>6. x \in Toggle
    BY <1>1, <2>1, <2>3, <2>4 DEF Toggle
  <2>7. toggle' = [toggle EXCEPT ![q] = x] /\ toggle'[q] = x
    <3>1. toggle' = [toggle EXCEPT ![q] = x]
      BY <2>2, <2>4
    <3> QED
      BY <1>1, <3>1 DEF ModulesTypeOK
  <2>8. pc = "commit" => toggle[q].op = "disable"
    BY <1>1, <2>1 DEF Toggle
  <2>9. ToggleOK(q)'
    BY <1>1, <2>5, <2>7, <2>8 DEF ToggleOK, Installed
  <2>10. lock' \in Toggles \union {Nobody}
    BY <1>1, <2>2 DEF ModulesTypeOK
  <2>11. TogglesTakeEffect' /\ Installed(metadata.products)'
    BY <1>1 DEF TogglesTakeEffect, Installed
  <2> QED
    BY <1>1, <2>6, <2>7, <2>9, <2>10, <2>11, OneToggle DEF ModulesTypeOK
<1> QED
  BY <1>3, <1>4

LEMMA CommitToggleStep ==
  ASSUME TInv, NEW q \in Toggles, CommitToggle(q)
  PROVE  TInv'
<1>1. /\ ModulesTypeOK /\ Installed(metadata.products) /\ TogglesTakeEffect /\ ToggleOK(q)
      /\ toggle[q] \in Toggle /\ toggle[q].pc \in {"install", "commit"}
      /\ toggle[q].pc = "install" => toggle[q].todo = {}
      /\ toggle[q].product \in Products
      /\ UNCHANGED <<config, apps, onboard>>
  BY DEF TInv, ModulesTypeOK, CommitToggle, ToggleOK
<1>2. PICK op, p, saw : op = toggle[q].op /\ p = toggle[q].product /\ saw = toggle[q].saw
  OBVIOUS
<1>3. /\ metadata' = IF Toggled(op, saw, p) = saw THEN metadata ELSE Toggled(op, saw, p)
      /\ wanted' = Toggled(op, wanted, p) /\ overlap' = (overlap \/ metadata # saw)
      /\ toggle' = [toggle EXCEPT ![q].pc = "done"]
      /\ lock' = IF lock = q THEN Nobody ELSE lock
  BY <1>2 DEF CommitToggle
<1>4. PICK x : x = [toggle[q] EXCEPT !.pc = "done"]
  OBVIOUS
<1>5. x \in Toggle /\ x.pc = "done" /\ x.saw = saw
  BY <1>1, <1>2, <1>4 DEF Toggle
<1>6. toggle' = [toggle EXCEPT ![q] = x] /\ toggle'[q] = x
  BY <1>1, <1>3, <1>4 DEF ModulesTypeOK
<1>7. ToggleOK(q)'
  BY <1>1, <1>2, <1>5, <1>6 DEF ToggleOK, Installed
<1>8. saw \in Columns /\ metadata \in Columns /\ wanted \in Columns /\ p \in Products
      /\ op \in {"enable", "disable"}
  BY <1>1, <1>2 DEF Toggle, ModulesTypeOK
<1>9. ASSUME NEW col \in Columns
      PROVE  /\ Toggled(op, col, p) \in Columns
             /\ Toggled(op, col, p).products \subseteq col.products \union {p}
             /\ op # "enable" => Toggled(op, col, p).products \subseteq col.products
  BY <1>8 DEF Toggled, Columns
<1>10. /\ {metadata', wanted'} \subseteq Columns /\ lock' \in Toggles \union {Nobody}
       /\ overlap' \in BOOLEAN
  BY <1>1, <1>3, <1>8, <1>9 DEF ModulesTypeOK
<1>11. TogglesTakeEffect'
  BY <1>1, <1>3 DEF TogglesTakeEffect
<1>12. Installed(saw.products)
  BY <1>1, <1>2 DEF ToggleOK
<1>13. op = "enable" => \A i \in Templates(p) : TemplateName(p, i) \in DOMAIN apps
  BY <1>1, <1>2 DEF ToggleOK
<1>14. Installed(Toggled(op, saw, p).products)
  BY <1>8, <1>9, <1>12, <1>13 DEF Installed
<1>15. Installed(metadata.products)'
  <2>1. \A v \in metadata'.products : \A i \in Templates(v) : TemplateName(v, i) \in DOMAIN apps
    BY <1>1, <1>3, <1>14 DEF Installed
  <2> QED
    BY <1>1, <2>1 DEF Installed
<1> QED
  BY <1>1, <1>5, <1>6, <1>7, <1>10, <1>11, <1>15, OneToggle

LEMMA InstallTemplateStep ==
  ASSUME TInv, NEW q \in Toggles, InstallTemplate(q)
  PROVE  TInv'
<1>1. /\ ModulesTypeOK /\ Installed(metadata.products) /\ Installed(onboard.saw.products)
      /\ TogglesTakeEffect /\ ValuesOK /\ RunOK /\ ToggleOK(q) /\ toggle[q] \in Toggle
      /\ toggle[q].pc = "install" /\ toggle[q].product \in Products
      /\ \A v \in Toggles : ToggleOK(v)
      /\ UNCHANGED <<config, metadata, onboard, wanted, overlap>>
  BY DEF TInv, ModulesTypeOK, InstallTemplate, ToggleOK
<1>2. PICK p, todo : p = toggle[q].product /\ todo = toggle[q].todo
  OBVIOUS
<1> SUFFICES ASSUME ~(Refuse(q) /\ UNCHANGED apps) PROVE TInv'
  BY <1>1, RefuseStep
<1>3. PICK i \in todo :
        /\ apps' = Applied(TemplateName(p, i), <<>>)
        /\ toggle' = [toggle EXCEPT ![q].todo = @ \ {i}]
        /\ lock' = lock
  BY <1>2 DEF InstallTemplate
<1>4. PICK n : n = TemplateName(p, i)
  OBVIOUS
<1>5. /\ DOMAIN apps' = DOMAIN apps \union {n}
      /\ \A a \in DOMAIN apps : a # n => apps'[a] = apps[a]
  BY <1>3, <1>4, Applying
<1>6. todo \subseteq Templates(p) /\ n \in {Template, Shared} \X ModuleIds
      /\ \A m : AppName(Tenant, m) # n
  <2>1. todo \subseteq Templates(p) /\ i \in Templates(p)
    BY <1>1, <1>2, <1>3 DEF ToggleOK
  <2>2. TemplateOf(p, i).id \in ModuleIds
    BY <2>1 DEF Templates, TemplateOf, Module, ModuleIds
  <2>3. PICK id \in ModuleIds, w \in {Template, Shared} : n = <<w, id>>
    BY <1>4, <2>2 DEF TemplateName, Named, AppName
  <2>4. w # Tenant
    BY ModulesAssumption
  <2>5. ASSUME NEW m PROVE AppName(Tenant, m) # n
    BY <2>3, <2>4 DEF AppName
  <2> QED
    BY <2>1, <2>3, <2>5
<1>7. PICK x : x = [toggle[q] EXCEPT !.todo = @ \ {i}]
  OBVIOUS
<1>8. /\ x \in Toggle /\ x.todo = todo \ {i} /\ x.pc = "install" /\ x.product = p
      /\ x.saw = toggle[q].saw /\ x.op = toggle[q].op
  BY <1>1, <1>2, <1>7 DEF Toggle
<1>9. /\ toggle' = [toggle EXCEPT ![q] = x] /\ toggle'[q] = x
      /\ \A v \in Toggles : v # q => toggle'[v] = toggle[v]
  <2>1. toggle' = [toggle EXCEPT ![q] = x]
    BY <1>3, <1>7
  <2> QED
    BY <1>1, <2>1 DEF ModulesTypeOK
<1>10. ModulesTypeOK'
  BY <1>1, <1>3, <1>5, <1>6, <1>8, <1>9 DEF ModulesTypeOK
<1>11. TogglesTakeEffect' /\ RunOK'
  BY <1>1, <1>5, RunKept DEF TogglesTakeEffect
<1>12. ValuesOK'
  <2>1. \A m : AppName(Tenant, m) \in DOMAIN apps' =>
          /\ AppName(Tenant, m) \in DOMAIN apps
          /\ apps'[AppName(Tenant, m)] = apps[AppName(Tenant, m)]
    BY <1>5, <1>6
  <2> QED
    BY <1>1, <2>1 DEF ValuesOK
<1>13. Installed(metadata.products)' /\ Installed(onboard.saw.products)'
  <2>1. PICK S, T : S = metadata.products /\ T = onboard.saw.products
    OBVIOUS
  <2>2. Installed(S)' /\ Installed(T)'
    BY <1>1, <1>5, <2>1, InstalledGrows
  <2> QED
    BY <1>1, <2>1, <2>2 DEF Installed
<1>14. ToggleOK(q)'
  <2>1. PICK S : S = toggle[q].saw.products
    OBVIOUS
  <2>2. Installed(S)'
    BY <1>1, <1>5, <2>1, InstalledGrows DEF ToggleOK
  <2>3. Installed(toggle[q].saw.products)'
    BY <1>8, <1>9, <2>1, <2>2 DEF Installed
  <2>4. ASSUME NEW j \in Templates(p) \ x.todo PROVE TemplateName(p, j) \in DOMAIN apps'
    <3>1. CASE j = i
      BY <1>4, <1>5, <3>1
    <3>2. CASE j # i
      BY <1>1, <1>2, <1>5, <1>8, <3>2 DEF ToggleOK
    <3> QED
      BY <3>1, <3>2
  <2> QED
    BY <1>1, <1>2, <1>6, <1>8, <1>9, <2>3, <2>4 DEF ToggleOK
<1>15. \A v \in Toggles : v # q => ToggleOK(v)'
  BY <1>1, <1>5, <1>9, ToggleKept
<1> QED
  BY <1>10, <1>11, <1>12, <1>13, <1>14, <1>15 DEF TInv

\* A step of the run that applies nothing.
LEMMA OneRun ==
  ASSUME TInv, NEW x \in Onboarding, onboard' = x,
         UNCHANGED <<config, apps, toggle, lock>>, RunOK',
         {metadata', wanted'} \subseteq Columns, overlap' \in BOOLEAN,
         TogglesTakeEffect', Installed(metadata.products)', Installed(onboard.saw.products)'
  PROVE  TInv'
<1>1. ModulesTypeOK /\ ValuesOK /\ \A v \in Toggles : ToggleOK(v)
  BY DEF TInv
<1>2. ModulesTypeOK' /\ ValuesOK'
  BY <1>1 DEF ModulesTypeOK, ValuesOK
<1>3. \A v \in Toggles : ToggleOK(v)'
  BY <1>1, ToggleKept
<1> QED
  BY <1>2, <1>3 DEF TInv

LEMMA StartInstallStep ==
  ASSUME TInv, StartInstall
  PROVE  TInv'
<1>1. /\ ModulesTypeOK /\ Installed(metadata.products) /\ TogglesTakeEffect
      /\ TenantPlan.errors = {}
      /\ UNCHANGED <<config, metadata, lock, apps, toggle, wanted, overlap>>
  BY DEF TInv, StartInstall
<1>2. PICK x : x = [IdleRun EXCEPT !.pc = "install", !.todo = Installs(TenantPlan)]
  OBVIOUS
<1>3. /\ onboard' = x /\ x.pc = "install" /\ x.todo = Installs(TenantPlan)
      /\ x.saw.products = {}
  BY <1>2 DEF StartInstall, IdleRun, NoMetadata
<1>4. Installs(TenantPlan) \subseteq DOMAIN Catalog
  BY PlanItems
<1>5. x \in Onboarding
  BY <1>2, <1>4 DEF IdleRun, Onboarding, NoMetadata, Columns
<1>6. TenantPlan' = TenantPlan
  BY <1>1 DEF TenantPlan
<1>7. RunOK'
  BY <1>1, <1>3, <1>6 DEF RunOK
<1>8. TogglesTakeEffect' /\ Installed(metadata.products)' /\ Installed(onboard.saw.products)'
  BY <1>1, <1>3 DEF TogglesTakeEffect, Installed
<1> QED
  BY <1>1, <1>3, <1>5, <1>7, <1>8, OneRun DEF ModulesTypeOK

LEMMA InstallItemStep ==
  ASSUME TInv, InstallItem
  PROVE  TInv'
<1>1. /\ ModulesTypeOK /\ Installed(metadata.products) /\ Installed(onboard.saw.products)
      /\ TogglesTakeEffect /\ ValuesOK /\ RunOK /\ onboard.pc = "install"
      /\ onboard \in Onboarding /\ \A v \in Toggles : ToggleOK(v)
      /\ UNCHANGED <<config, metadata, lock, toggle, wanted, overlap>>
  BY DEF TInv, ModulesTypeOK, InstallItem
<1>2. PICK i \in onboard.todo :
        IF TenantPlan.items[i].action = "install"
        THEN /\ apps' = Applied(TenantPlan.items[i].name, TenantPlan.items[i].values)
             /\ onboard' = [onboard EXCEPT !.todo = @ \ {i}]
        ELSE /\ onboard' = [onboard EXCEPT !.todo = @ \ {i},
                                           !.refs = @ \union {TenantPlan.items[i].module}]
             /\ UNCHANGED apps
  BY DEF InstallItem
<1>3. PICK m, x : m = Catalog[i] /\ x = TenantPlan.items[i]
  OBVIOUS
<1>4. /\ i \in Installs(TenantPlan) /\ m.id \in ModuleIds /\ x.module = m.id
      /\ i \in DOMAIN Catalog /\ x.name \in {<<Tenant, m.id>>, <<Shared, m.id>>}
      /\ x.values = Values(m, config.provider, config.spec)
  <2>1. i \in Installs(TenantPlan)
    BY <1>1 DEF RunOK
  <2>2. PICK caps : caps = CapabilityUnion(config.provider, config.report)
    OBVIOUS
  <2>3. /\ i \in DOMAIN Catalog /\ m.id \in ModuleIds
        /\ x = Item(m, Tenant, config.spec, config.provider, caps)
    BY <1>3, <2>1, <2>2, PlanItems
  <2> QED
    BY <2>1, <2>3 DEF Item, Named, AppName
<1>5. PICK refs : refs = IF x.action = "install" THEN onboard.refs ELSE onboard.refs \union {m.id}
  OBVIOUS
<1>6. PICK y : y = [onboard EXCEPT !.todo = @ \ {i}, !.refs = refs]
  OBVIOUS
<1>7. /\ y \in Onboarding /\ y.todo = onboard.todo \ {i} /\ y.refs = refs
      /\ y.pc = onboard.pc /\ y.saw = onboard.saw
  <2>1. /\ onboard.todo \subseteq DOMAIN Catalog /\ onboard.refs \subseteq ModuleIds
    BY <1>1 DEF Onboarding
  <2>2. onboard.todo \ {i} \in SUBSET DOMAIN Catalog /\ refs \in SUBSET ModuleIds
    BY <1>4, <1>5, <2>1
  <2>3. /\ y.todo = onboard.todo \ {i} /\ y.refs = refs
        /\ y.pc = onboard.pc /\ y.saw = onboard.saw
    BY <1>1, <1>6 DEF Onboarding
  <2>4. y \in Onboarding
    BY <1>1, <1>6, <2>2 DEF Onboarding
  <2> QED
    BY <2>3, <2>4
<1>8. onboard' = y
  <2>1. CASE x.action = "install"
    <3>1. onboard' = [onboard EXCEPT !.todo = @ \ {i}] /\ refs = onboard.refs
      BY <1>2, <1>3, <1>5, <2>1
    <3> QED
      BY <1>1, <1>6, <3>1 DEF Onboarding
  <2>2. CASE x.action # "install"
    BY <1>2, <1>3, <1>4, <1>5, <1>6, <2>2
  <2> QED
    BY <2>1, <2>2
<1>9. /\ DOMAIN apps \subseteq DOMAIN apps'
      /\ DOMAIN apps' \subseteq DOMAIN apps \union {x.name}
      /\ \A a \in DOMAIN apps : a # x.name => apps'[a] = apps[a]
      /\ x.action = "install" => x.name \in DOMAIN apps' /\ apps'[x.name] = x.values
      /\ x.action # "install" => apps' = apps
  <2>1. CASE x.action = "install"
    <3>1. apps' = Applied(x.name, x.values)
      BY <1>2, <1>3, <2>1
    <3>2. PICK n, v : n = x.name /\ v = x.values
      OBVIOUS
    <3>3. apps' = Applied(n, v)
      BY <3>1, <3>2
    <3>4. /\ DOMAIN apps' = DOMAIN apps \union {n} /\ apps'[n] = v
          /\ \A a \in DOMAIN apps : a # n => apps'[a] = apps[a]
      BY <3>3, Applying
    <3> QED
      BY <2>1, <3>2, <3>4
  <2>2. CASE x.action # "install"
    BY <1>2, <1>3, <2>2
  <2> QED
    BY <2>1, <2>2
<1>10. ModulesTypeOK'
  BY <1>1, <1>4, <1>7, <1>8, <1>9 DEF ModulesTypeOK
<1>11. TenantPlan' = TenantPlan /\ Installs(TenantPlan)' = Installs(TenantPlan)
  BY <1>1 DEF TenantPlan, Installs
<1>12. RunOK'
  <2>1. ASSUME NEW j \in Installs(TenantPlan), j \notin y.todo
        PROVE  DealtWith(j)'
    <3>1. CASE j = i
      <4>1. x.action = "install" => x.name \in DOMAIN apps'
        BY <1>9
      <4>2. x.action = "integrate" => x.module \in y.refs
        BY <1>4, <1>5, <1>7
      <4> QED
        BY <1>3, <1>8, <1>11, <3>1, <4>1, <4>2 DEF DealtWith
    <3>2. CASE j # i
      <4>1. DealtWith(j) /\ onboard.refs \subseteq y.refs
        BY <1>1, <1>5, <1>7, <2>1, <3>2 DEF RunOK
      <4> QED
        BY <1>8, <1>9, <1>11, <4>1 DEF DealtWith
    <3> QED
      BY <3>1, <3>2
  <2> QED
    BY <1>1, <1>7, <1>8, <1>11, <2>1 DEF RunOK
<1>13. ValuesOK'
  <2> SUFFICES ASSUME NEW v \in DOMAIN Catalog, Catalog[v].helm,
                      AppName(Tenant, Catalog[v].id) \in DOMAIN apps',
                      NEW k \in config.spec.overrides[Catalog[v].id]
               PROVE  apps'[AppName(Tenant, Catalog[v].id)][k] = "tenant"
    BY <1>1 DEF ValuesOK
  <2>1. CASE AppName(Tenant, Catalog[v].id) = x.name /\ x.action = "install"
    <3>1. Catalog[v].id = m.id
      BY <1>4, <2>1 DEF AppName
    <3>2. v = i
      BY <1>3, <1>4, <3>1, ModulesAssumption
    <3>3. apps'[AppName(Tenant, Catalog[v].id)] = Merged(m, config.provider, config.spec)
      BY <1>3, <1>4, <1>9, <2>1, <3>2 DEF Values
    <3>4. Merged(m, config.provider, config.spec)[k] = "tenant"
      BY <3>1 DEF Merged
    <3> QED
      BY <3>3, <3>4
  <2>2. CASE ~(AppName(Tenant, Catalog[v].id) = x.name /\ x.action = "install")
    <3>1. AppName(Tenant, Catalog[v].id) \in DOMAIN apps
          /\ apps'[AppName(Tenant, Catalog[v].id)] = apps[AppName(Tenant, Catalog[v].id)]
      BY <1>9, <2>2
    <3> QED
      BY <1>1, <3>1 DEF ValuesOK
  <2> QED
    BY <2>1, <2>2
<1>14. TogglesTakeEffect'
  BY <1>1 DEF TogglesTakeEffect
<1>15. Installed(metadata.products)' /\ Installed(onboard.saw.products)'
  <2>1. PICK S, T : S = metadata.products /\ T = onboard.saw.products
    OBVIOUS
  <2>2. Installed(S)' /\ Installed(T)'
    BY <1>1, <1>9, <2>1, InstalledGrows
  <2> QED
    BY <1>1, <1>7, <1>8, <2>1, <2>2 DEF Installed
<1>16. \A v \in Toggles : ToggleOK(v)'
  BY <1>1, <1>9, ToggleKept
<1> QED
  BY <1>10, <1>12, <1>13, <1>14, <1>15, <1>16 DEF TInv

LEMMA ReadMetadataStep ==
  ASSUME TInv, ReadMetadata
  PROVE  TInv'
<1>1. /\ ModulesTypeOK /\ Installed(metadata.products) /\ TogglesTakeEffect /\ RunOK
      /\ onboard.pc = "install" /\ onboard.todo = {} /\ onboard \in Onboarding
      /\ metadata \in Columns
      /\ UNCHANGED <<config, metadata, lock, apps, toggle, wanted, overlap>>
  BY DEF TInv, ModulesTypeOK, ReadMetadata
<1>2. PICK pc \in {"record", "store"} : pc = IF onboard.refs = {} THEN "record" ELSE "store"
  OBVIOUS
<1>3. PICK x : x = [onboard EXCEPT !.pc = pc, !.saw = metadata]
  OBVIOUS
<1>4. /\ x \in Onboarding /\ x.pc = pc /\ x.saw = metadata /\ x.todo = onboard.todo
      /\ x.refs = onboard.refs
  BY <1>1, <1>2, <1>3 DEF Onboarding
<1>5. onboard' = x
  BY <1>2, <1>3 DEF ReadMetadata
<1>6. TenantPlan' = TenantPlan
  BY <1>1 DEF TenantPlan
<1>7. RunOK'
  BY <1>1, <1>4, <1>5, <1>6 DEF RunOK, DealtWith
<1>8. TogglesTakeEffect' /\ Installed(metadata.products)' /\ Installed(onboard.saw.products)'
  BY <1>1, <1>4, <1>5 DEF TogglesTakeEffect, Installed
<1> QED
  BY <1>1, <1>4, <1>5, <1>7, <1>8, OneRun DEF ModulesTypeOK

LEMMA StoreIntegrationsStep ==
  ASSUME TInv, StoreIntegrations
  PROVE  TInv'
<1>1. /\ ModulesTypeOK /\ Installed(metadata.products) /\ Installed(onboard.saw.products)
      /\ TogglesTakeEffect /\ RunOK /\ onboard.pc = "store" /\ onboard \in Onboarding
      /\ UNCHANGED <<config, lock, apps, toggle>>
  BY DEF TInv, ModulesTypeOK, StoreIntegrations
<1>2. PICK saw, refs : saw = onboard.saw /\ refs = onboard.refs
  OBVIOUS
<1>3. PICK new, all : /\ new = [saw EXCEPT !.integrations = refs]
                      /\ all = [wanted EXCEPT !.integrations = refs]
  OBVIOUS
<1>4. /\ metadata' = IF new = saw THEN metadata ELSE new
      /\ wanted' = all /\ overlap' = (overlap \/ metadata # saw)
      /\ onboard' = [onboard EXCEPT !.pc = "record"]
  BY <1>2, <1>3 DEF StoreIntegrations, Stored
<1>5. /\ saw \in Columns /\ wanted \in Columns /\ metadata \in Columns
      /\ refs \in SUBSET ModuleIds
  BY <1>1, <1>2 DEF Onboarding, ModulesTypeOK
<1>6. new \in Columns /\ all \in Columns /\ new.products = saw.products
  BY <1>3, <1>5 DEF Columns
<1>7. PICK x : x = [onboard EXCEPT !.pc = "record"]
  OBVIOUS
<1>8. /\ x \in Onboarding /\ x.pc = "record" /\ x.saw = saw /\ x.todo = onboard.todo
      /\ x.refs = refs /\ onboard' = x
  BY <1>1, <1>2, <1>4, <1>7 DEF Onboarding
<1>9. {metadata', wanted'} \subseteq Columns /\ overlap' \in BOOLEAN
  BY <1>1, <1>4, <1>5, <1>6 DEF ModulesTypeOK
<1>10. TenantPlan' = TenantPlan
  BY <1>1 DEF TenantPlan
<1>11. RunOK'
  BY <1>1, <1>2, <1>8, <1>10 DEF RunOK, DealtWith
<1>12. TogglesTakeEffect'
  BY <1>1, <1>3, <1>4 DEF TogglesTakeEffect
<1>13. Installed(metadata.products)'
  <2>1. metadata'.products \in {metadata.products, onboard.saw.products}
    BY <1>2, <1>4, <1>6
  <2> QED
    BY <1>1, <2>1 DEF Installed
<1>14. Installed(onboard.saw.products)'
  BY <1>1, <1>2, <1>8 DEF Installed
<1> QED
  BY <1>1, <1>8, <1>9, <1>11, <1>12, <1>13, <1>14, OneRun

LEMMA EndOfRunStep ==
  ASSUME TInv, RecordReady \/ AbortInstall
  PROVE  TInv'
<1>1. /\ ModulesTypeOK /\ Installed(metadata.products) /\ Installed(onboard.saw.products)
      /\ TogglesTakeEffect /\ RunOK /\ onboard \in Onboarding
      /\ UNCHANGED <<config, metadata, lock, apps, toggle, wanted, overlap>>
  BY DEF TInv, ModulesTypeOK, RecordReady, AbortInstall
<1>2. TogglesTakeEffect' /\ Installed(metadata.products)' /\ TenantPlan' = TenantPlan
  BY <1>1 DEF TogglesTakeEffect, Installed, TenantPlan
<1>3. CASE RecordReady
  <2>1. PICK x : x = [onboard EXCEPT !.pc = "ready"]
    OBVIOUS
  <2>2. /\ x \in Onboarding /\ x.pc = "ready" /\ x.saw = onboard.saw /\ x.todo = onboard.todo
        /\ x.refs = onboard.refs /\ onboard' = x /\ onboard.pc = "record"
    BY <1>1, <1>3, <2>1 DEF Onboarding, RecordReady
  <2>3. RunOK' /\ Installed(onboard.saw.products)'
    BY <1>1, <1>2, <2>2 DEF RunOK, DealtWith, Installed
  <2> QED
    BY <1>1, <1>2, <2>2, <2>3, OneRun DEF ModulesTypeOK
<1>4. CASE AbortInstall
  <2>1. onboard' = IdleRun /\ IdleRun \in Onboarding
    BY <1>4 DEF AbortInstall, IdleRun, Onboarding, NoMetadata, Columns
  <2>2. RunOK' /\ Installed(onboard.saw.products)'
    BY <2>1 DEF RunOK, IdleRun, NoMetadata, Installed
  <2> QED
    BY <1>1, <1>2, <2>1, <2>2, OneRun DEF ModulesTypeOK
<1> QED
  BY <1>3, <1>4

LEMMA NextTInv == TInv /\ [ModulesNext]_modulesVars => TInv'
<1> SUFFICES ASSUME TInv, [ModulesNext]_modulesVars PROVE TInv'
  OBVIOUS
<1>1. ASSUME NEW q \in Toggles,
             BeginToggle(q) \/ FlushToggle(q) \/ InstallTemplate(q) \/ AbortToggle(q)
             \/ CommitToggle(q)
      PROVE  TInv'
  <2>1. CASE AbortToggle(q)
    BY <2>1, RefuseStep DEF AbortToggle
  <2> QED
    BY <1>1, <2>1, BeginToggleStep, FlushToggleStep, InstallTemplateStep, CommitToggleStep
<1>2. CASE OnboardStep
  BY <1>2, StartInstallStep, InstallItemStep, ReadMetadataStep, StoreIntegrationsStep,
     EndOfRunStep DEF OnboardStep
<1>3. CASE UNCHANGED modulesVars
  <2>1. UNCHANGED <<config, metadata, lock, apps, toggle, onboard, wanted, overlap>>
    BY <1>3 DEF modulesVars
  <2>2. /\ ModulesTypeOK /\ RunOK /\ onboard \in Onboarding /\ TogglesTakeEffect
        /\ Installed(metadata.products) /\ Installed(onboard.saw.products)
    BY DEF TInv, ModulesTypeOK
  <2>3. RunOK'
    BY <2>1, <2>2, RunKept
  <2>4. TogglesTakeEffect' /\ Installed(metadata.products)' /\ Installed(onboard.saw.products)'
    BY <2>1, <2>2 DEF TogglesTakeEffect, Installed
  <2> QED
    BY <2>1, <2>2, <2>3, <2>4, OneRun DEF ModulesTypeOK
<1> QED
  BY <1>1, <1>2, <1>3 DEF ModulesNext

\* The invariant of the modules and products holds in every reachable state.
THEOREM ModulesInvariance == ModulesSpec => []TInv
<1> QED
  BY InitTInv, NextTInv, PTL DEF ModulesSpec

\* The column, the applications, the requests and the run keep their types.
THEOREM ModulesTyping == ModulesSpec => []ModulesTypeOK
<1>1. TInv => ModulesTypeOK
  BY DEF TInv
<1> QED
  BY <1>1, ModulesInvariance, PTL

\* Whatever fails or rolls back and whoever writes the column, a product that is
\* enabled had all its templates accepted by Argo CD.
THEOREM EnabledIsInstalled == ModulesSpec => []EnabledWasInstalled
<1>1. TInv => EnabledWasInstalled
  BY DEF TInv, EnabledWasInstalled, Installed
<1> QED
  BY <1>1, ModulesInvariance, PTL

\* Writers of the column that do not overlap lose nothing of each other.
THEOREM EffectsAreKept == ModulesSpec => []TogglesTakeEffect
<1>1. TInv => TogglesTakeEffect
  BY DEF TInv
<1> QED
  BY <1>1, ModulesInvariance, PTL

\* A tenant that is READY has every module it was to get, under the name that the
\* module's template gives it; in helm charts of its own its values have won.
THEOREM ReadyIsComplete == ModulesSpec => []ReadyHasItsModules
<1>1. TInv => ReadyHasItsModules
  <2> SUFFICES ASSUME TInv, onboard.pc = "ready",
                      NEW v \in EnabledModules(config.spec) \cap ModuleIds
               PROVE  LET m == Module(v)
                          caps == CapabilityUnion(config.provider, config.report)
                      IN  /\ m.adapters \subseteq Adapters /\ CapabilitiesMatch(m.needs, caps)
                          /\ m.type = "INSTALL" =>
                               /\ Named(m, Tenant) \in DOMAIN apps
                               /\ m.helm /\ m.naming # "fixed" =>
                                    \A k \in config.spec.overrides[v] :
                                      apps[Named(m, Tenant)][k] = "tenant"
                          /\ m.type = "INTEGRATE" => v \in onboard.refs
    BY DEF ReadyHasItsModules
  <2>1. /\ RunOK /\ ValuesOK /\ TenantPlan.errors = {}
        /\ \A i \in Installs(TenantPlan) : DealtWith(i)
    BY DEF TInv, RunOK
  <2>2. PICK i \in DOMAIN Catalog : Catalog[i].id = v /\ Module(v) = Catalog[i]
    BY DEF ModuleIds, Module
  <2>3. PICK m, caps : m = Catalog[i] /\ caps = CapabilityUnion(config.provider, config.report)
    OBVIOUS
  <2>4. Action(m, caps) \notin {"error", "unknown"}
    <3>1. ASSUME Action(m, caps) \in {"error", "unknown"} PROVE v \in TenantPlan.errors
      BY <2>2, <2>3, <3>1 DEF TenantPlan, Plan
    <3> QED
      BY <2>1, <3>1
  <2>5. /\ m.adapters \subseteq Adapters /\ CapabilitiesMatch(m.needs, caps)
        /\ m.type = "INSTALL" => Action(m, caps) = "install"
        /\ m.type = "INTEGRATE" => Action(m, caps) = "integrate"
    BY <2>4 DEF Action
  <2>6. ASSUME Action(m, caps) \in {"install", "integrate"}
        PROVE  /\ DealtWith(i) /\ TenantPlan.items[i].action = Action(m, caps)
               /\ TenantPlan.items[i].name = Named(m, Tenant)
               /\ TenantPlan.items[i].module = v
    <3>1. i \in DOMAIN TenantPlan.items
          /\ TenantPlan.items[i] = Item(m, Tenant, config.spec, config.provider, caps)
      BY <2>2, <2>3, <2>6 DEF TenantPlan, Plan
    <3>2. /\ TenantPlan.items[i].action = Action(m, caps)
          /\ TenantPlan.items[i].name = Named(m, Tenant) /\ TenantPlan.items[i].module = v
      BY <2>2, <2>3, <3>1 DEF Item
    <3> QED
      BY <2>1, <2>6, <3>1, <3>2 DEF Installs
  <2>7. m.type = "INSTALL" => Named(m, Tenant) \in DOMAIN apps
    BY <2>5, <2>6 DEF DealtWith
  <2>8. m.type = "INTEGRATE" => v \in onboard.refs
    BY <2>5, <2>6 DEF DealtWith
  <2>9. ASSUME m.type = "INSTALL", m.helm, m.naming # "fixed",
               NEW k \in config.spec.overrides[v]
        PROVE  apps[Named(m, Tenant)][k] = "tenant"
    <3>1. Named(m, Tenant) = AppName(Tenant, v)
      BY <2>2, <2>3, <2>9 DEF Named
    <3> QED
      BY <2>1, <2>2, <2>3, <2>7, <2>9, <3>1 DEF ValuesOK
  <2> QED
    BY <2>2, <2>3, <2>5, <2>7, <2>8, <2>9
<1> QED
  BY <1>1, ModulesInvariance, PTL

--------------------------------------------------------------------------------
(* Paged listings *)

\* A reader may see the rows of a tenant.
MaySee(q, t) ==
  IF kind = "global" THEN t \in TenantScope(reader[q].by, RowTenants)
  ELSE HasPermission(reader[q].by, ReadPermission, t)

GotOK(q) == \A r \in reader[q].got : r \in 1 .. Len(rows) /\ MaySee(q, rows[r].tenant)

BegunOK(q) ==
  reader[q].pc \in {"start", "read"} =>
    /\ reader[q].tenant \in RowTenants
    /\ kind # "global" => MaySee(q, reader[q].tenant)

\* Who reads a listing that is newest first from its start, in pages as they are
\* allowed, while no row is disabled.
InOrder(q) ==
  /\ kind \in {"recent", "audit", "active"} /\ ~reader[q].shrunk
  /\ reader[q].start = 0 /\ reader[q].limit \in 1 .. PageCap

Above(q, r) == {v \in Visible(q) : v > r}

\* A row that was there at first and was not got yet is still to come: at least as
\* many rows are above it as the next page leaves out.
StillToCome(q) ==
  InOrder(q) =>
    /\ reader[q].pc = "start" => reader[q].offset = 0
    /\ reader[q].pc = "read" =>
         /\ reader[q].offset >= 0
         /\ \A r \in reader[q].first \ reader[q].got :
              r \in Visible(q) /\ Cardinality(Above(q, r)) >= reader[q].offset
    /\ reader[q].pc = "done" => reader[q].first \subseteq reader[q].got

LInv ==
  /\ ListTypeOK
  /\ \A q \in Readers : GotOK(q) /\ BegunOK(q) /\ StillToCome(q)

LEMMA ListTypes ==
  ASSUME ListTypeOK
  PROVE  /\ Len(rows) \in Nat /\ DOMAIN rows = 1 .. Len(rows) /\ Len(rows) <= MaxRows
         /\ MaxRows \in Nat /\ PageCap \in Nat /\ PageCap > 0
         /\ \A r \in 1 .. Len(rows) :
              rows[r] \in [state : {"flushed", "shown", "gone"}, tenant : RowTenants]
         /\ \A q \in Readers : reader[q] \in Reader
<1>1. PICK R : R = [state : {"flushed", "shown", "gone"}, tenant : RowTenants]
  OBVIOUS
<1>2. rows \in Seq(R)
  BY <1>1 DEF ListTypeOK
<1>3. /\ Len(rows) \in Nat /\ DOMAIN rows = 1 .. Len(rows)
      /\ \A r \in 1 .. Len(rows) : rows[r] \in R
  BY <1>2
<1>4. MaxRows \in Nat /\ PageCap \in Nat /\ PageCap > 0
  BY ListAssumption
<1>5. Len(rows) <= MaxRows /\ \A q \in Readers : reader[q] \in Reader
  BY DEF ListTypeOK
<1> QED
  BY <1>1, <1>3, <1>4, <1>5

\* What a reader can see is a finite set of rows.
LEMMA VisibleFinite ==
  ASSUME ListTypeOK, NEW q, NEW S \in SUBSET Visible(q)
  PROVE  S \subseteq 1 .. Len(rows) /\ IsFiniteSet(S) /\ Cardinality(S) \in Nat
<1>1. S \subseteq 1 .. Len(rows)
  BY ListTypes DEF Visible
<1>2. IsFiniteSet(1 .. Len(rows))
  BY ListTypes, FS_Interval
<1>3. IsFiniteSet(S)
  BY <1>1, <1>2, FS_Subset
<1> QED
  BY <1>1, <1>3, FS_CardinalityType

LEMMA InitLInv == ListInit => LInv
<1> SUFFICES ASSUME ListInit PROVE LInv
  OBVIOUS
<1>1. /\ kind \in {"recent", "audit", "active", "plain", "global"} /\ rows = <<>>
      /\ reader = [q \in Readers |-> NewReader]
  BY DEF ListInit
<1>2. NewReader \in Reader
  BY ListAssumption DEF NewReader, Reader
<1>3. ListTypeOK
  BY <1>1, <1>2, ListAssumption DEF ListTypeOK
<1>4. \A q \in Readers : reader[q].pc = "new" /\ reader[q].got = {}
  BY <1>1 DEF NewReader
<1> QED
  BY <1>3, <1>4 DEF LInv, GotOK, BegunOK, StillToCome

\* Rows stay, with their tenants.
RowsKept ==
  /\ Len(rows) <= Len(rows')
  /\ \A r \in 1 .. Len(rows) : rows'[r].tenant = rows[r].tenant

\* A reader that does not read may fail, or learn that rows were disabled.
SameReading(q) ==
  /\ reader'[q].by = reader[q].by /\ reader'[q].tenant = reader[q].tenant
  /\ reader'[q].limit = reader[q].limit /\ reader'[q].start = reader[q].start
  /\ reader'[q].offset = reader[q].offset /\ reader'[q].first = reader[q].first
  /\ reader'[q].got = reader[q].got /\ reader'[q].pc \in {reader[q].pc, "failed"}
  /\ ~reader'[q].shrunk => ~reader[q].shrunk

LEMMA ReaderKept ==
  ASSUME LInv, ListTypeOK', NEW q \in Readers, SameReading(q), RowsKept, kind' = kind,
         reader'[q].pc = "read" /\ ~reader'[q].shrunk => Visible(q) \subseteq Visible(q)'
  PROVE  GotOK(q)' /\ BegunOK(q)' /\ StillToCome(q)'
<1>1. /\ ListTypeOK /\ GotOK(q) /\ BegunOK(q) /\ StillToCome(q)
      /\ Len(rows) \in Nat /\ Len(rows') \in Nat
  BY ListTypes DEF LInv, ListTypeOK
<1>2. GotOK(q)' /\ BegunOK(q)'
  BY <1>1 DEF GotOK, BegunOK, MaySee, SameReading, RowsKept
<1>3. ASSUME reader'[q].pc = "read", InOrder(q)', NEW r \in reader[q].first \ reader[q].got
      PROVE  r \in Visible(q)' /\ Cardinality(Above(q, r)') >= reader[q].offset
  <2>1. InOrder(q) /\ reader[q].pc = "read" /\ Visible(q) \subseteq Visible(q)'
    BY <1>3 DEF InOrder, SameReading
  <2>2. r \in Visible(q) /\ Cardinality(Above(q, r)) >= reader[q].offset
    BY <1>1, <1>3, <2>1 DEF StillToCome
  <2>3. Above(q, r) \subseteq Above(q, r)'
    BY <2>1 DEF Above
  <2>4. IsFiniteSet(Above(q, r)') /\ Cardinality(Above(q, r)') \in Nat
    <3>1. Above(q, r)' \subseteq 1 .. Len(rows')
      <4>1. DOMAIN rows' = 1 .. Len(rows')
        BY DEF ListTypeOK
      <4> QED
        BY <4>1 DEF Above, Visible
    <3>2. IsFiniteSet(1 .. Len(rows'))
      <4>1. PICK m \in Nat : m = Len(rows')
        BY <1>1
      <4> QED
        BY <4>1, FS_Interval
    <3>3. IsFiniteSet(Above(q, r)')
      BY <3>1, <3>2, FS_Subset
    <3> QED
      BY <3>3, FS_CardinalityType
  <2>5. Cardinality(Above(q, r)) <= Cardinality(Above(q, r)')
    BY <2>3, <2>4, FS_Subset
  <2>6. Cardinality(Above(q, r)) \in Nat /\ reader[q].offset \in Int
    BY <1>1, VisibleFinite, ListTypes DEF Above, Reader
  <2> QED
    BY <2>1, <2>2, <2>4, <2>5, <2>6
<1>4. StillToCome(q)'
  BY <1>1, <1>3 DEF StillToCome, InOrder, SameReading
<1> QED
  BY <1>2, <1>4

LEMMA CreateRowStep ==
  ASSUME LInv, CreateRow
  PROVE  LInv'
<1>1. ListTypeOK /\ Len(rows) < MaxRows /\ UNCHANGED <<kind, reader>>
  BY DEF LInv, CreateRow
<1>2. PICK t \in RowTenants : rows' = Append(rows, [state |-> "flushed", tenant |-> t])
  BY DEF CreateRow, Flushed
<1>3. PICK n \in Nat : n = Len(rows) /\ DOMAIN rows = 1 .. n
  BY <1>1, ListTypes
<1>4. PICK x : x = [state |-> "flushed", tenant |-> t]
  OBVIOUS
<1>5. /\ rows' \in Seq([state : {"flushed", "shown", "gone"}, tenant : RowTenants])
      /\ Len(rows') = n + 1 /\ DOMAIN rows' = 1 .. n + 1
      /\ \A r \in 1 .. n : rows'[r] = rows[r]
  BY <1>1, <1>2, <1>3, <1>4 DEF ListTypeOK
<1>6. ListTypeOK' /\ RowsKept
  BY <1>1, <1>3, <1>5, ListTypes DEF ListTypeOK, RowsKept
<1>7. \A q \in Readers : Visible(q) \subseteq Visible(q)' /\ SameReading(q)
  BY <1>1, <1>3, <1>5 DEF Visible, SameReading
<1> QED
  BY <1>1, <1>6, <1>7, ReaderKept DEF LInv

LEMMA CommitRowStep ==
  ASSUME LInv, NEW r \in 1 .. Len(rows), CommitRow(r)
  PROVE  LInv'
<1>1. /\ ListTypeOK /\ UNCHANGED <<kind, reader>> /\ rows[r].state = "flushed"
      /\ rows[r] \in [state : {"flushed", "shown", "gone"}, tenant : RowTenants]
      /\ Len(rows) \in Nat /\ DOMAIN rows = 1 .. Len(rows)
  BY ListTypes DEF LInv, CommitRow
<1>2. PICK x : x = [rows[r] EXCEPT !.state = "shown"]
  OBVIOUS
<1>3. /\ x \in [state : {"flushed", "shown", "gone"}, tenant : RowTenants]
      /\ x.tenant = rows[r].tenant /\ x.state = "shown" /\ rows' = [rows EXCEPT ![r] = x]
  BY <1>1, <1>2 DEF CommitRow
<1>4. /\ rows' \in Seq([state : {"flushed", "shown", "gone"}, tenant : RowTenants])
      /\ Len(rows') = Len(rows) /\ DOMAIN rows' = 1 .. Len(rows) /\ rows'[r] = x
      /\ \A i \in 1 .. Len(rows) : i # r => rows'[i] = rows[i]
  BY <1>1, <1>3 DEF ListTypeOK
<1>5. ListTypeOK' /\ RowsKept
  BY <1>1, <1>3, <1>4 DEF ListTypeOK, RowsKept
<1>6. \A q \in Readers : Visible(q) \subseteq Visible(q)' /\ SameReading(q)
  BY <1>1, <1>3, <1>4 DEF Visible, SameReading
<1> QED
  BY <1>1, <1>5, <1>6, ReaderKept DEF LInv

LEMMA RowGoneStep ==
  ASSUME LInv, NEW r \in 1 .. Len(rows), RollBackRow(r) \/ DisableRow(r)
  PROVE  LInv'
<1>1. /\ ListTypeOK /\ kind' = kind
      /\ rows[r] \in [state : {"flushed", "shown", "gone"}, tenant : RowTenants]
      /\ Len(rows) \in Nat /\ DOMAIN rows = 1 .. Len(rows)
  BY ListTypes DEF LInv, RollBackRow, DisableRow
<1>2. PICK x : x = [rows[r] EXCEPT !.state = "gone"]
  OBVIOUS
<1>3. /\ x \in [state : {"flushed", "shown", "gone"}, tenant : RowTenants]
      /\ x.tenant = rows[r].tenant /\ x.state = "gone" /\ rows' = [rows EXCEPT ![r] = x]
  BY <1>1, <1>2 DEF RollBackRow, DisableRow
<1>4. /\ rows' \in Seq([state : {"flushed", "shown", "gone"}, tenant : RowTenants])
      /\ Len(rows') = Len(rows) /\ DOMAIN rows' = 1 .. Len(rows) /\ rows'[r] = x
      /\ \A i \in 1 .. Len(rows) : i # r => rows'[i] = rows[i]
  BY <1>1, <1>3 DEF ListTypeOK
<1>5. RowsKept
  BY <1>1, <1>3, <1>4 DEF RowsKept
<1>6. CASE RollBackRow(r)
  <2>1. reader' = [q \in Readers |->
          IF reader[q].own = r THEN [reader[q] EXCEPT !.pc = "failed"] ELSE reader[q]]
    BY <1>6 DEF RollBackRow
  <2>2. ASSUME NEW q \in Readers PROVE reader'[q] \in Reader /\ SameReading(q)
    <3>1. reader[q] \in Reader /\ [reader[q] EXCEPT !.pc = "failed"] \in Reader
      BY <1>1, ListTypes, SMTT(30) DEF Reader
    <3>2. CASE reader[q].own = r
      BY <2>1, <3>1, <3>2 DEF Reader, SameReading
    <3>3. CASE reader[q].own # r
      BY <2>1, <3>1, <3>3 DEF SameReading
    <3> QED
      BY <3>2, <3>3
  <2>3. ListTypeOK'
    <3>1. reader' \in [Readers -> Reader]
      BY <2>1, <2>2
    <3> QED
      BY <1>1, <1>4, <3>1 DEF ListTypeOK
  <2>4. ASSUME NEW q \in Readers PROVE Visible(q) \subseteq Visible(q)'
    <3>1. r \notin Visible(q) /\ reader'[q].by = reader[q].by
          /\ reader'[q].tenant = reader[q].tenant
      BY <1>6, <2>2 DEF Visible, RollBackRow, SameReading
    <3> QED
      BY <1>1, <1>4, <3>1 DEF Visible
  <2> QED
    BY <1>1, <1>5, <2>2, <2>3, <2>4, ReaderKept DEF LInv
<1>7. CASE DisableRow(r)
  <2>1. reader' = [q \in Readers |->
          [reader[q] EXCEPT !.shrunk = @ \/ reader[q].pc = "read"]]
    BY <1>7 DEF DisableRow
  <2>2. ASSUME NEW q \in Readers
        PROVE  /\ reader'[q] \in Reader /\ SameReading(q)
               /\ reader'[q].pc = "read" => reader'[q].shrunk
    <3>1. reader[q] \in Reader /\ reader[q].shrunk \in BOOLEAN
      BY <1>1, ListTypes DEF Reader
    <3>2. PICK b \in BOOLEAN : b <=> (reader[q].shrunk \/ reader[q].pc = "read")
      BY Zenon
    <3>3. b = (reader[q].shrunk \/ reader[q].pc = "read")
      BY <3>1, <3>2
    <3>4. reader'[q] = [reader[q] EXCEPT !.shrunk = b]
      BY <2>1, <3>3
    <3>5. /\ reader'[q] \in Reader /\ reader'[q].shrunk = b
          /\ reader'[q].pc = reader[q].pc
      BY <3>1, <3>2, <3>4 DEF Reader
    <3>6. /\ reader'[q].by = reader[q].by /\ reader'[q].tenant = reader[q].tenant
          /\ reader'[q].limit = reader[q].limit /\ reader'[q].start = reader[q].start
          /\ reader'[q].offset = reader[q].offset /\ reader'[q].first = reader[q].first
          /\ reader'[q].got = reader[q].got
      BY <3>1, <3>4 DEF Reader
    <3> QED
      BY <3>2, <3>5, <3>6 DEF SameReading
  <2>3. ListTypeOK'
    <3>1. reader' \in [Readers -> Reader]
      BY <2>1, <2>2
    <3> QED
      BY <1>1, <1>4, <3>1 DEF ListTypeOK
  <2> QED
    BY <1>1, <1>5, <2>2, <2>3, ReaderKept DEF LInv
<1> QED
  BY <1>6, <1>7

LEMMA BeginReadingStep ==
  ASSUME LInv, NEW q \in Readers, BeginReading(q)
  PROVE  LInv'
<1>1. ListTypeOK /\ UNCHANGED <<kind, rows>> /\ MaxRows \in Nat
  BY ListTypes DEF LInv, BeginReading
<1>2. PICK a \in Accounts, t \in RowTenants, n \in Limits, o \in {-1, 0} :
        /\ kind = "global" \/ HasPermission(a, ReadPermission, t)
        /\ reader' = [reader EXCEPT ![q] =
             [NewReader EXCEPT !.pc = "start", !.by = a, !.tenant = t, !.limit = n,
                               !.start = o, !.offset = o]]
  BY DEF BeginReading
<1>3. PICK x : x = [NewReader EXCEPT !.pc = "start", !.by = a, !.tenant = t, !.limit = n,
                                     !.start = o, !.offset = o]
  OBVIOUS
<1>4. /\ x.pc = "start" /\ x.by = a /\ x.tenant = t /\ x.start = o /\ x.offset = o
      /\ x.got = {} /\ x.first = {}
  BY <1>3 DEF NewReader
<1>5. x \in Reader
  <2>1. /\ n \in Int /\ o \in Int /\ 0 \in 0 .. MaxRows /\ {} \in SUBSET (1 .. MaxRows)
        /\ a \in Accounts \union {Unnamed} /\ t \in RowTenants \union {Unnamed}
    BY <1>1, ListAssumption
  <2>2. x = [pc |-> "start", by |-> a, tenant |-> t, limit |-> n, start |-> o, offset |-> o,
             first |-> {}, got |-> {}, own |-> 0, shrunk |-> FALSE]
    BY <1>3 DEF NewReader
  <2> QED
    BY <2>1, <2>2 DEF Reader
<1>6. /\ reader' = [reader EXCEPT ![q] = x] /\ reader' \in [Readers -> Reader]
      /\ reader'[q] = x /\ \A v \in Readers : v # q => reader'[v] = reader[v]
  <2>1. reader' = [reader EXCEPT ![q] = x]
    BY <1>2, <1>3
  <2> QED
    BY <1>1, <1>5, <2>1 DEF ListTypeOK
<1>7. ListTypeOK' /\ RowsKept
  BY <1>1, <1>6, ListTypes DEF ListTypeOK, RowsKept
<1>8. GotOK(q)' /\ BegunOK(q)' /\ StillToCome(q)'
  BY <1>1, <1>2, <1>4, <1>6 DEF GotOK, BegunOK, MaySee, StillToCome, InOrder
<1>9. \A v \in Readers : v # q => Visible(v) \subseteq Visible(v)' /\ SameReading(v)
  BY <1>1, <1>6 DEF Visible, SameReading
<1> QED
  BY <1>1, <1>7, <1>8, <1>9, ReaderKept DEF LInv

\* A page is a slice of the list: at least one row long, and within the list.
LEMMA PageRows ==
  ASSUME NEW S, NEW list \in Seq(S), NEW o \in Int, NEW n \in Int, PageCap \in Nat \ {0}
  PROVE  /\ ToSet(Page(list, o, n)) \subseteq S
         /\ \A j \in Index(o, Len(list)) + 1 .. Index(o + PageSize(n), Len(list)) :
              list[j] \in ToSet(Page(list, o, n))
<1>1. Len(list) \in Nat /\ \A i \in 1 .. Len(list) : list[i] \in S
  OBVIOUS
<1>2. PageSize(n) \in Nat
  BY DEF PageSize
<1>3. \A i \in Int : Index(i, Len(list)) \in 0 .. Len(list)
  BY <1>1 DEF Index
<1>4. PICK a, b : a = Index(o, Len(list)) + 1 /\ b = Index(o + PageSize(n), Len(list))
  OBVIOUS
<1>5. a \in Int /\ b \in Int /\ a >= 1 /\ b <= Len(list)
  <2>1. PICK k \in Int : k = o + PageSize(n)
    BY <1>2
  <2>2. Index(o, Len(list)) \in 0 .. Len(list) /\ Index(k, Len(list)) \in 0 .. Len(list)
    BY <1>3
  <2> QED
    BY <1>1, <1>4, <2>1, <2>2
<1>6. \A i \in a .. b : list[i] \in S
  BY <1>1, <1>5
<1>7. PICK page : page = SubSeq(list, a, b)
  OBVIOUS
<1>8. /\ page \in Seq(S) /\ Len(page) = IF a <= b THEN b - a + 1 ELSE 0
      /\ \A i \in 1 .. b - a + 1 : page[i] = list[a + i - 1]
  BY <1>5, <1>6, <1>7, SubSeqProperties
<1>9. ToSet(page) = {page[i] : i \in 1 .. Len(page)}
  BY <1>8 DEF ToSet
<1>10. ToSet(page) \subseteq S
  BY <1>8, <1>9
<1>11. ASSUME NEW j \in a .. b PROVE list[j] \in ToSet(page)
  <2>1. j - a + 1 \in 1 .. Len(page) /\ j - a + 1 \in 1 .. b - a + 1
        /\ a + (j - a + 1) - 1 = j
    BY <1>5, <1>8
  <2>2. page[j - a + 1] = list[j]
    BY <1>8, <2>1
  <2> QED
    BY <1>9, <2>1, <2>2
<1> QED
  BY <1>4, <1>7, <1>10, <1>11 DEF Page

\* Where a row is in a list that is newest first: after those above it.
LEMMA PlaceOf ==
  ASSUME ListTypeOK, NEW q \in Readers, kind \in {"recent", "audit", "active"},
         NEW list \in Results(q), NEW r \in Visible(q)
  PROVE  /\ list \in Seq(Visible(q)) /\ Len(list) = Cardinality(Visible(q))
         /\ \E i \in 1 .. Len(list) : list[i] = r /\ Cardinality(Above(q, r)) = i - 1
<1>1. PICK V : V = Visible(q)
  OBVIOUS
<1>2. V \subseteq 1 .. Len(rows) /\ IsFiniteSet(V) /\ Cardinality(V) \in Nat
  BY <1>1, VisibleFinite
<1>3. V \subseteq Nat
  BY <1>2, ListTypes
<1>4. PICK n \in Nat : n = Cardinality(V)
  BY <1>2
<1>5. /\ list \in [1 .. n -> V] /\ \A i, j \in 1 .. n : i # j => list[i] # list[j]
      /\ \A i, j \in DOMAIN list : i < j => list[i] > list[j]
  BY <1>1, <1>4 DEF Results, SetToSeqs
<1>6. DOMAIN list = 1 .. n /\ list \in Seq(V) /\ Len(list) = n
  BY <1>5
<1>7. IsFiniteSet(1 .. n) /\ Cardinality(1 .. n) = n
  BY FS_Interval
<1>8. list \in Injection(1 .. n, V)
  BY <1>5, <1>6 DEF Injection, IsInjective
<1>9. list \in Surjection(1 .. n, V)
  BY <1>2, <1>4, <1>7, <1>8, FS_Injection
<1>10. \A v \in V : \E i \in 1 .. n : list[i] = v
  BY <1>9 DEF Surjection
<1>11. PICK i \in 1 .. n : list[i] = r
  BY <1>1, <1>10
<1>12. PICK f : f = [j \in 1 .. i - 1 |-> list[j]]
  OBVIOUS
<1>13. f \in [1 .. i - 1 -> Above(q, r)]
  BY <1>1, <1>3, <1>5, <1>6, <1>11, <1>12 DEF Above
<1>14. \A j, k \in 1 .. i - 1 : j # k => f[j] # f[k]
  BY <1>5, <1>11, <1>12
<1>15. ASSUME NEW v \in Above(q, r) PROVE \E j \in 1 .. i - 1 : f[j] = v
  <2>1. v \in V /\ v > r
    BY <1>1 DEF Above
  <2>2. PICK j \in 1 .. n : list[j] = v
    BY <1>10, <2>1
  <2>3. r \in Nat /\ v \in Nat
    BY <1>1, <1>3, <2>1
  <2>4. ~(i < j) /\ i # j
    BY <1>5, <1>6, <1>11, <2>1, <2>2, <2>3
  <2>5. j \in 1 .. i - 1
    BY <1>11, <2>2, <2>4
  <2> QED
    BY <1>12, <2>2, <2>5
<1>16. f \in Bijection(1 .. i - 1, Above(q, r))
  BY <1>13, <1>14, <1>15 DEF Bijection, Injection, IsInjective, Surjection
<1>17. i - 1 \in Nat
  BY <1>11
<1>18. Cardinality(Above(q, r)) = i - 1
  BY <1>16, <1>17, FS_CountingElements DEF ExistsBijection
<1> QED
  BY <1>1, <1>4, <1>6, <1>11, <1>18

\* A page brings every row that is next, and all that are left if it is the last.
LEMMA NextPage ==
  ASSUME ListTypeOK, NEW q \in Readers, kind \in {"recent", "audit", "active"},
         NEW list \in Results(q), NEW o \in Nat, NEW n \in 1 .. PageCap,
         NEW r \in Visible(q), Cardinality(Above(q, r)) >= o,
         r \notin ToSet(Page(list, o, n))
  PROVE  /\ Cardinality(Above(q, r)) >= o + n
         /\ o + n < Len(list) /\ ToSet(Page(list, o, n)) # {}
<1>1. PICK i \in 1 .. Len(list) : list[i] = r /\ Cardinality(Above(q, r)) = i - 1
  BY PlaceOf
<1>2. PICK m \in Nat : m = Len(list)
  BY PlaceOf
<1>3. PICK V : V = Visible(q)
  OBVIOUS
<1>4. list \in Seq(V) /\ PageCap \in Nat \ {0} /\ n \in Nat
  <2>1. list \in Seq(V)
    BY <1>3, PlaceOf
  <2>2. PageCap \in Nat \ {0}
    BY ListAssumption
  <2> QED
    BY <2>1, <2>2
<1>5. PageSize(n) = n
  BY <1>4 DEF PageSize
<1>6. \A j \in Index(o, m) + 1 .. Index(o + n, m) : list[j] \in ToSet(Page(list, o, n))
  BY <1>2, <1>4, <1>5, PageRows
<1>7. i >= o + 1 /\ o < m /\ Index(o, m) = o
  BY <1>1, <1>2 DEF Index
<1>8. i > o + n
  <2> SUFFICES ASSUME i <= o + n PROVE FALSE
    BY <1>1, <1>4
  <2>1. Index(o + n, m) >= i
    BY <1>1, <1>2, <1>4 DEF Index
  <2>2. Index(o + n, m) \in Nat
    BY <1>2, <1>4 DEF Index
  <2>3. i \in Index(o, m) + 1 .. Index(o + n, m)
    BY <1>1, <1>7, <2>1, <2>2
  <2> QED
    BY <1>1, <1>6, <2>3
<1>9. o + n < m /\ Index(o + n, m) = o + n
  BY <1>1, <1>2, <1>4, <1>8 DEF Index
<1>10. o + 1 \in Index(o, m) + 1 .. Index(o + n, m)
  BY <1>4, <1>7, <1>9
<1> QED
  BY <1>1, <1>2, <1>4, <1>6, <1>8, <1>9, <1>10

LEMMA ReadPageStep ==
  ASSUME LInv, NEW q \in Readers, ReadPage(q)
  PROVE  LInv'
<1>1. /\ ListTypeOK /\ GotOK(q) /\ BegunOK(q) /\ StillToCome(q) /\ kind' = kind
      /\ reader[q] \in Reader /\ reader[q].pc \in {"start", "read"}
      /\ Len(rows) \in Nat /\ Len(rows) <= MaxRows /\ MaxRows \in Nat
      /\ DOMAIN rows = 1 .. Len(rows)
  BY ListTypes DEF LInv, ReadPage
<1>2. PICK m, V : m = reader[q] /\ V = Visible(q)
  OBVIOUS
<1>3. PICK own \in 0 .. MaxRows :
        /\ own = IF kind = "audit" THEN Len(rows) + 1 ELSE 0
        /\ rows' = IF kind = "audit" THEN Append(rows, [state |-> "flushed", tenant |-> m.tenant])
                   ELSE rows
        /\ kind = "audit" => Len(rows) + 1 <= MaxRows
  <2>1. PICK own : own = IF kind = "audit" THEN Len(rows) + 1 ELSE 0
    OBVIOUS
  <2>2. /\ own <= MaxRows
        /\ rows' = IF kind = "audit" THEN Append(rows, [state |-> "flushed", tenant |-> m.tenant])
                   ELSE rows
    BY <1>2, <2>1 DEF ReadPage, Flushed
  <2>3. own \in 0 .. MaxRows
    BY <1>1, <2>1, <2>2
  <2> QED
    BY <2>1, <2>2, <2>3
<1>4. PICK list \in Results(q) :
        LET page == ToSet(Page(list, m.offset, m.limit))
            over == m.offset + m.limit >= Len(list) \/ page = {}
        IN  reader' = [reader EXCEPT ![q] =
              [m EXCEPT !.pc = IF over THEN "done" ELSE "read", !.own = own,
                        !.offset = @ + m.limit, !.got = @ \union page,
                        !.first = IF m.pc = "start" THEN V ELSE @]]
  BY <1>2, <1>3 DEF ReadPage
<1>5. PICK page : page = ToSet(Page(list, m.offset, m.limit))
  OBVIOUS
<1>6. PICK first : first = IF m.pc = "start" THEN V ELSE m.first
  OBVIOUS
<1>7. PICK pc \in {"done", "read"} :
        pc = IF m.offset + m.limit >= Len(list) \/ page = {} THEN "done" ELSE "read"
  OBVIOUS
<1>8. /\ page = ToSet(Page(list, m.offset, m.limit))
      /\ pc = IF m.offset + m.limit >= Len(list) \/ page = {} THEN "done" ELSE "read"
      /\ first = IF m.pc = "start" THEN V ELSE m.first
      /\ reader' = [reader EXCEPT ![q] =
           [m EXCEPT !.pc = pc, !.own = own, !.offset = @ + m.limit,
                     !.got = @ \union page, !.first = first]]
  <2>1. reader' = [reader EXCEPT ![q] =
          [m EXCEPT !.pc = IF m.offset + m.limit >= Len(list) \/ page = {}
                           THEN "done" ELSE "read",
                    !.own = own, !.offset = @ + m.limit, !.got = @ \union page,
                    !.first = IF m.pc = "start" THEN V ELSE m.first]]
    BY <1>4, <1>5
  <2> QED
    BY <1>5, <1>6, <1>7, <2>1
<1>9. V \subseteq 1 .. MaxRows /\ V \subseteq 1 .. Len(rows) /\ V \subseteq DOMAIN rows
  <2>1. V \subseteq DOMAIN rows
    BY <1>2 DEF Visible
  <2> QED
    BY <1>1, <2>1
<1>10. page \subseteq V
  <2>1. list \in [1 .. Cardinality(V) -> V]
    BY <1>2 DEF Results, SetToSeqs
  <2>2. Cardinality(V) \in Nat
    BY <1>1, <1>2, VisibleFinite
  <2>3. list \in Seq(V)
    BY <2>1, <2>2
  <2>4. m.offset \in Int /\ m.limit \in Int
    BY <1>1, <1>2 DEF Reader
  <2> QED
    BY <1>8, <2>3, <2>4, PageRows, ListAssumption
<1>11. PICK x : x = [m EXCEPT !.pc = pc, !.own = own, !.offset = @ + m.limit,
                             !.got = @ \union page, !.first = first]
  OBVIOUS
<1>12. /\ x.pc = pc /\ x.offset = m.offset + m.limit /\ x.got = m.got \union page
      /\ x.first = first /\ x.by = m.by /\ x.tenant = m.tenant /\ x.limit = m.limit
      /\ x.start = m.start /\ x.shrunk = m.shrunk
  BY <1>1, <1>2, <1>11 DEF Reader
<1>13. x \in Reader
  <2>1. /\ m.offset \in Int /\ m.limit \in Int /\ m.got \subseteq 1 .. MaxRows
        /\ m.first \subseteq 1 .. MaxRows
    BY <1>1, <1>2 DEF Reader
  <2>2. /\ m.offset + m.limit \in Int /\ m.got \union page \in SUBSET (1 .. MaxRows)
        /\ first \in SUBSET (1 .. MaxRows)
    BY <1>8, <1>9, <1>10, <2>1
  <2> QED
    BY <1>1, <1>2, <1>11, <2>2 DEF Reader
<1>14. /\ reader' = [reader EXCEPT ![q] = x] /\ reader' \in [Readers -> Reader]
       /\ reader'[q] = x /\ \A v \in Readers : v # q => reader'[v] = reader[v]
  BY <1>1, <1>8, <1>11, <1>13 DEF ListTypeOK
<1>15. /\ ListTypeOK' /\ RowsKept
       /\ \A i \in 1 .. Len(rows) : rows'[i] = rows[i]
       /\ \A i \in DOMAIN rows' : i \in 1 .. Len(rows) \/ rows'[i].state = "flushed"
       /\ DOMAIN rows \subseteq DOMAIN rows'
  <2>1. CASE kind = "audit"
    <3>1. PICK y : y = [state |-> "flushed", tenant |-> m.tenant]
      OBVIOUS
    <3>2. rows' = Append(rows, y) /\ Len(rows) + 1 <= MaxRows
      BY <1>3, <2>1, <3>1
    <3>3. m.tenant \in RowTenants
      BY <1>1, <1>2 DEF BegunOK
    <3>4. PICK R : R = [state : {"flushed", "shown", "gone"}, tenant : RowTenants]
      OBVIOUS
    <3>5. rows \in Seq(R) /\ y \in R /\ y.state = "flushed"
      BY <1>1, <3>1, <3>3, <3>4 DEF ListTypeOK
    <3>6. PICK n \in Nat : n = Len(rows)
      BY <1>1
    <3>7. /\ rows' \in Seq(R) /\ Len(rows') = n + 1 /\ DOMAIN rows' = 1 .. n + 1
          /\ rows'[n + 1] = y /\ \A i \in 1 .. n : rows'[i] = rows[i]
      BY <3>2, <3>5, <3>6
    <3>8. ListTypeOK'
      BY <1>1, <1>14, <3>2, <3>4, <3>6, <3>7 DEF ListTypeOK
    <3> QED
      BY <1>1, <3>5, <3>6, <3>7, <3>8 DEF RowsKept
  <2>2. CASE kind # "audit"
    BY <1>1, <1>3, <1>14, <2>2 DEF ListTypeOK, RowsKept
  <2> QED
    BY <2>1, <2>2
<1>16. \A v \in Readers : Visible(v)' = Visible(v)
  <2>1. \A v \in Readers : reader'[v].by = reader[v].by /\ reader'[v].tenant = reader[v].tenant
    BY <1>2, <1>12, <1>14
  <2>2. \A i \in DOMAIN rows : i \in DOMAIN rows' /\ rows'[i] = rows[i]
    BY <1>1, <1>15
  <2>3. \A i \in DOMAIN rows' : i \in DOMAIN rows \/ rows'[i].state # "shown"
    BY <1>1, <1>15
  <2> QED
    BY <1>1, <2>1, <2>2, <2>3 DEF Visible
<1>17. \A v \in Readers : v # q => GotOK(v)' /\ BegunOK(v)' /\ StillToCome(v)'
  <2>1. \A v \in Readers : v # q => SameReading(v)
    BY <1>14 DEF SameReading
  <2> QED
    BY <1>1, <1>15, <1>16, <2>1, ReaderKept
<1>18. \A r \in V : r \in 1 .. Len(rows) /\ MaySee(q, rows[r].tenant)
  BY <1>1, <1>2, <1>9 DEF Visible, BegunOK, MaySee
<1>19. GotOK(q)' /\ BegunOK(q)'
  <2>1. \A r \in x.got : r \in 1 .. Len(rows) /\ MaySee(q, rows[r].tenant)
    BY <1>1, <1>2, <1>10, <1>12, <1>18 DEF GotOK
  <2>2. \A t : MaySee(q, t)' <=> MaySee(q, t)
    BY <1>1, <1>2, <1>12, <1>14 DEF MaySee
  <2>3. Len(rows) <= Len(rows') /\ Len(rows') \in Nat
    BY <1>15 DEF RowsKept, ListTypeOK
  <2>4. GotOK(q)'
    BY <1>1, <1>14, <1>15, <2>1, <2>2, <2>3 DEF GotOK
  <2>5. BegunOK(q)'
    BY <1>1, <1>2, <1>12, <1>14 DEF BegunOK, MaySee
  <2> QED
    BY <2>4, <2>5
<1>20. StillToCome(q)'
  <2> SUFFICES ASSUME InOrder(q)' PROVE StillToCome(q)'
    BY DEF StillToCome
  <2>1. InOrder(q) /\ kind \in {"recent", "audit", "active"} /\ m.limit \in 1 .. PageCap
    BY <1>1, <1>2, <1>12, <1>14 DEF InOrder
  <2>2. m.offset \in Nat
    <3>1. m.offset \in Int
      BY <1>1, <1>2 DEF Reader
    <3>2. m.pc = "start" => m.offset = 0
      BY <1>1, <1>2, <2>1 DEF StillToCome
    <3>3. m.pc = "read" => m.offset >= 0
      BY <1>1, <1>2, <2>1 DEF StillToCome
    <3> QED
      BY <1>1, <1>2, <3>1, <3>2, <3>3
  <2>3. ASSUME NEW r \in first \ m.got
        PROVE  r \in Visible(q) /\ Cardinality(Above(q, r)) >= m.offset
    <3>1. CASE m.pc = "start"
      <4>1. r \in Visible(q) /\ m.offset = 0
        BY <1>1, <1>2, <1>8, <2>1, <2>3, <3>1 DEF StillToCome
      <4>2. Cardinality(Above(q, r)) \in Nat
        BY <1>1, VisibleFinite DEF Above
      <4> QED
        BY <4>1, <4>2
    <3>2. CASE m.pc = "read"
      BY <1>1, <1>2, <1>8, <2>1, <2>3, <3>2 DEF StillToCome
    <3> QED
      BY <1>1, <1>2, <3>1, <3>2
  <2>4. ASSUME NEW r \in first \ (m.got \union page)
        PROVE  /\ r \in Visible(q) /\ Cardinality(Above(q, r)) >= m.offset + m.limit
               /\ pc = "read"
    <3>1. r \in Visible(q) /\ Cardinality(Above(q, r)) >= m.offset
      BY <2>3, <2>4
    <3>2. r \notin ToSet(Page(list, m.offset, m.limit))
      BY <1>8, <2>4
    <3>3. /\ Cardinality(Above(q, r)) >= m.offset + m.limit
          /\ m.offset + m.limit < Len(list) /\ ToSet(Page(list, m.offset, m.limit)) # {}
      BY <1>1, <2>1, <2>2, <3>1, <3>2, NextPage
    <3>4. Len(list) \in Nat /\ m.offset + m.limit \in Int
      BY <1>1, <2>1, <2>2, <3>1, VisibleFinite, PlaceOf
    <3>5. ~(m.offset + m.limit >= Len(list) \/ page = {})
      BY <1>8, <3>3, <3>4
    <3> QED
      BY <1>8, <3>1, <3>3, <3>5
  <2>5. \A r : Above(q, r)' = Above(q, r)
    BY <1>16 DEF Above
  <2>6. x.offset >= 0
    BY <1>12, <2>1, <2>2
  <2>7. pc = "done" => x.first \subseteq x.got
    BY <1>12, <2>4
  <2>8. \A r \in x.first \ x.got :
          r \in Visible(q)' /\ Cardinality(Above(q, r)') >= x.offset
    BY <1>12, <1>16, <2>4, <2>5
  <2> QED
    BY <1>8, <1>12, <1>14, <2>6, <2>7, <2>8 DEF StillToCome
<1> QED
  BY <1>15, <1>17, <1>19, <1>20 DEF LInv

LEMMA NextLInv == LInv /\ [ListNext]_listVars => LInv'
<1> SUFFICES ASSUME LInv, [ListNext]_listVars PROVE LInv'
  OBVIOUS
<1>1. DOMAIN rows = 1 .. Len(rows)
  BY ListTypes DEF LInv
<1>2. CASE CreateRow
  BY <1>2, CreateRowStep
<1>3. CASE \E r \in DOMAIN rows : CommitRow(r) \/ RollBackRow(r) \/ DisableRow(r)
  <2>1. PICK r \in 1 .. Len(rows) : CommitRow(r) \/ RollBackRow(r) \/ DisableRow(r)
    BY <1>1, <1>3
  <2>2. CASE CommitRow(r)
    BY <2>2, CommitRowStep
  <2>3. CASE RollBackRow(r) \/ DisableRow(r)
    BY <2>3, RowGoneStep
  <2> QED
    BY <2>1, <2>2, <2>3
<1>4. CASE \E q \in Readers : BeginReading(q) \/ ReadPage(q)
  <2>1. PICK q \in Readers : BeginReading(q) \/ ReadPage(q)
    BY <1>4
  <2>2. CASE BeginReading(q)
    BY <2>2, BeginReadingStep
  <2>3. CASE ReadPage(q)
    BY <2>3, ReadPageStep
  <2> QED
    BY <2>1, <2>2, <2>3
<1>5. CASE UNCHANGED listVars
  <2>1. UNCHANGED <<kind, rows, reader>>
    BY <1>5 DEF listVars
  <2>2. ListTypeOK' /\ RowsKept
    BY <1>1, <2>1, ListTypes DEF LInv, ListTypeOK, RowsKept
  <2>3. \A q \in Readers : Visible(q) \subseteq Visible(q)' /\ SameReading(q)
    BY <2>1 DEF Visible, SameReading
  <2> QED
    BY <2>1, <2>2, <2>3, ReaderKept DEF LInv
<1> QED
  BY <1>2, <1>3, <1>4, <1>5 DEF ListNext

\* What holds of the listings at every moment of every behaviour.
THEOREM ListInvariance == ListSpec => []LInv
<1> QED
  BY InitLInv, NextLInv, PTL DEF ListSpec

\* Rows and readers of a listing are what they are said to be.
THEOREM ListTyping == ListSpec => []ListTypeOK
<1>1. LInv => ListTypeOK
  BY DEF LInv
<1> QED
  BY <1>1, ListInvariance, PTL

\* Who pages through a listing that is newest first, from its start and with pages
\* as they are allowed, has got every row that was there at first when the client
\* stops, however many rows there are and whatever is committed meanwhile.
THEOREM PagesComplete == ListSpec => []PagesAreComplete
<1>1. LInv => PagesAreComplete
  BY DEF LInv, PagesAreComplete, StillToCome, InOrder
<1> QED
  BY <1>1, ListInvariance, PTL

\* No page shows a row of a tenant its reader may not see, for every set of
\* accounts, roles and permissions.
THEOREM PagesKept == ListSpec => []PagesKeepToTenants
<1>1. ASSUME LInv PROVE PagesKeepToTenants
  <2> SUFFICES ASSUME NEW q \in Readers, NEW r \in reader[q].got
               PROVE  IF kind = "global"
                      THEN \/ IsPlatformAdmin(reader[q].by)
                           \/ rows[r].tenant \in DOMAIN reader[q].by.tenants
                      ELSE IF ReadPermission \in DOMAIN Permissions
                      THEN \E role \in Permissions[ReadPermission] :
                             \/ role \in reader[q].by.realm
                             \/ /\ rows[r].tenant \in DOMAIN reader[q].by.tenants
                                /\ role \in reader[q].by.tenants[rows[r].tenant]
                      ELSE UnlistedAllowed
    BY DEF PagesKeepToTenants
  <2>1. MaySee(q, rows[r].tenant)
    BY <1>1 DEF LInv, GotOK
  <2>2. CASE kind = "global"
    BY <2>1, <2>2 DEF MaySee, TenantScope
  <2>3. CASE kind # "global"
    BY <2>1, <2>3 DEF MaySee, HasPermission, RolesIn
  <2> QED
    BY <2>2, <2>3
<1> QED
  BY <1>1, ListInvariance, PTL

--------------------------------------------------------------------------------
(* All of them together *)

\* What the run checks of all components at once is what is proved of each: a
\* behaviour of the joint specification is one of every component.
THEOREM EachPart ==
  Spec => ModulesSpec /\ GitSpec /\ GateSpec /\ ListSpec /\ ApprovalSpec
<1>1. Init => ModulesInit /\ GitInit /\ GateInit /\ ListInit /\ ApprovalInit
  BY DEF Init
<1>2. [Next]_vars => /\ [ModulesNext]_modulesVars /\ [GitNext]_gitVars
                     /\ [GateNext]_gateVars /\ [ListNext]_listVars
                     /\ [ApprovalNext]_approvalVars
  <2> SUFFICES ASSUME [Next]_vars
               PROVE  /\ [ModulesNext]_modulesVars /\ [GitNext]_gitVars
                      /\ [GateNext]_gateVars /\ [ListNext]_listVars
                      /\ [ApprovalNext]_approvalVars
    OBVIOUS
  <2>1. CASE ModulesNext /\ UNCHANGED <<part, gitVars, gateVars, listVars, approvalVars>>
    BY <2>1
  <2>2. CASE GitNext /\ UNCHANGED <<part, modulesVars, gateVars, listVars, approvalVars>>
    BY <2>2
  <2>3. CASE GateNext /\ UNCHANGED <<part, modulesVars, gitVars, listVars, approvalVars>>
    BY <2>3
  <2>4. CASE ListNext /\ UNCHANGED <<part, modulesVars, gitVars, gateVars, approvalVars>>
    BY <2>4
  <2>5. CASE ApprovalNext /\ UNCHANGED <<part, modulesVars, gitVars, gateVars, listVars>>
    BY <2>5
  <2>6. CASE UNCHANGED vars
    BY <2>6 DEF vars
  <2> QED
    BY <2>1, <2>2, <2>3, <2>4, <2>5, <2>6 DEF Next
<1> QED
  BY <1>1, <1>2, PTL DEF Spec, ModulesSpec, GitSpec, GateSpec, ListSpec, ApprovalSpec

\* Every variable of the joint specification keeps its type.
THEOREM TypeCorrect == Spec => []TypeOK
<1>1. ModulesTypeOK /\ GitTypeOK /\ GateTypeOK /\ ListTypeOK /\ ApprovalTypeOK => TypeOK
  BY DEF TypeOK
<1> QED
  BY <1>1, EachPart, ModulesTyping, GitTyping, GateTyping, ListTyping, ApprovalTyping, PTL

================================================================================
