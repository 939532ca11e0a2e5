------------------------------- MODULE GitChanges -------------------------------
(***************************************************************************)
(* Changes the platform proposes to Git: promotions of a service from one  *)
(* environment to the next (promotions/controller.py) and new services     *)
(* (scaffolding/service.py), through the GitHub plugin, which builds a     *)
(* commit, creates a branch for it and opens a pull request.               *)
(*                                                                         *)
(* The branch is named by what is changed, not by the call.  Which         *)
(* repository a scaffolding creates is said in its parameters, apart from  *)
(* the service: one service may be asked for in several.  Nothing a call   *)
(* did to Git is undone when a later call or the commit fails.  Git and    *)
(* its users are external: they merge, close and delete branches; that     *)
(* they delete or rename whole repositories is left out.                   *)
(***************************************************************************)
EXTENDS Naturals, Sequences, FiniteSets

CONSTANTS
  MaxCalls,      \* bound: how many requests are made
  Routes,        \* what can be promoted: service, from and to environment
  Services,      \* what can be scaffolded
  Repositories,  \* where to: the owners and names that parameters may give
  Tags,          \* image tags
  CheckSets,     \* the required_checks obligations the policy may answer with
  Home,          \* the tenant's repository, which promotions change
  None

ASSUME GitAssumption == MaxCalls \in Nat

VARIABLES
  repos,       \* repositories: Home and those that calls created
  branches,    \* branches in them: <<repository, subject>>
  pulls,       \* pull requests, in the order they were opened
  change,      \* the calls, in the order in which they begin
  promotions,  \* the rows committed
  scaffolds    \* the scaffoldings answered

gitVars == <<repos, branches, pulls, change, promotions, scaffolds>>

NewChange == [pc |-> "branch", kind |-> "promote", repo |-> Home, subject |-> None,
              tag |-> None, required |-> {}, pull |-> 0, status |-> "created"]

Places == {Home} \union Repositories

Branches == Places \X (Routes \union Services)

Checks == SUBSET UNION CheckSets

Pull ==
  [branch : Branches, tag : Tags \union {None}, state : {"open", "settled"}, passed : Checks]

Change ==
  [pc : {"repo", "branch", "pull", "checks", "commit", "done", "failed"},
   kind : {"promote", "scaffold"}, repo : Places, subject : Routes \union Services,
   tag : Tags \union {None},
   required : Checks, pull : Nat, status : {"created", "pending_checks"}]

Scaffold ==
  [call : 1 .. MaxCalls, repo : Places, service : Routes \union Services, pull : Nat]

GitTypeOK ==
  /\ repos \subseteq Places
  /\ branches \subseteq repos \X (Routes \union Services)
  /\ pulls \in Seq(Pull)
  /\ change \in Seq(Change) /\ Len(change) <= MaxCalls
  /\ promotions \subseteq
       [call : 1 .. MaxCalls, route : Routes \union Services, tag : Tags \union {None},
        required : Checks, pull : Nat, status : {"created", "pending_checks"}]
  /\ scaffolds \subseteq Scaffold

GitInit ==
  /\ repos = {Home}
  /\ branches = {}
  /\ pulls = <<>>
  /\ change = <<>>
  /\ promotions = {}
  /\ scaffolds = {}

Branch(c) == <<change[c].repo, change[c].subject>>

--------------------------------------------------------------------------------
(* The handlers *)

\* promote_service, let through by the policy, whose rule may oblige it to checks.
BeginPromotion ==
  /\ Len(change) < MaxCalls
  /\ \E r \in Routes, t \in Tags, s \in CheckSets :
       change' = Append(change,
         [NewChange EXCEPT !.subject = r, !.tag = t, !.required = s])
  /\ UNCHANGED <<repos, branches, pulls, promotions, scaffolds>>

\* scaffold_service with a known template and its parameters: the service, and the
\* owner and name of the repository.
BeginScaffold ==
  /\ Len(change) < MaxCalls
  /\ \E s \in Services, r \in Repositories :
       change' = Append(change,
         [NewChange EXCEPT !.pc = "repo", !.kind = "scaffold", !.repo = r, !.subject = s])
  /\ UNCHANGED <<repos, branches, pulls, promotions, scaffolds>>

Fail(c) == change' = [change EXCEPT ![c].pc = "failed"]

\* scaffold_repo: a name that is taken is an error.
CreateRepo(c) ==
  /\ change[c].pc = "repo"
  /\ IF change[c].repo \in repos
     THEN Fail(c) /\ UNCHANGED repos
     ELSE /\ repos' = repos \union {change[c].repo}
          /\ change' = [change EXCEPT ![c].pc = "branch"]
  /\ UNCHANGED <<branches, pulls, promotions, scaffolds>>

\* Mutant: the branch is moved to the new commit if it exists.
PushBranchForced(c) ==
  /\ change[c].pc = "branch"
  /\ branches' = branches \union {Branch(c)}
  /\ change' = [change EXCEPT ![c].pc = "pull"]
  /\ UNCHANGED <<repos, pulls, promotions, scaffolds>>

\* Blobs, tree and commit, which nobody sees, then the branch: an error if there
\* is one of that name, open or left over.
PushBranch(c) ==
  /\ change[c].pc = "branch"
  /\ IF Branch(c) \in branches
     THEN Fail(c) /\ UNCHANGED branches
     ELSE /\ branches' = branches \union {Branch(c)}
          /\ change' = [change EXCEPT ![c].pc = "pull"]
  /\ UNCHANGED <<repos, pulls, promotions, scaffolds>>

\* The pull request of the branch it pushed.
OpenPull(c) ==
  LET me == change[c]
  IN  /\ me.pc = "pull"
      /\ pulls' = Append(pulls,
           [branch |-> Branch(c), tag |-> me.tag, state |-> "open", passed |-> {}])
      /\ change' = [change EXCEPT ![c].pull = Len(pulls) + 1,
           ![c].pc = IF me.required = {} THEN "commit" ELSE "checks"]
      /\ UNCHANGED <<repos, branches, promotions, scaffolds>>

\* get_pull_request_checks, right after opening.  No code looks again later.
ReadChecks(c) ==
  LET me == change[c]
  IN  /\ me.pc = "checks"
      /\ change' = [change EXCEPT ![c].pc = "commit",
           ![c].status = IF me.required \subseteq pulls[me.pull].passed
                         THEN "created" ELSE "pending_checks"]
      /\ UNCHANGED <<repos, branches, pulls, promotions, scaffolds>>

\* The promotion's row, or the scaffolding's audit event, commits.
CommitChange(c) ==
  LET me == change[c]
  IN  /\ me.pc = "commit"
      /\ IF me.kind = "promote"
         THEN /\ promotions' = promotions \union
                   {[call |-> c, route |-> me.subject, tag |-> me.tag,
                     required |-> me.required, pull |-> me.pull, status |-> me.status]}
              /\ UNCHANGED scaffolds
         ELSE /\ scaffolds' = scaffolds \union
                   {[call |-> c, repo |-> me.repo, service |-> me.subject, pull |-> me.pull]}
              /\ UNCHANGED promotions
      /\ change' = [change EXCEPT ![c].pc = "done"]
      /\ UNCHANGED <<repos, branches, pulls>>

\* A call to Git is refused or times out, the commit fails, or the process dies.
AbandonChange(c) ==
  /\ change[c].pc \notin {"done", "failed"}
  /\ Fail(c)
  /\ UNCHANGED <<repos, branches, pulls, promotions, scaffolds>>

--------------------------------------------------------------------------------
(* Git and its users *)

\* A check reports success on an open pull request.
PassCheck(i) ==
  /\ pulls[i].state = "open"
  /\ \E k \in (UNION CheckSets) \ pulls[i].passed :
       pulls' = [pulls EXCEPT ![i].passed = @ \union {k}]
  /\ UNCHANGED <<repos, branches, change, promotions, scaffolds>>

\* Somebody merges or closes it.
SettlePull(i) ==
  /\ pulls[i].state = "open"
  /\ pulls' = [pulls EXCEPT ![i].state = "settled"]
  /\ UNCHANGED <<repos, branches, change, promotions, scaffolds>>

\* A branch without an open pull request is deleted, by hand or on merging, but
\* not in the moment in which a call has pushed it and is about to open one.
DeleteBranch(b) ==
  /\ \A c \in DOMAIN change : change[c].pc = "pull" => Branch(c) # b
  /\ \A i \in DOMAIN pulls : pulls[i].branch = b => pulls[i].state # "open"
  /\ branches' = branches \ {b}
  /\ UNCHANGED <<repos, pulls, change, promotions, scaffolds>>

--------------------------------------------------------------------------------

GitNext ==
  \/ BeginPromotion \/ BeginScaffold
  \/ \E c \in DOMAIN change :
       \/ CreateRepo(c) \/ PushBranch(c) \/ OpenPull(c) \/ ReadChecks(c)
       \/ CommitChange(c) \/ AbandonChange(c)
  \/ \E i \in DOMAIN pulls : PassCheck(i) \/ SettlePull(i)
  \/ \E b \in branches : DeleteBranch(b)

GitSpec == GitInit /\ [][GitNext]_gitVars

(* Properties *)

\* A promotion on record has a pull request of its own, from the branch of its
\* route and with its image tag; it says "created" only if the checks it was
\* obliged to had passed; no branch has two open pull requests.
PromotionOwnsItsPull ==
  /\ \A r \in promotions :
       /\ pulls[r.pull].branch = <<Home, r.route>> /\ pulls[r.pull].tag = r.tag
       /\ r.status = "created" => r.required \subseteq pulls[r.pull].passed
       /\ \A o \in promotions : o.pull = r.pull => o = r
  /\ \A i, j \in DOMAIN pulls :
       pulls[i].branch = pulls[j].branch /\ pulls[i].state = "open" /\ pulls[j].state = "open"
       => i = j

\* Of the calls that name one repository at most one is answered with success, and
\* then the repository is there, with a pull request from the branch of the service
\* that no other answer or record claims.
ScaffoldedOnce ==
  \A s \in scaffolds :
    /\ s.repo \in repos
    /\ pulls[s.pull].branch = <<s.repo, s.service>>
    /\ \A o \in scaffolds : o.repo = s.repo \/ o.pull = s.pull => o = s
    /\ \A r \in promotions : r.pull # s.pull

\* However calls race, fail half way and are repeated, what is on record is backed
\* by Git: every promotion by its own pull request, which no later promotion of
\* the route overwrites while it is open, and every scaffolding by a repository and
\* a pull request of its own.
ChangesOwnTheirPulls == PromotionOwnsItsPull /\ ScaffoldedOnce

================================================================================
