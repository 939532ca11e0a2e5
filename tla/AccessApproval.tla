----------------------------- MODULE AccessApproval -----------------------------
(***************************************************************************)
(* One access request and the API requests that create, approve and deny   *)
(* it (api/routes.py) behind the policy gate (governance/enforcement.py).  *)
(*                                                                         *)
(* Each handler is one database transaction: the row is read, the policy   *)
(* decision is flushed, and it commits with the change and its audit event *)
(* or not at all.  No handler looks at the status it finds: a request may  *)
(* be decided again, also by two handlers at once.                         *)
(***************************************************************************)
EXTENDS PolicyEngine, StatusTimeline, FiniteSets

CONSTANTS
  Calls,       \* API requests, each made once
  Principals,  \* who makes them
  RolesOf,     \* the roles of each principal
  RuleBooks,   \* rule lists the platform may be configured with
  DenyByDefault

\* A configured rule list is a list.
ASSUME RuleBooksAssumption ==
  \A book \in RuleBooks : Len(book) \in Nat /\ DOMAIN book = 1 .. Len(book)

VARIABLES
  rules,      \* the rules loaded at startup
  row,        \* the access_requests row: status and approver
  call,       \* what each API request is and how far it has come
  decisions,  \* policy_decisions committed: <<call, allow>>
  audit,      \* calls whose audit event is committed
  raced       \* some call committed after another had, since its read (ghost)

approvalVars == <<rules, row, call, decisions, audit, raced>>

NoRow == [status |-> "NONE", approver |-> NoPrincipal]
Ops == {"create", "approve", "deny"}
PolicyAction == [create |-> "access.request.create", approve |-> "access.request.approve"]
Target == [create |-> "PENDING", approve |-> "APPROVED", deny |-> "DENIED"]

NewCall ==
  [phase |-> "new", op |-> "deny", by |-> NoPrincipal, named |-> NoPrincipal, saw |-> NoRow]

Rows == [status : {"NONE", "PENDING", "APPROVED", "DENIED"},
         approver : Principals \union {NoPrincipal}]

ApprovalTypeOK ==
  /\ rules \in RuleBooks
  /\ row \in Rows
  /\ call \in [Calls -> [phase : {"new", "gate", "ready", "committed", "refused"},
                       op : Ops, by : Principals \union {NoPrincipal},
                       named : Principals \union {NoPrincipal}, saw : Rows]]
  /\ decisions \in SUBSET (Calls \X BOOLEAN)
  /\ audit \in SUBSET Calls
  /\ raced \in BOOLEAN

ApprovalInit ==
  /\ rules \in RuleBooks
  /\ row = NoRow
  /\ call = [c \in Calls |-> NewCall]
  /\ decisions = {}
  /\ audit = {}
  /\ raced = FALSE

\* Only the conditions that tell these calls apart: risk and payload are alike.
Context(c) ==
  [action |-> PolicyAction[call[c].op], roles |-> RolesOf[call[c].by], risk |-> "unknown",
   payload |-> "role", principal |-> call[c].by, approver |-> call[c].named,
   ticket |-> FALSE, signed |-> FALSE]

Decision(c) == Evaluate(rules, Context(c), DenyByDefault)

--------------------------------------------------------------------------------

\* A principal with the permission calls.  Each create makes a request of its own,
\* so there is one; approve and deny read the row, or end in 404.  deny is not
\* governed by a policy.
Begin(c) ==
  /\ call[c].phase = "new"
  /\ \E op \in Ops, p \in Principals, n \in Principals \union {NoPrincipal} :
       /\ (op = "create") = (row = NoRow)
       /\ op # "create" \/ \A d \in Calls : call[d].phase = "new" \/ call[d].op # "create"
       /\ call' = [call EXCEPT ![c] =
            [phase |-> IF op = "deny" THEN "ready" ELSE "gate",
             op |-> op, by |-> p, named |-> n, saw |-> row]]
  /\ UNCHANGED <<rules, row, decisions, audit, raced>>

\* Mutant: obligations are returned and not enforced.
PassGateUnbound(c) ==
  /\ call[c].phase = "gate"
  /\ Decision(c).allow
  /\ call' = [call EXCEPT ![c].phase = "ready"]
  /\ UNCHANGED <<rules, row, decisions, audit, raced>>

\* The decision is flushed, allows, and every obligation is met.
PassGate(c) ==
  /\ call[c].phase = "gate"
  /\ Decision(c).allow /\ Meets(Decision(c), Context(c))
  /\ call' = [call EXCEPT ![c].phase = "ready"]
  /\ UNCHANGED <<rules, row, decisions, audit, raced>>

\* Mutant: a denial is committed where an allowance is rolled back.
FailGateCommits(c) ==
  /\ call[c].phase = "gate"
  /\ ~ (Decision(c).allow /\ Meets(Decision(c), Context(c)))
  /\ call' = [call EXCEPT ![c].phase = "refused"]
  /\ decisions' = decisions \union {<<c, Decision(c).allow>>}
  /\ UNCHANGED <<rules, row, audit, raced>>

\* 403 is raised before the commit: the flushed decision is rolled back.
FailGate(c) ==
  /\ call[c].phase = "gate"
  /\ ~ (Decision(c).allow /\ Meets(Decision(c), Context(c)))
  /\ call' = [call EXCEPT ![c].phase = "refused"]
  /\ UNCHANGED <<rules, row, decisions, audit, raced>>

\* Mutant: the approver is kept once there is one.
CommitKeepsApprover(c) ==
  LET me == call[c]
  IN  /\ me.phase = "ready"
      /\ row' = [status |-> ColumnAfter(row.status, me.saw.status, Target[me.op]),
                 approver |-> IF me.op = "create" \/ row.approver # NoPrincipal
                              THEN row.approver ELSE me.by]
      /\ call' = [call EXCEPT ![c].phase = "committed"]
      /\ decisions' = IF me.op = "deny" THEN decisions ELSE decisions \union {<<c, TRUE>>}
      /\ audit' = audit \union {c}
      /\ raced' = (raced \/ row # me.saw)
      /\ UNCHANGED rules

\* The change and its audit event commit.  status and approver are columns of
\* their own: each is in the UPDATE only if it differs from what was read.
Commit(c) ==
  LET me == call[c]
  IN  /\ me.phase = "ready"
      /\ row' = [status |-> ColumnAfter(row.status, me.saw.status, Target[me.op]),
                 approver |-> IF me.op = "create" THEN NoPrincipal
                              ELSE ColumnAfter(row.approver, me.saw.approver, me.by)]
      /\ call' = [call EXCEPT ![c].phase = "committed"]
      /\ decisions' = IF me.op = "deny" THEN decisions ELSE decisions \union {<<c, TRUE>>}
      /\ audit' = audit \union {c}
      /\ raced' = (raced \/ row # me.saw)
      /\ UNCHANGED rules

\* The process dies, or the database fails.
Abort(c) ==
  /\ call[c].phase \in {"gate", "ready"}
  /\ call' = [call EXCEPT ![c].phase = "refused"]
  /\ UNCHANGED <<rules, row, decisions, audit, raced>>

ApprovalNext ==
  \E c \in Calls : Begin(c) \/ PassGate(c) \/ FailGate(c) \/ Commit(c) \/ Abort(c)

ApprovalSpec == ApprovalInit /\ [][ApprovalNext]_approvalVars

(* Properties *)

\* What took effect was permitted: some rule that does not deny applies, its
\* obligations were met, and no rule before it applies (rule order is the policy).
Permitted(c) ==
  \/ ~DenyByDefault
  \/ \E i \in DOMAIN rules :
       /\ Applies(rules[i], Context(c)) /\ rules[i].effect # "deny"
       /\ \A o \in rules[i].obligations : MeetsObligation(o, Context(c))
       /\ \A j \in 1 .. i - 1 : ~Applies(rules[j], Context(c))

NothingAgainstPolicy ==
  \A c \in Calls : call[c].phase = "committed" /\ call[c].op # "deny" => Permitted(c)

\* Policy decisions on record are exactly those of the calls that took effect: a
\* governed change never commits without its decision, and a refusal leaves
\* none, because 403 is raised before the transaction commits.
DecisionsAreOfEffects ==
  decisions = {<<c, TRUE>> : c \in {d \in audit : call[d].op # "deny"}}

\* The approver named in the row is someone who made that very decision, unless
\* calls raced.  If they did, the row can name the approver of a request as the
\* one who denied it: columns are written one by one.
DecisionIsAttributed ==
  ~raced /\ row.status \in {"APPROVED", "DENIED"} =>
    \E c \in audit : call[c].by = row.approver /\ Target[call[c].op] = row.status

================================================================================
