-------------------------- MODULE AccessApprovalProofs --------------------------
(***************************************************************************)
(* Safety of AccessApproval for any rule lists, principals and number of   *)
(* calls.                                                                  *)
(***************************************************************************)
EXTENDS AccessApproval, FiniteSetTheorems, WellFoundedInduction, TLAPS

CallStates == [phase : {"new", "gate", "ready", "committed", "refused"},
               op : Ops, by : Principals \union {NoPrincipal},
               named : Principals \union {NoPrincipal}, saw : Rows]

\* What passed the gate is permitted, then and later: the rules are loaded once
\* and a call keeps its action, its principal and its headers.
GateHeld ==
  \A c \in Calls :
    call[c].phase \in {"ready", "committed"} /\ call[c].op # "deny" => Permitted(c)

\* The audit events are those of the calls that committed.
AuditIsOfCommits == audit = {c \in Calls : call[c].phase = "committed"}

IInv ==
  /\ ApprovalTypeOK
  /\ GateHeld
  /\ AuditIsOfCommits
  /\ DecisionsAreOfEffects
  /\ DecisionIsAttributed

--------------------------------------------------------------------------------
(* The policy engine *)

LEMMA MinOfNaturals ==
  ASSUME NEW S \in SUBSET Nat, S # {}
  PROVE  Min(S) \in S /\ \A x \in S : Min(S) =< x
<1> DEFINE before == {ss \in Nat \X Nat : ss[1] < ss[2]}
<1>1. IsWellFoundedOn(before, Nat)
  BY NatLessThanWellFounded, Zenon DEF OpToRel
<1>2. PICK x \in S : \A y \in S : <<y, x>> \notin before
  <2> HIDE DEF before
  <2> QED
    BY <1>1, WFMin, Zenon
<1>3. ASSUME NEW y \in S PROVE x =< y
  <2>1. x \in Nat /\ y \in Nat
    OBVIOUS
  <2>2. y < x => <<y, x>> \in before
    BY <2>1, SMT
  <2> QED
    BY <1>2, <2>1, <2>2, SMT
<1> QED
  BY <1>2, <1>3 DEF Min

\* What the engine allows is allowed by the first rule that applies, or, when no
\* rule does, by a platform that does not deny by default; the obligations it
\* returns are those of that rule.
LEMMA EvaluateByFirst ==
  ASSUME NEW book \in RuleBooks, NEW ctx, NEW deny,
         Evaluate(book, ctx, deny).allow, deny
  PROVE  \E i \in DOMAIN book :
           /\ Applies(book[i], ctx) /\ book[i].effect # "deny"
           /\ Evaluate(book, ctx, deny).obligations = book[i].obligations
           /\ \A j \in 1 .. i - 1 : ~Applies(book[j], ctx)
<1> DEFINE S == Applicable(book, ctx)
           i == Min(S)
<1>1. Len(book) \in Nat /\ DOMAIN book = 1 .. Len(book)
  BY RuleBooksAssumption
<1>2. S \in SUBSET Nat /\ S \subseteq DOMAIN book
  BY <1>1 DEF Applicable
<1>3. S # {}
  BY DEF Evaluate
<1>4. i \in S /\ \A x \in S : i =< x
  BY <1>2, <1>3, MinOfNaturals
<1>5. Applies(book[i], ctx)
  BY <1>4 DEF Applicable
<1>6. book[i].effect # "deny" /\ Evaluate(book, ctx, deny).obligations = book[i].obligations
  BY <1>3 DEF Evaluate, Denied
<1>7. ASSUME NEW j \in 1 .. i - 1, Applies(book[j], ctx) PROVE FALSE
  <2>1. i \in 1 .. Len(book)
    BY <1>1, <1>2, <1>4
  <2> HIDE DEF i
  <2>2. j \in 1 .. Len(book) /\ j < i
    BY <1>1, <2>1
  <2>3. j \in S
    BY <1>1, <1>7, <2>2 DEF Applicable
  <2> QED
    BY <1>1, <1>4, <2>1, <2>2, <2>3
<1> QED
  BY <1>2, <1>4, <1>5, <1>6, <1>7

\* So what passes the gate is permitted.
LEMMA GatePermits ==
  ASSUME ApprovalTypeOK, NEW c \in Calls,
         Decision(c).allow, Meets(Decision(c), Context(c))
  PROVE  Permitted(c)
<1>1. CASE ~DenyByDefault
  BY <1>1 DEF Permitted
<1>2. CASE DenyByDefault
  <2>1. PICK i \in DOMAIN rules :
          /\ Applies(rules[i], Context(c)) /\ rules[i].effect # "deny"
          /\ Decision(c).obligations = rules[i].obligations
          /\ \A j \in 1 .. i - 1 : ~Applies(rules[j], Context(c))
    BY <1>2, EvaluateByFirst, ZenonT(40) DEF ApprovalTypeOK, Decision
  <2> QED
    BY <2>1 DEF Permitted, Meets
<1> QED
  BY <1>1, <1>2

--------------------------------------------------------------------------------
(* The invariant *)

LEMMA InitIInv == ApprovalInit => IInv
<1> SUFFICES ASSUME ApprovalInit PROVE IInv
  OBVIOUS
<1>1. NoRow \in Rows
  BY DEF NoRow, Rows
<1>2. NewCall \in CallStates /\ NewCall.phase = "new"
  BY <1>1 DEF NewCall, CallStates, Ops
<1>3. /\ call \in [Calls -> CallStates]
      /\ \A c \in Calls : call[c].phase = "new"
  BY <1>2 DEF ApprovalInit
<1>4. ApprovalTypeOK
  BY <1>1, <1>3 DEF ApprovalInit, ApprovalTypeOK, CallStates
<1>5. GateHeld /\ AuditIsOfCommits
  BY <1>3 DEF ApprovalInit, GateHeld, AuditIsOfCommits
<1>6. DecisionsAreOfEffects
  BY DEF ApprovalInit, DecisionsAreOfEffects
<1>7. DecisionIsAttributed
  BY DEF ApprovalInit, DecisionIsAttributed, NoRow
<1> QED
  BY <1>4, <1>5, <1>6, <1>7 DEF IInv

\* One call moves on: the others keep all they have, and their permission.
LEMMA CallEffect ==
  ASSUME ApprovalTypeOK, NEW c \in Calls, NEW me \in CallStates,
         call' = [call EXCEPT ![c] = me], rules' = rules
  PROVE  /\ call' \in [Calls -> CallStates]
         /\ call'[c] = me
         /\ \A d \in Calls \ {c} : call'[d] = call[d]
         /\ \A d \in Calls \ {c} : Permitted(d) => Permitted(d)'
         /\ me.op = call[c].op /\ me.by = call[c].by /\ me.named = call[c].named
              => (Permitted(c) => Permitted(c)')
<1>1. /\ call' \in [Calls -> CallStates]
      /\ call'[c] = me
      /\ \A d \in Calls \ {c} : call'[d] = call[d]
  BY DEF ApprovalTypeOK, CallStates
<1>2. \A d \in Calls \ {c} : Permitted(d) => Permitted(d)'
  BY <1>1 DEF Permitted, Context
<1>3. me.op = call[c].op /\ me.by = call[c].by /\ me.named = call[c].named
        => (Permitted(c) => Permitted(c)')
  BY <1>1 DEF Permitted, Context
<1> QED
  BY <1>1, <1>2, <1>3

\* A call moves on without committing.
LEMMA QuietStep ==
  ASSUME IInv, NEW c \in Calls, NEW me \in CallStates,
         call' = [call EXCEPT ![c] = me],
         call[c].phase # "committed", me.phase # "committed",
         me.phase = "ready" /\ me.op # "deny" =>
           /\ me.op = call[c].op /\ me.by = call[c].by /\ me.named = call[c].named
           /\ Permitted(c),
         UNCHANGED <<rules, row, decisions, audit, raced>>
  PROVE  IInv'
<1>0. /\ ApprovalTypeOK /\ GateHeld /\ AuditIsOfCommits
      /\ DecisionsAreOfEffects /\ DecisionIsAttributed
  BY DEF IInv
<1>1. /\ call' \in [Calls -> CallStates]
      /\ call'[c] = me
      /\ \A d \in Calls \ {c} : call'[d] = call[d]
      /\ \A d \in Calls \ {c} : Permitted(d) => Permitted(d)'
      /\ me.op = call[c].op /\ me.by = call[c].by /\ me.named = call[c].named
           => (Permitted(c) => Permitted(c)')
  BY <1>0, CallEffect
<1>2. ApprovalTypeOK'
  BY <1>0, <1>1 DEF ApprovalTypeOK, CallStates
<1>3. GateHeld'
  BY <1>0, <1>1, Zenon DEF GateHeld
<1>4. AuditIsOfCommits' /\ \A d \in audit : d # c
  BY <1>0, <1>1 DEF AuditIsOfCommits
<1>5. \A d \in audit : call'[d] = call[d] /\ d \in Calls
  BY <1>0, <1>1, <1>4 DEF ApprovalTypeOK
<1>6. DecisionsAreOfEffects'
  <2>1. {d \in audit : call'[d].op # "deny"} = {d \in audit : call[d].op # "deny"}
    BY <1>5, Zenon
  <2> QED
    BY <1>0, <2>1 DEF DecisionsAreOfEffects
<1>7. DecisionIsAttributed'
  BY <1>0, <1>5 DEF DecisionIsAttributed
<1> QED
  BY <1>2, <1>3, <1>4, <1>6, <1>7 DEF IInv

\* The commit.  With nothing committed since the read, both columns are written
\* by this very call.
LEMMA CommitStep ==
  ASSUME IInv, NEW c \in Calls, Commit(c)
  PROVE  IInv'
<1> DEFINE me == [call[c] EXCEPT !.phase = "committed"]
           status == ColumnAfter(row.status, call[c].saw.status, Target[call[c].op])
           approver == IF call[c].op = "create" THEN NoPrincipal
                       ELSE ColumnAfter(row.approver, call[c].saw.approver, call[c].by)
<1>0. /\ ApprovalTypeOK /\ GateHeld /\ AuditIsOfCommits
      /\ DecisionsAreOfEffects /\ DecisionIsAttributed
      /\ call \in [Calls -> CallStates] /\ call[c] \in CallStates /\ row \in Rows
  BY DEF IInv, ApprovalTypeOK, CallStates
<1>1. /\ call[c].phase = "ready"
      /\ row' = [status |-> status, approver |-> approver]
      /\ call' = [call EXCEPT ![c] = me]
      /\ decisions' = IF call[c].op = "deny" THEN decisions
                      ELSE decisions \union {<<c, TRUE>>}
      /\ audit' = audit \union {c}
      /\ raced' = (raced \/ row # call[c].saw)
      /\ rules' = rules
  BY <1>0 DEF Commit, CallStates
<1>2. /\ me \in CallStates /\ me.phase = "committed" /\ me.op = call[c].op
      /\ me.by = call[c].by /\ me.named = call[c].named
  BY <1>0 DEF CallStates
<1> HIDE DEF me
<1>3. /\ call' \in [Calls -> CallStates]
      /\ call'[c] = me
      /\ \A d \in Calls \ {c} : call'[d] = call[d]
      /\ \A d \in Calls \ {c} : Permitted(d) => Permitted(d)'
      /\ Permitted(c) => Permitted(c)'
  BY <1>0, <1>1, <1>2, CallEffect
<1>4. row' \in Rows
  <2>1. status \in {"NONE", "PENDING", "APPROVED", "DENIED"}
    BY <1>0 DEF Rows, CallStates, ColumnAfter, Target, Ops
  <2>2. approver \in Principals \union {NoPrincipal}
    BY <1>0 DEF Rows, CallStates, ColumnAfter
  <2> HIDE DEF status, approver
  <2> QED
    BY <1>1, <2>1, <2>2 DEF Rows
<1>5. decisions' \subseteq Calls \X BOOLEAN /\ raced' \in BOOLEAN
  <2>1. <<c, TRUE>> \in Calls \X BOOLEAN
    OBVIOUS
  <2>2. decisions' \subseteq decisions \union {<<c, TRUE>>}
    BY <1>1
  <2>3. raced' \in BOOLEAN
    BY <1>1, Zenon
  <2> QED
    BY <1>0, <2>1, <2>2, <2>3, Zenon DEF ApprovalTypeOK
<1>6. ApprovalTypeOK'
  BY <1>0, <1>1, <1>3, <1>4, <1>5 DEF ApprovalTypeOK, CallStates
<1>7. GateHeld'
  <2>1. call[c].op # "deny" => Permitted(c)
    BY <1>0, <1>1 DEF GateHeld
  <2> QED
    BY <1>0, <1>2, <1>3, <2>1, Zenon DEF GateHeld
<1>8. AuditIsOfCommits'
  BY <1>0, <1>1, <1>2, <1>3 DEF AuditIsOfCommits
<1>9. \A d \in Calls : call'[d].op = call[d].op /\ call'[d].by = call[d].by
  BY <1>2, <1>3
<1>10. audit \subseteq Calls
  BY <1>0 DEF ApprovalTypeOK
<1>11. DecisionsAreOfEffects'
  <2> DEFINE effects == {d \in audit : call[d].op # "deny"}
  <2>1. {d \in audit' : call'[d].op # "deny"} =
          IF call[c].op = "deny" THEN effects ELSE effects \union {c}
    BY <1>1, <1>9, <1>10
  <2>2. decisions = {<<d, TRUE>> : d \in effects}
    BY <1>0 DEF DecisionsAreOfEffects
  <2> HIDE DEF effects
  <2>3. decisions \union {<<c, TRUE>>} = {<<d, TRUE>> : d \in effects \union {c}}
    BY <2>2
  <2> QED
    BY <1>1, <2>1, <2>2, <2>3 DEF DecisionsAreOfEffects
<1>12. DecisionIsAttributed'
  <2> SUFFICES ASSUME ~raced', row'.status \in {"APPROVED", "DENIED"}
               PROVE  call'[c].by = row'.approver /\ Target[call'[c].op] = row'.status
    BY <1>1, <1>10 DEF DecisionIsAttributed
  <2>1. row = call[c].saw
    BY <1>1
  <2>2. row'.status = Target[call[c].op]
    BY <1>1, <2>1 DEF ColumnAfter
  <2>3. call[c].op # "create"
    BY <2>2 DEF Target
  <2>4. row'.approver = call[c].by
    BY <1>1, <2>1, <2>3 DEF ColumnAfter
  <2> QED
    BY <1>9, <2>2, <2>4
<1> QED
  BY <1>6, <1>7, <1>8, <1>11, <1>12 DEF IInv

LEMMA NextIInv == IInv /\ [ApprovalNext]_approvalVars => IInv'
<1> SUFFICES ASSUME IInv, [ApprovalNext]_approvalVars PROVE IInv'
  OBVIOUS
<1>0. /\ ApprovalTypeOK /\ call \in [Calls -> CallStates] /\ row \in Rows
  BY DEF IInv, ApprovalTypeOK, CallStates
<1>1. ASSUME NEW c \in Calls, Begin(c) PROVE IInv'
  <2>1. PICK op \in Ops, p \in Principals, n \in Principals \union {NoPrincipal} :
          call' = [call EXCEPT ![c] =
            [phase |-> IF op = "deny" THEN "ready" ELSE "gate",
             op |-> op, by |-> p, named |-> n, saw |-> row]]
    BY <1>1, ZenonT(40) DEF Begin
  <2> DEFINE me == [phase |-> IF op = "deny" THEN "ready" ELSE "gate",
                    op |-> op, by |-> p, named |-> n, saw |-> row]
  <2>2. /\ me \in CallStates /\ me.phase # "committed"
        /\ me.phase = "ready" => me.op = "deny"
    BY <1>0 DEF CallStates
  <2>3. call' = [call EXCEPT ![c] = me]
    BY <2>1
  <2> HIDE DEF me
  <2> QED
    BY <1>1, <2>2, <2>3, QuietStep DEF Begin
<1>2. ASSUME NEW c \in Calls, NEW p \in {"ready", "refused"},
             call[c].phase \in {"gate", "ready"},
             call' = [call EXCEPT ![c].phase = p],
             p = "ready" => Permitted(c),
             UNCHANGED <<rules, row, decisions, audit, raced>>
      PROVE  IInv'
  <2> DEFINE me == [call[c] EXCEPT !.phase = p]
  <2>1. /\ me \in CallStates /\ me.phase = p /\ me.op = call[c].op
        /\ me.by = call[c].by /\ me.named = call[c].named
    BY <1>0 DEF CallStates
  <2>2. call' = [call EXCEPT ![c] = me]
    BY <1>0, <1>2 DEF CallStates
  <2> HIDE DEF me
  <2> QED
    BY <1>2, <2>1, <2>2, QuietStep
<1>3. ASSUME NEW c \in Calls, PassGate(c) PROVE IInv'
  BY <1>0, <1>2, <1>3, GatePermits DEF PassGate
<1>4. ASSUME NEW c \in Calls, FailGate(c) \/ Abort(c) PROVE IInv'
  BY <1>2, <1>4 DEF FailGate, Abort
<1>5. CASE UNCHANGED approvalVars
  BY <1>5
  DEF approvalVars, IInv, ApprovalTypeOK, GateHeld, Permitted, Context, AuditIsOfCommits,
      DecisionsAreOfEffects, DecisionIsAttributed
<1> QED
  BY <1>1, <1>3, <1>4, <1>5, CommitStep DEF ApprovalNext

THEOREM Invariance == ApprovalSpec => []IInv
BY InitIInv, NextIInv, PTL DEF ApprovalSpec

--------------------------------------------------------------------------------
(* What the runs check *)

\* The variables keep their types.
THEOREM ApprovalTyping == ApprovalSpec => []ApprovalTypeOK
<1>1. IInv => ApprovalTypeOK
  BY DEF IInv
<1> QED
  BY <1>1, Invariance, PTL

\* Whatever rule list is configured, a governed change that committed is one that
\* the first rule that applies allows, with its obligations met.
THEOREM PolicyHolds == ApprovalSpec => []NothingAgainstPolicy
<1>1. IInv => NothingAgainstPolicy
  BY DEF IInv, GateHeld, NothingAgainstPolicy
<1> QED
  BY <1>1, Invariance, PTL

\* The decisions on record are those of the governed calls that took effect.
THEOREM DecisionsRecorded == ApprovalSpec => []DecisionsAreOfEffects
<1>1. IInv => DecisionsAreOfEffects
  BY DEF IInv
<1> QED
  BY <1>1, Invariance, PTL

\* Unless calls raced, the row names who made the decision it holds.
THEOREM Attributed == ApprovalSpec => []DecisionIsAttributed
<1>1. IInv => DecisionIsAttributed
  BY DEF IInv
<1> QED
  BY <1>1, Invariance, PTL

================================================================================
