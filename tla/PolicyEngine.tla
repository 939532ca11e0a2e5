------------------------------ MODULE PolicyEngine ------------------------------
(***************************************************************************)
(* SimplePolicyEngine (governance/policy_engine.py) and the obligations of *)
(* evaluate_and_record_policy (governance/enforcement.py), as operators.   *)
(*                                                                         *)
(* A rule is [actions, roles, risk, payloads, effect, obligations]: the    *)
(* actions its pattern matches, its roles_any, its risk_max, the payloads  *)
(* that meet its other conditions, and what it decides.  A context is      *)
(* [action, roles, risk, payload, principal, approver, ticket, signed].    *)
(***************************************************************************)
EXTENDS Naturals, Sequences, FiniteSetsExt

\* _risk_rank: a level that is missing or unknown is above every other.
RiskRank(level) ==
  CASE level = "low" -> 1
    [] level = "medium" -> 2
    [] level = "high" -> 3
    [] OTHER -> 999

\* What the roles of a rule without roles_any are; without risk_max its risk is "none".
AnyRole == "any"

\* A rule applies when its action matches and no condition gives a reason
\* against it: an effect of "deny" needs its conditions met just as "allow".
Applies(rule, ctx) ==
  /\ ctx.action \in rule.actions
  /\ AnyRole \in rule.roles \/ rule.roles \cap ctx.roles # {}
  /\ RiskRank(ctx.risk) <= RiskRank(rule.risk)
  /\ ctx.payload \in rule.payloads

Applicable(rules, ctx) == {i \in DOMAIN rules : Applies(rules[i], ctx)}

Denied == [allow |-> FALSE, obligations |-> {}]

\* The first rule that applies decides.
Evaluate(rules, ctx, denyByDefault) ==
  IF Applicable(rules, ctx) = {}
  THEN [allow |-> ~denyByDefault, obligations |-> {}]
  ELSE LET rule == rules[Min(Applicable(rules, ctx))]
       IN  IF rule.effect = "deny" THEN Denied
           ELSE [allow |-> TRUE, obligations |-> rule.obligations]

\* The headers X-Approved-By and X-Ticket-Id and the payload's signature_verified;
\* an obligation of another type (required_checks) is left to the handler.
NoPrincipal == "nobody"
MeetsObligation(obligation, ctx) ==
  CASE obligation = "require_ticket_id" -> ctx.ticket
    [] obligation = "require_approval" -> ctx.approver # NoPrincipal
    [] obligation = "require_2person_rule" -> ctx.approver \notin {NoPrincipal, ctx.principal}
    [] obligation = "require_signature_verification" -> ctx.signed
    [] OTHER -> TRUE

Meets(decision, ctx) == \A o \in decision.obligations : MeetsObligation(o, ctx)

================================================================================
