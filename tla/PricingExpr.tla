---------------------------- MODULE PricingExpr ----------------------------
(***************************************************************************)
(* The price expressions of the console: how the visual editor writes one, *)
(* how the console reads it back (features/pricing/lib/tier-expr.ts and    *)
(* billing-expr.ts), and what the server charges for it                    *)
(* (pkg/billingexpr).                                                      *)
(*                                                                         *)
(* A text is represented by what the parsers tell apart: a body (empty,    *)
(* the constant-zero fallback, a chain of tiers as the visual editor       *)
(* writes it, or anything else, "opaque") and the layers of request-rule   *)
(* factors around it, innermost first: <<r1>>, <<r2>> stands for           *)
(* ((body) * r1) * r2.                                                     *)
(*                                                                         *)
(* A rule is "plain" when its condition is a single comparison (a header,  *)
(* a time, equality or existence of a body parameter) and "guarded" when   *)
(* the builder writes it as  param(p) != nil && ...  (a number or a        *)
(* contains test of a body parameter).  An unfinished rule group is        *)
(* "blank" and writes nothing.                                             *)
(***************************************************************************)
EXTENDS Naturals, Sequences, SequencesExt, Functions, FiniteSets

Rules      == {"plain", "guarded"}
Groups     == Rules \cup {"blank"}
Conditions == {"len", "c"}
NullConfig == <<>>

Body(kind, tiers) == [kind |-> kind, tiers |-> tiers]
Expr(body, layers) == [body |-> body, layers |-> layers]
NoExpr   == Expr(Body("none", <<>>), <<>>)
FreeExpr == Expr(Body("free", <<>>), <<>>)
Opaque   == Expr(Body("opaque", <<>>), <<>>)

Tier(conds, price) == [conds |-> conds, price |-> price]
Tiers == [conds : SUBSET Conditions, price : Nat]
DefaultConfig == <<Tier({}, 0)>>

\* The texts there are.  A chain of tiers ends in its fallback, which has no
\* condition of its own, and an empty text has no factors.
Exprs ==
  {e \in [body : [kind : {"none", "free", "opaque", "tiers"}, tiers : Seq(Tiers)],
          layers : Seq(Seq(Rules) \ {<<>>})] :
     /\ (e.body.kind = "tiers") = (e.body.tiers # <<>>)
     /\ Len(e.body.tiers) > 1 => e.body.tiers[Len(e.body.tiers)].conds = {}
     /\ e.body.kind = "none" => e.layers = <<>>}
----------------------------------------------------------------------------
\* Writing

\* generateExprFromVisualConfig: the last of several tiers is the fallback, so
\* its conditions are not written; without a configuration the price is zero.
GenerateExpr(cfg) ==
  IF cfg = NullConfig THEN FreeExpr
  ELSE Expr(Body("tiers", IF Len(cfg) = 1 THEN cfg
                          ELSE [cfg EXCEPT ![Len(cfg)].conds = {}]), <<>>)

\* buildRequestRuleExpr: groups that are not complete write no factor.
BuildRules(groups) ==
  FoldLeft(LAMBDA rules, g : IF g = "blank" THEN rules ELSE Append(rules, g), <<>>, groups)

\* combineBillingExpr: the rules multiply the whole of the expression.
Combine(expr, rules) ==
  IF expr = NoExpr \/ rules = <<>> THEN expr
  ELSE [expr EXCEPT !.layers = Append(@, rules)]
----------------------------------------------------------------------------
\* Reading

\* tryParseRequestRuleExpr: splitTopLevelAnd cuts a guarded condition at its
\* own &&, and neither half is one the parser knows, so the whole is refused.
CanParseRules(rules) == \A i \in DOMAIN rules : rules[i] = "plain"

\* Seeded bug: one factor is read and the rest of the product is dropped.
ParsedFirst(rules) == IF CanParseRules(rules) /\ rules # <<>> THEN <<rules[1]>> ELSE <<>>

\* tryParseRequestRuleExpr(...) || []
ParsedGroups(rules) == IF CanParseRules(rules) THEN rules ELSE <<>>

\* tryParseVisualConfig: what regenerates to the same text, null otherwise.
TryParseVisual(expr) ==
  IF expr.body.kind = "tiers" /\ expr.layers = <<>> THEN expr.body.tiers
  ELSE NullConfig

\* splitBillingExprAndRequestRules: the outermost factors are taken off when
\* every one of them can be read as a rule, and nothing is otherwise.
Split(expr) ==
  IF expr.layers # <<>> /\ CanParseRules(Last(expr.layers))
  THEN [base |-> [expr EXCEPT !.layers = Front(@)], rules |-> Last(expr.layers)]
  ELSE [base |-> expr, rules |-> <<>>]

\* Rules that can be read, left inside a price after its own were split off.
Nested(expr) == Split(expr).rules # <<>>
----------------------------------------------------------------------------
\* Charging: what a request pays.  A request is short or long in its input
\* and its output and meets the conditions of some of the rules.
Requests == [holds : SUBSET Conditions, meets : SUBSET Rules]

Invalid     == 999
OpaquePrice == 5
Multiplier  == [r \in Rules |-> IF r = "plain" THEN 2 ELSE 3]

\* A chain  c1 ? t1 : c2 ? t2 : t3  needs a condition on all but the last.
Compiles(tiers) == \A i \in 1..Len(tiers) - 1 : tiers[i].conds # {}

BaseCharge(body, req) ==
  CASE body.kind = "opaque" -> OpaquePrice
    [] body.kind = "tiers" ->
         IF ~Compiles(body.tiers) THEN Invalid
         ELSE LET hit == {i \in DOMAIN body.tiers : body.tiers[i].conds \subseteq req.holds}
              IN IF hit = {} THEN 0
                 ELSE body.tiers[CHOOSE i \in hit : \A j \in hit : i <= j].price
    [] OTHER -> 0

Times(charge, rules, req) ==
  FoldLeft(LAMBDA acc, r : IF r \in req.meets THEN acc * Multiplier[r] ELSE acc,
           charge, rules)

Charge(expr, req) ==
  LET base == BaseCharge(expr.body, req)
  IN IF base = Invalid THEN Invalid
     ELSE FoldLeft(LAMBDA acc, layer : Times(acc, layer, req), base, expr.layers)

\* No expression and a zero expression are told apart: without an expression
\* the model is not priced by one at all.
Charges(expr) == IF expr = NoExpr THEN <<>> ELSE [req \in Requests |-> Charge(expr, req)]
=============================================================================
