-------------------------- MODULE MCPricingEditor --------------------------
\* The pricing page with two models, one of them priced by expression.
EXTENDS PricingEditor

MCModels == {"m1", "m2"}

OneTier  == Expr(Body("tiers", <<Tier({}, 1)>>), <<>>)
TwoTiers == Expr(Body("tiers", <<Tier({"len"}, 1), Tier({}, 4)>>), <<>>)

\* m1 has the expression, m2 per-token prices with an audio output ratio
Options(e) ==
  [ratio       |-> [m \in MCModels |-> IF m = "m2" THEN 64 ELSE Blank],
   completion  |-> [m \in MCModels |-> IF m = "m2" THEN 2 * Scale ELSE Blank],
   audioInput  |-> [m \in MCModels |-> IF m = "m2" THEN Scale \div 2 ELSE Blank],
   audioOutput |-> [m \in MCModels |-> IF m = "m2" THEN 2 * Scale ELSE Blank],
   mode        |-> [m \in MCModels |-> IF m = "m1" THEN "tiered" ELSE "none"],
   expr        |-> [m \in MCModels |-> IF m = "m1" THEN e ELSE NoExpr]]

MCInitOptions ==
  {Options(e) : e \in {Combine(TwoTiers, <<"plain">>), Opaque, Combine(OneTier, <<"guarded">>)}}
OpaqueOptions == {Options(Opaque)}

MCDefaultRatio == [m \in MCModels |-> IF m = "m2" THEN 64 ELSE Blank]
\* the last one has readable rules inside its price
MCRawTexts   == {NoExpr, TwoTiers, Combine(Opaque, <<"plain">>),
                 Combine(Combine(TwoTiers, <<"plain">>), <<"plain">>)}
MCPresets    == {[expr |-> OneTier, rules |-> <<>>],
                 [expr |-> TwoTiers, rules |-> <<"plain", "plain">>]}
MCTierPrices == {2}
MCLanePrices == {Blank, 0, 64, 256}
=============================================================================
