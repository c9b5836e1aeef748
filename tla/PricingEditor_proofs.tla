------------------------ MODULE PricingEditor_proofs ------------------------
(***************************************************************************)
(* Theorems about PricingEditor, for any models, options, texts, presets   *)
(* and prices and any number of actions of the administrator.              *)
(***************************************************************************)
EXTENDS PricingEditor, InductionLemmas, SequenceTheorems

-----------------------------------------------------------------------------
(* Rules.                                                                  *)

\* buildRequestRuleExpr goes through the groups one by one.
LEMMA BuildRulesSteps ==
  ASSUME NEW groups \in Seq(Groups)
  PROVE  \E f : /\ f[{}] = <<>>
                /\ \A i \in 1..Len(groups) :
                     f[1..i] = IF groups[i] = "blank" THEN f[1..(i - 1)]
                               ELSE Append(f[1..(i - 1)], groups[i])
                /\ BuildRules(groups) = f[1..Len(groups)]
<1> DEFINE n == Len(groups)
           base == <<>>
           V == Seq(Groups)
           Step(v, i) == IF groups[i] = "blank" THEN v ELSE Append(v, groups[i])
           Eq(g) == g = [s \in SUBSET (1..n) |->
                           IF s = {} THEN base ELSE Step(g[s \ {Max(s)}], Max(s))]
           fold == CHOOSE g : Eq(g)
           F == [x \in (1..n) \X V |-> Step(x[2], x[1])]
<1>0. n \in Nat
  OBVIOUS
<1>a. DOMAIN groups = 1..n
  OBVIOUS
<1>1. base \in V
  OBVIOUS
<1>2. \A v \in V, i \in 1..n : Step(v, i) \in V
  OBVIOUS
<1>3. BuildRules(groups) = fold[1..n]
  BY <1>a DEF BuildRules, FoldLeft, MapThenFoldSet
<1>b. \A v, i : Step(v, i) = IF groups[i] = "blank" THEN v ELSE Append(v, groups[i])
  OBVIOUS
<1>c. n = Len(groups) /\ base = <<>>
  OBVIOUS
<1> HIDE DEF n, base, V, Step
<1>4. F \in [(1..n) \X V -> V]
  BY <1>2
<1>5. PICK g : FoldsTo(g, n, V, base, F)
  <2> HIDE DEF F
  <2> QED
    BY <1>0, <1>1, <1>4, FoldExists
<1>6. ASSUME NEW T \in SUBSET (1..n), T # {}
      PROVE  g[T] = Step(g[T \ {Max(T)}], Max(T))
  <2>1. Max(T) \in 1..n /\ g[T \ {Max(T)}] \in V
    BY <1>0, <1>5, <1>6, MaxIn DEF FoldsTo
  <2> QED
    BY <1>5, <1>6, <2>1 DEF FoldsTo
<1>7. Eq(g)
  BY <1>5, <1>6 DEF FoldsTo
<1>8. Eq(fold)
  <2> HIDE DEF Eq
  <2> QED
    BY <1>7
<1> HIDE DEF fold
<1>9. fold[{}] = base
  BY <1>8
<1>10. ASSUME NEW i \in 1..n PROVE fold[1..i] = Step(fold[1..(i - 1)], i)
  <2>1. 1..i \in SUBSET (1..n) /\ i \in Nat /\ i # 0
    BY <1>0
  <2>2. Max(1..i) = i /\ (1..i) \ {i} = 1..(i - 1) /\ 1..i # {}
    BY <2>1, MaxSegment
  <2> QED
    BY <1>8, <2>1, <2>2
<1>11. \A i \in 1..n : fold[1..i] = IF groups[i] = "blank" THEN fold[1..(i - 1)]
                                    ELSE Append(fold[1..(i - 1)], groups[i])
  BY <1>10, <1>b
<1> QED
  BY <1>3, <1>9, <1>11, <1>c

\* What it writes are rules: the unfinished groups are left out.
LEMMA BuildRulesType ==
  ASSUME NEW groups \in Seq(Groups)
  PROVE  BuildRules(groups) \in Seq(Rules)
<1>0. Len(groups) \in Nat
  OBVIOUS
<1>1. PICK f : /\ f[{}] = <<>>
               /\ \A i \in 1..Len(groups) :
                    f[1..i] = IF groups[i] = "blank" THEN f[1..(i - 1)]
                              ELSE Append(f[1..(i - 1)], groups[i])
               /\ BuildRules(groups) = f[1..Len(groups)]
  BY BuildRulesSteps
<1>2. f[{}] \in Seq(Rules)
  BY <1>1
<1>3. ASSUME NEW i \in 1..Len(groups), f[1..(i - 1)] \in Seq(Rules)
      PROVE  f[1..i] \in Seq(Rules)
  <2>1. groups[i] \in Groups
    OBVIOUS
  <2>2. groups[i] = "blank" \/ groups[i] \in Rules
    BY <2>1 DEF Groups
  <2>3. ASSUME NEW x \in Rules, NEW s \in Seq(Rules) PROVE Append(s, x) \in Seq(Rules)
    OBVIOUS
  <2>4. \/ f[1..i] = f[1..(i - 1)]
        \/ groups[i] \in Rules /\ f[1..i] = Append(f[1..(i - 1)], groups[i])
    BY <1>1, <2>2
  <2> QED
    BY <1>3, <2>3, <2>4
<1>4. \A i \in 0..Len(groups) : f[1..i] \in Seq(Rules)
  BY <1>0, <1>2, <1>3, SegmentInduction
<1> QED
  BY <1>0, <1>1, <1>4

\* Finished groups are all written.
LEMMA BuildRulesIsId ==
  ASSUME NEW groups \in Seq(Rules)
  PROVE  BuildRules(groups) = groups
<1>0. Len(groups) \in Nat /\ groups \in Seq(Groups)
  BY SeqMonotonic DEF Groups
<1>1. PICK f : /\ f[{}] = <<>>
               /\ \A i \in 1..Len(groups) :
                    f[1..i] = IF groups[i] = "blank" THEN f[1..(i - 1)]
                              ELSE Append(f[1..(i - 1)], groups[i])
               /\ BuildRules(groups) = f[1..Len(groups)]
  BY <1>0, BuildRulesSteps
<1> DEFINE C == {i \in Nat : i <= Len(groups) => f[1..i] = SubSeq(groups, 1, i)}
<1>2. 0 \in C
  <2>1. 1..0 = {}
    OBVIOUS
  <2>2. SubSeq(groups, 1, 0) = <<>>
    OBVIOUS
  <2> QED
    BY <1>1, <2>1, <2>2
<1>3. ASSUME NEW i \in Nat, i \in C PROVE i + 1 \in C
  <2>1. CASE i + 1 <= Len(groups)
    <3>1. i + 1 \in 1..Len(groups) /\ (i + 1) - 1 = i /\ f[1..i] = SubSeq(groups, 1, i)
      BY <1>3, <2>1
    <3>2. groups[i + 1] # "blank"
      BY <3>1 DEF Rules
    <3>3. f[1..(i + 1)] = Append(SubSeq(groups, 1, i), groups[i + 1])
      BY <1>1, <3>1, <3>2
    <3>4. Append(SubSeq(groups, 1, i), groups[i + 1]) = SubSeq(groups, 1, i + 1)
      <4> DEFINE a == Append(SubSeq(groups, 1, i), groups[i + 1])
                 b == SubSeq(groups, 1, i + 1)
      <4>1. SubSeq(groups, 1, i) \in Seq(Rules) /\ Len(SubSeq(groups, 1, i)) = i
            /\ \A j \in 1..i : SubSeq(groups, 1, i)[j] = groups[j]
        BY <3>1
      <4>2. a \in Seq(Rules) /\ Len(a) = i + 1
        BY <3>1, <4>1
      <4>3. b \in Seq(Rules) /\ Len(b) = i + 1 /\ \A j \in 1..(i + 1) : b[j] = groups[j]
        BY <3>1
      <4>4. \A j \in 1..(i + 1) : a[j] = groups[j]
        BY <3>1, <4>1
      <4> HIDE DEF a, b
      <4> QED
        BY <4>2, <4>3, <4>4, SeqEqual
    <3>5. f[1..(i + 1)] = SubSeq(groups, 1, i + 1)
      BY <3>3, <3>4, Zenon
    <3>6. i + 1 \in Nat
      OBVIOUS
    <3> QED
      BY <3>5, <3>6, Zenon
  <2> QED
    BY <2>1
<1>4. Len(groups) \in C
  <2> HIDE DEF C
  <2> QED
    BY <1>0, <1>2, <1>3, NatSetInduction
<1>5. SubSeq(groups, 1, Len(groups)) = groups
  OBVIOUS
<1> QED
  BY <1>0, <1>1, <1>4, <1>5

-----------------------------------------------------------------------------
(* Expressions.                                                            *)

Layer == Seq(Rules) \ {<<>>}
Kinds == {"none", "free", "opaque", "tiers"}

\* The parts of an expression.
LEMMA ExprParts ==
  ASSUME NEW e \in Exprs
  PROVE  /\ e = [body |-> e.body, layers |-> e.layers]
         /\ e.body = [kind |-> e.body.kind, tiers |-> e.body.tiers]
         /\ e.body.kind \in Kinds /\ e.body.tiers \in Seq(Tiers) /\ e.layers \in Seq(Layer)
         /\ (e.body.kind = "tiers") <=> (e.body.tiers # <<>>)
         /\ Len(e.body.tiers) > 1 => e.body.tiers[Len(e.body.tiers)].conds = {}
         /\ e.body.kind = "none" => e.layers = <<>>
<1>1. /\ e \in [body : [kind : Kinds, tiers : Seq(Tiers)], layers : Seq(Layer)]
      /\ (e.body.kind = "tiers") = (e.body.tiers # <<>>)
      /\ Len(e.body.tiers) > 1 => e.body.tiers[Len(e.body.tiers)].conds = {}
      /\ e.body.kind = "none" => e.layers = <<>>
  BY DEF Exprs, Kinds, Layer
<1> QED
  BY <1>1

\* Parts that make an expression.
LEMMA ExprMade ==
  ASSUME NEW k \in Kinds, NEW tiers \in Seq(Tiers), NEW layers \in Seq(Layer),
         (k = "tiers") <=> (tiers # <<>>),
         Len(tiers) > 1 => tiers[Len(tiers)].conds = {},
         k = "none" => layers = <<>>
  PROVE  Expr(Body(k, tiers), layers) \in Exprs
<1> DEFINE e == Expr(Body(k, tiers), layers)
<1>1. /\ e \in [body : [kind : Kinds, tiers : Seq(Tiers)], layers : Seq(Layer)]
      /\ e.body.kind = k /\ e.body.tiers = tiers /\ e.layers = layers
  BY DEF Expr, Body
<1>2. (e.body.kind = "tiers") = (e.body.tiers # <<>>)
  BY <1>1
<1>3. e \in Exprs
  <2> HIDE DEF e
  <2> QED
    BY <1>1, <1>2 DEF Exprs, Kinds, Layer
<1> QED
  BY <1>3

\* An expression without a body is no expression.
LEMMA NoBody ==
  ASSUME NEW e \in Exprs
  PROVE  (e.body.kind = "none") <=> (e = NoExpr)
  BY ExprParts DEF NoExpr, Expr, Body

\* No expression, the zero price, and anything else.
LEMMA PlainExprs ==
  /\ NoExpr \in Exprs /\ FreeExpr \in Exprs /\ Opaque \in Exprs
  /\ NoExpr # FreeExpr
<1> DEFINE t == <<>>
<1>1. t \in Seq(Tiers) /\ t \in Seq(Layer) /\ ~(Len(t) > 1) /\ t = <<>>
  OBVIOUS
<1>2. ASSUME NEW k \in Kinds, k # "tiers" PROVE Expr(Body(k, <<>>), <<>>) \in Exprs
  <2> HIDE DEF t
  <2>1. Expr(Body(k, t), t) \in Exprs
    BY <1>1, <1>2, ExprMade
  <2> QED
    BY <1>1, <2>1
<1>3. NoExpr \in Exprs
  <2>1. "none" \in Kinds /\ "none" # "tiers"
    BY DEF Kinds
  <2> QED
    BY <1>2, <2>1 DEF NoExpr
<1>4. FreeExpr \in Exprs
  <2>1. "free" \in Kinds /\ "free" # "tiers"
    BY DEF Kinds
  <2> QED
    BY <1>2, <2>1 DEF FreeExpr
<1>5. Opaque \in Exprs
  <2>1. "opaque" \in Kinds /\ "opaque" # "tiers"
    BY DEF Kinds
  <2> QED
    BY <1>2, <2>1 DEF Opaque
<1> QED
  BY <1>3, <1>4, <1>5 DEF NoExpr, FreeExpr, Expr, Body

\* An expression with other layers.
LEMMA Relayered ==
  ASSUME NEW e \in Exprs, NEW layers \in Seq(Layer), e.body.kind = "none" => layers = <<>>
  PROVE  LET x == [e EXCEPT !.layers = layers]
         IN x \in Exprs /\ x.body = e.body /\ x.layers = layers
<1>1. [e EXCEPT !.layers = layers] = Expr(Body(e.body.kind, e.body.tiers), layers)
  BY ExprParts DEF Expr, Body
<1>2. Expr(Body(e.body.kind, e.body.tiers), layers) \in Exprs
  BY ExprParts, ExprMade
<1> QED
  BY <1>1, <1>2, ExprParts DEF Expr, Body

\* What lies above zero, and is not one, lies above one.
LEMMA AboveOne ==
  ASSUME NEW n \in Nat, n > 0, n # 1
  PROVE  n > 1
  OBVIOUS

\* The length of a sequence with an element.
LEMMA NonEmptySeq ==
  ASSUME NEW S, NEW s \in Seq(S), s # <<>>
  PROVE  Len(s) \in Nat /\ Len(s) > 0 /\ s[Len(s)] \in S
  OBVIOUS

\* A sequence is all but its last element, and that one.
LEMMA EndsOf ==
  ASSUME NEW S, NEW s \in Seq(S), s # <<>>
  PROVE  Last(s) \in S /\ Front(s) \in Seq(S) /\ Append(Front(s), Last(s)) = s
<1>1. Len(s) \in Nat /\ Len(s) > 0
  OBVIOUS
<1>2. Last(s) \in S /\ Front(s) \in Seq(S) /\ Len(Front(s)) = Len(s) - 1
      /\ \A i \in 1..(Len(s) - 1) : Front(s)[i] = s[i]
  <2>1. s[Len(s)] \in S
    BY <1>1
  <2>2. Len(s) - 1 \in Nat /\ Len(s) - 1 <= Len(s)
    BY <1>1
  <2>5. PICK m \in Nat : m = Len(s) - 1 /\ m <= Len(s)
    BY <2>2
  <2>3. SubSeq(s, 1, m) \in Seq(S) /\ Len(SubSeq(s, 1, m)) = m
    BY <2>5
  <2>4. \A i \in 1..m : SubSeq(s, 1, m)[i] = s[i]
    BY <2>5
  <2> QED
    BY <2>1, <2>5, <2>3, <2>4 DEF Last, Front
<1>3. Append(Front(s), Last(s)) \in Seq(S) /\ Len(Append(Front(s), Last(s))) = Len(s)
  BY <1>1, <1>2
<1>4. \A i \in 1..Len(s) : Append(Front(s), Last(s))[i] = s[i]
  <2>1. Last(s) = s[Len(s)]
    BY DEF Last
  <2> QED
    BY <1>1, <1>2, <2>1
<1> QED
  BY <1>2, <1>3, <1>4, SeqEqual

\* What an element was appended to, and the element.
LEMMA EndsOfAppend ==
  ASSUME NEW S, NEW s \in Seq(S), NEW x \in S
  PROVE  /\ Append(s, x) # <<>> /\ Append(s, x) \in Seq(S)
         /\ Last(Append(s, x)) = x /\ Front(Append(s, x)) = s
<1>1. /\ Append(s, x) # <<>> /\ Append(s, x) \in Seq(S) /\ Last(Append(s, x)) = x
      /\ Len(Append(s, x)) = Len(s) + 1 /\ Len(s) \in Nat
  BY DEF Last
<1>2. Front(Append(s, x)) \in Seq(S) /\ Len(Front(Append(s, x))) = Len(s)
  BY <1>1 DEF Front
<1>3. \A i \in 1..Len(s) : Front(Append(s, x))[i] = s[i]
  BY <1>1 DEF Front
<1> QED
  BY <1>1, <1>2, <1>3, SeqEqual

\* splitBillingExprAndRequestRules takes an expression apart into a price and
\* rules that the parser reads.
LEMMA SplitType ==
  ASSUME NEW e \in Exprs
  PROVE  /\ Split(e).base \in Exprs /\ Split(e).rules \in Seq(Rules)
         /\ CanParseRules(Split(e).rules)
         /\ Split(e).rules = <<>> => Split(e).base = e
         /\ Split(e).base.body = e.body
<1>1. CASE e.layers # <<>> /\ CanParseRules(Last(e.layers))
  <2>1. Last(e.layers) \in Layer /\ Front(e.layers) \in Seq(Layer)
    BY <1>1, ExprParts, EndsOf
  <2>2. e.body.kind # "none"
    BY <1>1, ExprParts
  <2>3. [e EXCEPT !.layers = Front(@)] = [e EXCEPT !.layers = Front(e.layers)]
    OBVIOUS
  <2>4. [e EXCEPT !.layers = Front(@)] \in Exprs /\ [e EXCEPT !.layers = Front(@)].body = e.body
    BY <2>1, <2>2, <2>3, Relayered
  <2> QED
    BY <1>1, <2>1, <2>4 DEF Split, Layer
<1>2. CASE ~(e.layers # <<>> /\ CanParseRules(Last(e.layers)))
  <2>1. Split(e) = [base |-> e, rules |-> <<>>]
    BY <1>2 DEF Split
  <2> QED
    BY <2>1 DEF CanParseRules
<1> QED
  BY <1>1, <1>2

\* combineBillingExpr makes an expression again.
LEMMA CombineType ==
  ASSUME NEW e \in Exprs, NEW rules \in Seq(Rules)
  PROVE  Combine(e, rules) \in Exprs
<1>1. CASE e # NoExpr /\ rules # <<>>
  <2>1. rules \in Layer /\ e.layers \in Seq(Layer)
    BY <1>1, ExprParts DEF Layer
  <2>3. Append(e.layers, rules) \in Seq(Layer)
    BY <2>1
  <2>2. e.body.kind # "none"
    BY <1>1, NoBody
  <2> QED
    BY <1>1, <2>2, <2>3, Relayered DEF Combine
<1> QED
  BY <1>1 DEF Combine

\* What combineBillingExpr has put around a price, layer by layer.
LEMMA CombineParts ==
  ASSUME NEW e \in Exprs, NEW rules \in Seq(Rules), e # NoExpr, rules # <<>>
  PROVE  /\ Combine(e, rules).layers # <<>>
         /\ Combine(e, rules).body = e.body
         /\ Last(Combine(e, rules).layers) = rules
         /\ [Combine(e, rules) EXCEPT !.layers = Front(@)] = e
         /\ Len(Combine(e, rules).layers) = Len(e.layers) + 1
<1>1. rules \in Layer /\ e.layers \in Seq(Layer) /\ e = [body |-> e.body, layers |-> e.layers]
  BY ExprParts DEF Layer
<1>2. /\ Append(e.layers, rules) # <<>> /\ Last(Append(e.layers, rules)) = rules
      /\ Front(Append(e.layers, rules)) = e.layers
      /\ Len(Append(e.layers, rules)) = Len(e.layers) + 1
  BY <1>1, EndsOfAppend
<1>3. Combine(e, rules) = [body |-> e.body, layers |-> Append(e.layers, rules)]
  BY <1>1 DEF Combine
<1> HIDE DEF Layer
<1> QED
  BY <1>1, <1>2, <1>3

\* Splitting undoes combining when the parser reads the rules, and does nothing
\* when it does not.
LEMMA SplitCombined ==
  ASSUME NEW e \in Exprs, NEW rules \in Seq(Rules), e # NoExpr, rules # <<>>
  PROVE  Split(Combine(e, rules)) =
           IF CanParseRules(rules) THEN [base |-> e, rules |-> rules]
           ELSE [base |-> Combine(e, rules), rules |-> <<>>]
<1> DEFINE x == Combine(e, rules)
<1>1. /\ x.layers # <<>> /\ Last(x.layers) = rules
      /\ [x EXCEPT !.layers = Front(@)] = e
  BY CombineParts
<1> HIDE DEF x
<1>2. Split(x) = IF CanParseRules(rules) THEN [base |-> e, rules |-> rules]
                 ELSE [base |-> x, rules |-> <<>>]
  BY <1>1 DEF Split
<1> QED
  BY <1>2 DEF x

\* Combining what was split gives the expression back.
LEMMA CombineSplit ==
  ASSUME NEW e \in Exprs
  PROVE  Combine(Split(e).base, Split(e).rules) = e
<1>1. CASE e.layers # <<>> /\ CanParseRules(Last(e.layers))
  <2> DEFINE b == [e EXCEPT !.layers = Front(e.layers)]
  <2>1. /\ e.layers \in Seq(Layer) /\ e = [body |-> e.body, layers |-> e.layers]
        /\ e.body.kind # "none"
    BY <1>1, ExprParts
  <2>2. /\ Last(e.layers) \in Layer /\ Front(e.layers) \in Seq(Layer)
        /\ Append(Front(e.layers), Last(e.layers)) = e.layers
    BY <1>1, <2>1, EndsOf
  <2>3. Split(e).base = b /\ Split(e).rules = Last(e.layers)
    BY <1>1 DEF Split
  <2>4. b \in Exprs /\ b.body = e.body /\ b.layers = Front(e.layers)
    BY <2>1, <2>2, Relayered
  <2>5. b # NoExpr /\ Last(e.layers) # <<>>
    BY <2>1, <2>2, <2>4, NoBody DEF Layer
  <2>6. b = [body |-> e.body, layers |-> Front(e.layers)]
    BY <2>1
  <2> HIDE DEF b
  <2>7. Combine(b, Last(e.layers)) = [b EXCEPT !.layers = Append(Front(e.layers), Last(e.layers))]
    BY <2>4, <2>5 DEF Combine
  <2>8. [b EXCEPT !.layers = Append(Front(e.layers), Last(e.layers))]
          = [body |-> e.body, layers |-> e.layers]
    BY <2>2, <2>6
  <2> QED
    BY <2>1, <2>3, <2>7, <2>8
<1>2. CASE ~(e.layers # <<>> /\ CanParseRules(Last(e.layers)))
  BY <1>2 DEF Split, Combine
<1> QED
  BY <1>1, <1>2

\* A price without layers has no rules of its own.
LEMMA UnlayeredSplit ==
  ASSUME NEW e, e.layers = <<>>
  PROVE  Split(e) = [base |-> e, rules |-> <<>>] /\ ~Nested(e)
  BY DEF Split, Nested

\* tryParseVisualConfig and tryParseRequestRuleExpr give tiers and groups.
LEMMA ParsedType ==
  ASSUME NEW e \in Exprs, NEW rules \in Seq(Rules)
  PROVE  /\ TryParseVisual(e) \in Seq(Tiers)
         /\ ParsedGroups(rules) \in Seq(Groups)
         /\ ParsedGroups(rules) \in Seq(Rules)
<1>1. TryParseVisual(e) \in Seq(Tiers)
  <2>1. e.body.tiers \in Seq(Tiers)
    BY ExprParts
  <2>2. <<>> \in Seq(Tiers)
    OBVIOUS
  <2> QED
    BY <2>1, <2>2, Zenon DEF TryParseVisual, NullConfig
<1>2. ParsedGroups(rules) \in Seq(Rules)
  BY DEF ParsedGroups
<1>3. Rules \subseteq Groups
  BY DEF Groups
<1> QED
  BY <1>1, <1>2, <1>3, SeqMonotonic

\* The default configuration is one tier.
LEMMA DefaultType ==
  DefaultConfig \in Seq(Tiers) /\ DefaultConfig # NullConfig /\ Len(DefaultConfig) = 1
<1>1. Tier({}, 0) \in Tiers
  BY DEF Tier, Tiers
<1> HIDE DEF Tiers
<1> QED
  BY <1>1 DEF DefaultConfig, NullConfig

\* The tiers as generateExprFromVisualConfig writes them.
Written(cfg) == IF Len(cfg) = 1 THEN cfg ELSE [cfg EXCEPT ![Len(cfg)].conds = {}]

\* They end in a fallback.
LEMMA WrittenType ==
  ASSUME NEW cfg \in Seq(Tiers), cfg # NullConfig
  PROVE  /\ Written(cfg) \in Seq(Tiers) /\ Written(cfg) # NullConfig
         /\ Len(Written(cfg)) > 1 => Written(cfg)[Len(Written(cfg))].conds = {}
<1>1. CASE Len(cfg) = 1
  <2>1. Written(cfg) = cfg
    BY <1>1 DEF Written
  <2>2. ~(Len(Written(cfg)) > 1)
    BY <1>1, <2>1
  <2> QED
    BY <2>1, <2>2, Zenon
<1>2. CASE Len(cfg) # 1
  <2>1. Len(cfg) \in Nat /\ Len(cfg) > 1 /\ cfg[Len(cfg)] \in Tiers
    <3>1. Len(cfg) \in Nat /\ Len(cfg) > 0 /\ cfg[Len(cfg)] \in Tiers
      BY NonEmptySeq, Zenon DEF NullConfig
    <3> QED
      BY <1>2, <3>1, AboveOne, Zenon
  <2>2. [cfg[Len(cfg)] EXCEPT !.conds = {}] \in Tiers /\ [cfg[Len(cfg)] EXCEPT !.conds = {}].conds = {}
    BY <2>1 DEF Tiers
  <2>3. PICK t \in Tiers : t = [cfg[Len(cfg)] EXCEPT !.conds = {}] /\ t.conds = {}
    BY <2>2
  <2>4. Written(cfg) = [cfg EXCEPT ![Len(cfg)] = t]
    BY <1>2, <2>3 DEF Written
  <2>5. /\ [cfg EXCEPT ![Len(cfg)] = t] \in Seq(Tiers)
        /\ Len([cfg EXCEPT ![Len(cfg)] = t]) = Len(cfg)
        /\ [cfg EXCEPT ![Len(cfg)] = t][Len(cfg)] = t
    BY <2>1
  <2>6. Written(cfg) # NullConfig
    BY <2>1, <2>4, <2>5 DEF NullConfig
  <2> QED
    BY <2>3, <2>4, <2>5, <2>6
<1> QED
  BY <1>1, <1>2

\* generateExprFromVisualConfig writes an expression without layers, and one
\* that the visual editor reads back when there are tiers.
LEMMA GenerateType ==
  ASSUME NEW cfg \in Seq(Tiers)
  PROVE  /\ GenerateExpr(cfg) \in Exprs /\ GenerateExpr(cfg).layers = <<>>
         /\ GenerateExpr(cfg) # NoExpr /\ ~Nested(GenerateExpr(cfg))
         /\ cfg # NullConfig => TryParseVisual(GenerateExpr(cfg)) # NullConfig
<1>1. CASE cfg = NullConfig
  <2>1. GenerateExpr(cfg) = FreeExpr /\ FreeExpr.layers = <<>>
    BY <1>1 DEF GenerateExpr, FreeExpr, Expr
  <2> QED
    BY <1>1, <2>1, PlainExprs, UnlayeredSplit
<1>2. CASE cfg # NullConfig
  <2> DEFINE e == Expr(Body("tiers", Written(cfg)), <<>>)
  <2>1. GenerateExpr(cfg) = e
    BY <1>2 DEF GenerateExpr, Written
  <2>2. /\ "tiers" \in Kinds /\ Written(cfg) \in Seq(Tiers) /\ Written(cfg) # <<>>
        /\ Len(Written(cfg)) > 1 => Written(cfg)[Len(Written(cfg))].conds = {}
        /\ <<>> \in Seq(Layer)
    BY <1>2, WrittenType DEF Kinds, NullConfig
  <2>3. e \in Exprs
    <3> DEFINE l == <<>>
    <3>1. l \in Seq(Layer)
      OBVIOUS
    <3> HIDE DEF l
    <3>2. Expr(Body("tiers", Written(cfg)), l) \in Exprs
      BY <2>2, <3>1, ExprMade
    <3> QED
      BY <3>2 DEF l
  <2>4. e.layers = <<>> /\ e.body.kind = "tiers" /\ e.body.tiers = Written(cfg)
    BY DEF Expr, Body
  <2> HIDE DEF e
  <2>5. e # NoExpr
    BY <2>3, <2>4, NoBody
  <2>6. TryParseVisual(e) # NullConfig
    BY <2>2, <2>4 DEF TryParseVisual, NullConfig
  <2> QED
    BY <2>1, <2>3, <2>4, <2>5, <2>6, UnlayeredSplit
<1> QED
  BY <1>1, <1>2

\* What the visual editor reads, it writes back.
LEMMA GenerateParsed ==
  ASSUME NEW e \in Exprs, e.body.kind = "tiers", e.layers = <<>>
  PROVE  /\ TryParseVisual(e) = e.body.tiers /\ e.body.tiers # NullConfig
         /\ GenerateExpr(e.body.tiers) = e
<1> DEFINE t == e.body.tiers
           n == Len(t)
<1>1. /\ TryParseVisual(e) = t /\ t # NullConfig /\ t \in Seq(Tiers) /\ n \in Nat
      /\ n > 1 => t[n].conds = {}
      /\ e = Expr(Body("tiers", t), <<>>)
  <2>1. t \in Seq(Tiers) /\ t # <<>> /\ (n > 1 => t[n].conds = {})
    BY ExprParts
  <2>2. TryParseVisual(e) = t /\ t # NullConfig
    BY <2>1 DEF TryParseVisual, NullConfig
  <2>3. e = Expr(Body("tiers", t), <<>>)
    BY ExprParts DEF Expr, Body
  <2>4. n \in Nat
    BY <2>1, NonEmptySeq
  <2> QED
    BY <2>1, <2>2, <2>3, <2>4
<1>2. Written(t) = t
  <2>1. CASE n = 1
    BY <2>1 DEF Written
  <2>2. CASE n # 1
    <3>1. n > 1 /\ t[n] \in Tiers /\ t[n].conds = {}
      <4>1. n \in Nat /\ n > 0 /\ t[n] \in Tiers
        BY <1>1, NonEmptySeq, Zenon DEF NullConfig
      <4>2. n > 1
        BY <2>2, <4>1, AboveOne, Zenon
      <4> QED
        BY <1>1, <4>1, <4>2
    <3>2. [t[n] EXCEPT !.conds = {}] = t[n]
      BY <3>1 DEF Tiers
    <3>3. [t EXCEPT ![n].conds = {}] = [t EXCEPT ![n] = t[n]]
      BY <3>2
    <3> HIDE DEF t
    <3>4. [t EXCEPT ![n] = t[n]] = t
      BY <1>1, <3>1
    <3> QED
      BY <2>2, <3>3, <3>4 DEF Written
  <2> QED
    BY <2>1, <2>2
<1> HIDE DEF t
<1>3. GenerateExpr(t) = Expr(Body("tiers", Written(t)), <<>>)
  BY <1>1 DEF GenerateExpr, Written
<1> QED
  BY <1>1, <1>2, <1>3 DEF t

-----------------------------------------------------------------------------
(* Types.                                                                  *)

\* What the tabs of the panel are called.
Modes == {"token", "tiered"}

\* A model's prices as they are edited, the panel and the editor.
Drafts ==
  [name : Models, mode : Modes, bexpr : Exprs, rules : Seq(Rules),
   ratio : Price, lane : [Lanes -> Price]]
Panels ==
  [open : BOOLEAN, saved : BOOLEAN, named : BOOLEAN, name : Models, mode : Modes,
   bexpr : Exprs, rules : Seq(Rules), ratio : Price, lane : [Lanes -> Price],
   prompt : Price, price : [Lanes -> Price], on : [Lanes -> BOOLEAN],
   seen : Exprs, touched : BOOLEAN, odd : BOOLEAN]
Editors ==
  [on : BOOLEAN, mode : {"visual", "raw"}, cfg : Seq(Tiers), raw : Exprs,
   groups : Seq(Groups), init : BOOLEAN, fresh : BOOLEAN, renamed : BOOLEAN,
   last : Exprs \X Seq(Rules), dirty : BOOLEAN]
Saves == [left : SUBSET Range(Keys), values : PricingOptions]

\* The arithmetic of deriveLanePrice and deriveLaneRatio.
LEMMA QuotientType ==
  ASSUME NEW a \in Nat, NEW b \in Nat, NEW d \in Nat, d # 0
  PROVE  (a * b) \div d \in Nat
<1>1. a * b \in Nat
  OBVIOUS
<1>2. \A n \in Nat : n \div d \in Nat
  OBVIOUS
<1> QED
  BY <1>1, <1>2

\* The ratio and the price of a lane are numbers or empty.
LEMMA LaneTypes ==
  ASSUME NEW x \in Price, NEW base \in Price
  PROVE  LanePrice(x, base) \in Price /\ LaneRatio(x, base) \in Price
<1>1. Blank \in Price /\ Nat \subseteq Price
  BY DEF Price
<1>2. Scale \in Nat /\ Scale # 0
  BY DEF Scale
<1>3. LanePrice(x, base) \in Price
  <2>1. CASE x # Blank /\ base # Blank
    <3>1. x \in Nat /\ base \in Nat
      BY <2>1 DEF Price
    <3>2. (x * base) \div Scale \in Nat
      BY <1>2, <3>1, QuotientType
    <3> QED
      BY <1>1, <2>1, <3>2 DEF LanePrice
  <2> QED
    BY <1>1, <2>1 DEF LanePrice
<1>4. LaneRatio(x, base) \in Price
  <2>1. CASE x # Blank /\ base # Blank /\ base # 0
    <3>1. x \in Nat /\ base \in Nat
      BY <2>1 DEF Price
    <3>2. (x * Scale) \div base \in Nat
      BY <1>2, <2>1, <3>1, QuotientType
    <3> QED
      BY <1>1, <2>1, <3>2 DEF LaneRatio
  <2> QED
    BY <1>1, <2>1 DEF LaneRatio
<1> QED
  BY <1>3, <1>4

\* So is the price it is relative to.
LEMMA BaseType ==
  ASSUME NEW l \in Lanes, NEW prompt \in Price, NEW price \in [Lanes -> Price]
  PROVE  BaseOf(l, prompt, price) \in Price
<1>1. "audioInput" \in Lanes
  BY DEF Lanes
<1> QED
  BY <1>1 DEF BaseOf

\* The prices of a model, ready to be edited.
LEMMA EditDataType ==
  ASSUME NEW o \in PricingOptions, NEW m \in Models
  PROVE  EditData(o, m) \in Drafts
<1>1. /\ o.ratio[m] \in Price /\ o.expr[m] \in Exprs
      /\ o.completion[m] \in Price /\ o.audioInput[m] \in Price /\ o.audioOutput[m] \in Price
  BY DEF PricingOptions
<1>2. [l \in Lanes |-> o[l][m]] \in [Lanes -> Price]
  BY <1>1 DEF Lanes
<1>3. Split(o.expr[m]).base \in Exprs /\ Split(o.expr[m]).rules \in Seq(Rules)
  BY <1>1, SplitType
<1>4. NoExpr \in Exprs /\ <<>> \in Seq(Rules)
  BY PlainExprs
<1> QED
  BY <1>1, <1>2, <1>3, <1>4 DEF EditData, Drafts, Modes

\* What persistPricingData makes of the options.
LEMMA PersistType ==
  ASSUME NEW o \in PricingOptions, NEW d \in Drafts, NEW targets
  PROVE  Persist(o, d, targets) \in PricingOptions
<1> DEFINE combined == IF d.mode = "tiered" THEN Combine(d.bexpr, d.rules) ELSE NoExpr
           Put(f, v) == [m \in Models |-> IF m \in targets THEN v ELSE f[m]]
<1>1. /\ d.ratio \in Price /\ d.lane.completion \in Price /\ d.lane.audioInput \in Price
      /\ d.lane.audioOutput \in Price
  BY DEF Drafts, Lanes
<1>2. combined \in Exprs
  <2>1. d.bexpr \in Exprs /\ d.rules \in Seq(Rules)
    BY DEF Drafts
  <2> QED
    BY <2>1, CombineType, PlainExprs
<1>3. /\ o.ratio \in [Models -> Price] /\ o.completion \in [Models -> Price]
      /\ o.audioInput \in [Models -> Price] /\ o.audioOutput \in [Models -> Price]
      /\ o.mode \in [Models -> {"none", "tiered"}] /\ o.expr \in [Models -> Exprs]
  BY DEF PricingOptions
<1>4. (IF combined = NoExpr THEN "none" ELSE "tiered") \in {"none", "tiered"}
  OBVIOUS
<1>5. ASSUME NEW S, NEW f \in [Models -> S], NEW v \in S PROVE Put(f, v) \in [Models -> S]
  OBVIOUS
<1>6. Persist(o, d, targets) =
        [ratio       |-> Put(o.ratio, d.ratio),
         completion  |-> Put(o.completion, d.lane.completion),
         audioInput  |-> Put(o.audioInput, d.lane.audioInput),
         audioOutput |-> Put(o.audioOutput, d.lane.audioOutput),
         mode        |-> Put(o.mode, IF combined = NoExpr THEN "none" ELSE "tiered"),
         expr        |-> Put(o.expr, combined)]
  BY DEF Persist
<1> HIDE DEF Put, combined
<1>7. /\ Put(o.ratio, d.ratio) \in [Models -> Price]
      /\ Put(o.completion, d.lane.completion) \in [Models -> Price]
      /\ Put(o.audioInput, d.lane.audioInput) \in [Models -> Price]
      /\ Put(o.audioOutput, d.lane.audioOutput) \in [Models -> Price]
      /\ Put(o.expr, combined) \in [Models -> Exprs]
  BY <1>1, <1>2, <1>3, <1>5
<1>8. Put(o.mode, IF combined = NoExpr THEN "none" ELSE "tiered") \in [Models -> {"none", "tiered"}]
  <2> DEFINE v == IF combined = NoExpr THEN "none" ELSE "tiered"
  <2>1. v \in {"none", "tiered"}
    BY <1>4
  <2> HIDE DEF v
  <2>2. Put(o.mode, v) \in [Models -> {"none", "tiered"}]
    BY <1>3, <1>5, <2>1
  <2> QED
    BY <2>2 DEF v
<1> QED
  BY <1>6, <1>7, <1>8 DEF PricingOptions

\* A model that has no prices.
LEMMA NoPricingType ==
  ASSUME NEW m \in Models
  PROVE  NoPricing(m) \in Drafts
<1>1. NoExpr \in Exprs /\ <<>> \in Seq(Rules) /\ Blank \in Price
  BY PlainExprs DEF Price
<1>2. [l \in Lanes |-> Blank] \in [Lanes -> Price]
  BY <1>1
<1> QED
  BY <1>1, <1>2 DEF NoPricing, Drafts, Modes

\* A row of the table holds prices that can be edited.
LEMMA RowDataType ==
  ASSUME form \in PricingOptions, baseline \in PricingOptions, NEW m \in Models
  PROVE  RowData(m) \in Drafts
  BY EditDataType DEF RowData

\* createInitialLaneState
LEMMA InitialPricesType ==
  ASSUME NEW d \in Drafts
  PROVE  InitialPrices(d).prompt \in Price /\ InitialPrices(d).price \in [Lanes -> Price]
<1> DEFINE prompt == IF d.ratio = Blank THEN Blank ELSE d.ratio * 2
           audio  == LanePrice(d.lane.audioInput, prompt)
<1>1. /\ d.ratio \in Price /\ d.lane.completion \in Price /\ d.lane.audioInput \in Price
      /\ d.lane.audioOutput \in Price
  BY DEF Drafts, Lanes
<1>2. prompt \in Price
  <2>1. CASE d.ratio = Blank
    BY <2>1 DEF Price
  <2>2. CASE d.ratio # Blank
    <3>1. d.ratio \in Nat
      BY <1>1, <2>2 DEF Price
    <3>2. d.ratio * 2 \in Nat
      BY <3>1
    <3> QED
      BY <2>2, <3>2 DEF Price
  <2> QED
    BY <2>1, <2>2
<1>3. audio \in Price
  BY <1>1, <1>2, LaneTypes
<1>4. InitialPrices(d) =
        [prompt |-> prompt,
         price |-> [completion  |-> LanePrice(d.lane.completion, prompt),
                    audioInput  |-> audio,
                    audioOutput |-> LanePrice(d.lane.audioOutput, audio)]]
  BY DEF InitialPrices
<1> HIDE DEF prompt, audio
<1>5. LanePrice(d.lane.completion, prompt) \in Price /\ LanePrice(d.lane.audioOutput, audio) \in Price
  BY <1>1, <1>2, <1>3, LaneTypes
<1>6. ASSUME NEW a \in Price, NEW b \in Price, NEW c \in Price
      PROVE  [completion |-> a, audioInput |-> b, audioOutput |-> c] \in [Lanes -> Price]
  BY DEF Lanes
<1> QED
  BY <1>2, <1>3, <1>4, <1>5, <1>6

\* The panel that opens on a model's prices.
LEMMA PanelForType ==
  ASSUME NEW d \in Drafts, NEW saved \in BOOLEAN
  PROVE  /\ PanelFor(d, saved) \in Panels
         /\ PanelFor(d, saved).open /\ PanelFor(d, saved).mode = d.mode
<1>1. /\ d.name \in Models /\ d.mode \in Modes /\ d.bexpr \in Exprs /\ d.rules \in Seq(Rules)
      /\ d.ratio \in Price /\ d.lane \in [Lanes -> Price]
  BY DEF Drafts
<1>2. InitialPrices(d).prompt \in Price /\ InitialPrices(d).price \in [Lanes -> Price]
  BY InitialPricesType
<1>3. Combine(d.bexpr, d.rules) \in Exprs
  BY <1>1, CombineType
<1>4. [l \in Lanes |-> d.lane[l] # Blank] \in [Lanes -> BOOLEAN]
  BY Zenon
<1>5. Nested(d.bexpr) \in BOOLEAN
  BY Zenon DEF Nested
<1>6. ASSUME NEW on \in [Lanes -> BOOLEAN], NEW odd \in BOOLEAN
      PROVE  [open |-> TRUE, saved |-> saved, named |-> saved, name |-> d.name, mode |-> d.mode,
              bexpr |-> d.bexpr, rules |-> d.rules, ratio |-> d.ratio, lane |-> d.lane,
              prompt |-> InitialPrices(d).prompt, price |-> InitialPrices(d).price,
              on |-> on, seen |-> Combine(d.bexpr, d.rules), touched |-> FALSE,
              odd |-> odd] \in Panels
  BY <1>1, <1>2, <1>3 DEF Panels
<1>7. PanelFor(d, saved) \in Panels
  <2> DEFINE on == [l \in Lanes |-> d.lane[l] # Blank]
  <2>1. on \in [Lanes -> BOOLEAN]
    BY <1>4
  <2> HIDE DEF on
  <2>2. [open |-> TRUE, saved |-> saved, named |-> saved, name |-> d.name, mode |-> d.mode,
              bexpr |-> d.bexpr, rules |-> d.rules, ratio |-> d.ratio, lane |-> d.lane,
              prompt |-> InitialPrices(d).prompt, price |-> InitialPrices(d).price,
              on |-> on, seen |-> Combine(d.bexpr, d.rules), touched |-> FALSE,
              odd |-> Nested(d.bexpr)] \in Panels
    BY <1>5, <1>6, <2>1, Zenon
  <2> QED
    BY <2>2 DEF PanelFor, on
<1> QED
  BY <1>7 DEF PanelFor

\* The panel while it is closed.
LEMMA ClosedType ==
  Closed \in Panels /\ ~Closed.open
<1> DEFINE p == PanelFor(NoPricing(CHOOSE m \in Models : TRUE), FALSE)
<1>1. (CHOOSE m \in Models : TRUE) \in Models
  BY ConstantsOK
<1>2. p \in Panels
  BY <1>1, NoPricingType, PanelForType
<1> HIDE DEF p
<1>3. [p EXCEPT !.open = FALSE] \in Panels /\ ~[p EXCEPT !.open = FALSE].open
  BY <1>2 DEF Panels
<1> QED
  BY <1>3 DEF Closed, p

\* The editor while it is not mounted.
LEMMA UnmountedType ==
  Unmounted \in Editors /\ ~Unmounted.on /\ ~Unmounted.dirty
<1>1. NoExpr \in Exprs /\ <<>> \in Seq(Rules) /\ <<>> \in Seq(Tiers) /\ <<>> \in Seq(Groups)
  BY PlainExprs
<1> QED
  BY <1>1 DEF Unmounted, Editors, NullConfig

\* A mount of TieredPricingEditor.
LEMMA MountedType ==
  ASSUME NEW p \in Panels
  PROVE  /\ Mounted(p) \in Editors
         /\ Mounted(p).on <=> (p.open /\ p.mode = "tiered")
         /\ Mounted(p).on => Mounted(p).dirty /\ Mounted(p).mode = "visual"
<1>1. p.bexpr \in Exprs /\ p.rules \in Seq(Rules)
  BY DEF Panels
<1>2. /\ TryParseVisual(p.bexpr) \in Seq(Tiers) /\ Combine(p.bexpr, p.rules) \in Exprs
      /\ ParsedGroups(p.rules) \in Seq(Groups)
  BY <1>1, ParsedType, CombineType
<1>3. CASE p.open /\ p.mode = "tiered"
  <2>1. Mounted(p) =
          [on |-> TRUE, mode |-> "visual", cfg |-> TryParseVisual(p.bexpr),
           raw |-> Combine(p.bexpr, p.rules), groups |-> ParsedGroups(p.rules),
           init |-> FALSE, fresh |-> TRUE, renamed |-> FALSE,
           last |-> <<NoExpr, <<>>>>, dirty |-> TRUE]
    BY <1>3 DEF Mounted, Unmounted
  <2>2. <<NoExpr, <<>>>> \in Exprs \X Seq(Rules)
    <3>1. <<>> \in Seq(Rules)
      OBVIOUS
    <3> QED
      BY <3>1, PlainExprs, Zenon
  <2> QED
    BY <1>2, <1>3, <2>1, <2>2 DEF Editors
<1>4. CASE ~(p.open /\ p.mode = "tiered")
  BY <1>4, UnmountedType DEF Mounted
<1> QED
  BY <1>3, <1>4

\* buildSubmitData
LEMMA CommittedType ==
  ASSUME panel \in Panels
  PROVE  Committed \in Drafts
<1>1. NoExpr \in Exprs /\ <<>> \in Seq(Rules)
  BY PlainExprs
<1> QED
  BY <1>1 DEF Committed, Panels, Drafts

-----------------------------------------------------------------------------
(* The panel and the editor.  The invariant that relates them holds after  *)
(* every event and every single pass of the effects, settled or not.       *)

\* The editor is mounted while the panel shows its tab; one that has run no
\* effect is as it was mounted, and only such a one may have no tiers to show.
Shape(p, e) ==
  /\ p \in Panels /\ e \in Editors
  /\ e.on <=> (p.open /\ p.mode = "tiered")
  /\ e.dirty => e.on
  /\ e.fresh => e.on /\ e = Mounted(p)
  /\ e.on /\ e.mode = "visual" /\ ~e.fresh => e.cfg # NullConfig

\* Groups that write the given rules, or nothing when the parser refused them.
Fits(groups, rules) ==
  \/ BuildRules(groups) = rules
  \/ ~CanParseRules(rules) /\ BuildRules(groups) = <<>>

\* With no effect due, the panel has what the editor reports.
Reported(p, e) ==
  e.on /\ ~e.dirty =>
    /\ p.odd \/ CanParseRules(p.rules)
    /\ e.mode = "visual" => p.bexpr = GenerateExpr(e.cfg) /\ p.rules = BuildRules(e.groups)
    /\ e.mode = "raw" => p.bexpr = Split(e.raw).base

\* No rules are nested in the price or the text, unless odd says so, and the
\* text of the expression view is the price it splits into with the panel's
\* rules around it.
TextOK(p, e) ==
  /\ p.odd \/ ~Nested(p.bexpr)
  /\ e.on /\ e.mode = "raw" => p.odd \/ ~Nested(Split(e.raw).base)
  /\ e.on /\ e.mode = "raw" /\ ~p.odd /\ CanParseRules(p.rules)
       => Combine(Split(e.raw).base, p.rules) = e.raw

\* While the visual view is given a price it cannot show, its groups are the
\* panel's rules: the initialising effect is about to turn to the other view.
RulesOK(p, e) ==
  e.on /\ e.mode = "visual" /\ p.bexpr # NoExpr /\ TryParseVisual(p.bexpr) = NullConfig
    => Fits(e.groups, p.rules)

\* Of an untouched price that the visual editor can represent, the panel and
\* either view hold exactly what was opened.
Untouched(p) == ~p.touched /\ ~p.odd /\ Representable(p.seen)
SeenHeld(p) ==
  /\ Combine(p.bexpr, p.rules) = p.seen /\ CanParseRules(p.rules)
  /\ p.bexpr.layers = <<>> /\ p.bexpr.body.kind = "tiers"
SeenOK(p, e) ==
  Untouched(p) =>
    /\ SeenHeld(p)
    /\ e.on /\ e.mode = "visual" => e.cfg = p.bexpr.body.tiers /\ e.groups = p.rules
    /\ e.on /\ e.mode = "raw" => e.raw = p.seen

EditorOK(p, e) ==
  Shape(p, e) /\ Reported(p, e) /\ TextOK(p, e) /\ RulesOK(p, e) /\ SeenOK(p, e)

\* The groups that were read from rules fit them.
LEMMA ParsedFit ==
  ASSUME NEW rules \in Seq(Rules)
  PROVE  /\ Fits(ParsedGroups(rules), rules)
         /\ CanParseRules(rules) => BuildRules(ParsedGroups(rules)) = rules
         /\ ~CanParseRules(rules) => BuildRules(ParsedGroups(rules)) = <<>>
<1>1. CASE CanParseRules(rules)
  <2>1. ParsedGroups(rules) = rules
    BY <1>1 DEF ParsedGroups
  <2> QED
    BY <1>1, <2>1, BuildRulesIsId DEF Fits
<1>2. CASE ~CanParseRules(rules)
  <2>1. ParsedGroups(rules) = <<>>
    BY <1>2 DEF ParsedGroups
  <2>2. BuildRules(<<>>) = <<>>
    <3>1. <<>> \in Seq(Rules)
      OBVIOUS
    <3> QED
      BY <3>1, BuildRulesIsId, Zenon
  <2> QED
    BY <1>2, <2>1, <2>2 DEF Fits
<1> QED
  BY <1>1, <1>2

\* The text made of a price without nested rules, and of rules that can be
\* read, splits into them again.
LEMMA TextReturns ==
  ASSUME NEW b \in Exprs, NEW rules \in Seq(Rules), ~Nested(b), CanParseRules(rules)
  PROVE  Combine(Split(Combine(b, rules)).base, rules) = Combine(b, rules)
<1>1. CASE b = NoExpr \/ rules = <<>>
  <2>1. Combine(b, rules) = b
    BY <1>1 DEF Combine
  <2>2. Split(b).base = b
    BY SplitType DEF Nested
  <2> QED
    BY <2>1, <2>2
<1>2. CASE b # NoExpr /\ rules # <<>>
  <2>1. Split(Combine(b, rules)).base = b
    BY <1>2, SplitCombined
  <2> QED
    BY <2>1
<1> QED
  BY <1>1, <1>2

\* So does the text with rules that cannot be read, which stay in the price.
LEMMA RefusedTextReturns ==
  ASSUME NEW b \in Exprs, NEW rules \in Seq(Rules), b # NoExpr, ~CanParseRules(rules)
  PROVE  Combine(Split(Combine(b, rules)).base, <<>>) = Combine(b, rules)
<1>1. rules # <<>>
  BY DEF CanParseRules
<1>2. Split(Combine(b, rules)).base = Combine(b, rules)
  BY <1>1, SplitCombined
<1> QED
  BY <1>2 DEF Combine

\* Neither way are there rules nested in what it splits into.
LEMMA TextNotNested ==
  ASSUME NEW b \in Exprs, NEW rules \in Seq(Rules), ~Nested(b)
  PROVE  ~Nested(Split(Combine(b, rules)).base)
<1>1. CASE b = NoExpr \/ rules = <<>>
  <2>1. Combine(b, rules) = b
    BY <1>1 DEF Combine
  <2>2. Split(b).base = b
    BY SplitType DEF Nested
  <2> QED
    BY <2>1, <2>2
<1>2. CASE b # NoExpr /\ rules # <<>>
  <2>1. CASE CanParseRules(rules)
    BY <1>2, <2>1, SplitCombined
  <2>2. CASE ~CanParseRules(rules)
    BY <1>2, <2>2, SplitCombined DEF Nested
  <2> QED
    BY <2>1, <2>2
<1> QED
  BY <1>1, <1>2

\* A mounted editor is in order.
LEMMA MountKeeps ==
  ASSUME NEW p \in Panels, p.odd \/ ~Nested(p.bexpr), Untouched(p) => SeenHeld(p)
  PROVE  EditorOK(p, Mounted(p))
<1> DEFINE e == Mounted(p)
<1>1. /\ e \in Editors /\ (e.on <=> (p.open /\ p.mode = "tiered"))
      /\ e.on => e.dirty /\ e.mode = "visual"
  BY MountedType
<1>2. /\ e.on => e.cfg = TryParseVisual(p.bexpr) /\ e.groups = ParsedGroups(p.rules) /\ e.fresh
      /\ ~e.on => ~e.dirty /\ ~e.fresh
  <2>1. CASE p.open /\ p.mode = "tiered"
    BY <1>1, <2>1 DEF Mounted, Unmounted
  <2>2. CASE ~(p.open /\ p.mode = "tiered")
    BY <1>1, <2>2 DEF Mounted, Unmounted
  <2> QED
    BY <2>1, <2>2
<1>3. p.bexpr \in Exprs /\ p.rules \in Seq(Rules)
  BY DEF Panels
<1> HIDE DEF e
<1>4. Shape(p, e)
  <2>1. e = Mounted(p)
    BY DEF e
  <2> QED
    BY <1>1, <1>2, <2>1 DEF Shape
<1>5. Reported(p, e) /\ TextOK(p, e)
  BY <1>1 DEF Reported, TextOK
<1>6. RulesOK(p, e)
  BY <1>2, <1>3, ParsedFit DEF RulesOK
<1>7. SeenOK(p, e)
  <2> SUFFICES ASSUME Untouched(p)
               PROVE  /\ SeenHeld(p)
                      /\ e.on => e.cfg = p.bexpr.body.tiers /\ e.groups = p.rules
    BY <1>1 DEF SeenOK
  <2>1. SeenHeld(p)
    OBVIOUS
  <2>2. TryParseVisual(p.bexpr) = p.bexpr.body.tiers
    BY <1>3, <2>1, GenerateParsed DEF SeenHeld
  <2>3. ParsedGroups(p.rules) = p.rules
    BY <2>1 DEF SeenHeld, ParsedGroups
  <2> QED
    BY <1>2, <2>1, <2>2, <2>3
<1> QED
  BY <1>4, <1>5, <1>6, <1>7 DEF EditorOK, e

\* A price that is opened, and that the visual editor can represent, is the
\* one that was taken apart for it.
LEMMA OpenedHeld ==
  ASSUME NEW d \in Drafts, NEW saved \in BOOLEAN
  PROVE  Untouched(PanelFor(d, saved)) => SeenHeld(PanelFor(d, saved))
<1> DEFINE p == PanelFor(d, saved)
           s == Combine(d.bexpr, d.rules)
<1>1. /\ p.bexpr = d.bexpr /\ p.rules = d.rules /\ p.seen = s
      /\ p.odd <=> Nested(d.bexpr)
  BY DEF PanelFor
<1>2. d.bexpr \in Exprs /\ d.rules \in Seq(Rules)
  BY DEF Drafts
<1> SUFFICES ASSUME Untouched(p) PROVE SeenHeld(p)
  OBVIOUS
<1> HIDE DEF p
<1>3. /\ ~Nested(d.bexpr) /\ s.body.kind = "tiers" /\ Len(s.layers) <= 1
      /\ \A i \in DOMAIN s.layers : CanParseRules(s.layers[i])
  BY <1>1 DEF Untouched, Representable
<1>4. d.bexpr.layers \in Seq(Layer) /\ Len(d.bexpr.layers) \in Nat
  <2>1. d.bexpr.layers \in Seq(Layer)
    BY <1>2, ExprParts
  <2> QED
    BY <2>1
<1>5. CASE d.bexpr = NoExpr \/ d.rules = <<>>
  <2>1. s = d.bexpr
    BY <1>5 DEF Combine
  <2>2. d.bexpr # NoExpr
    BY <1>2, <1>3, <2>1, NoBody
  <2>3. d.rules = <<>> /\ CanParseRules(d.rules)
    BY <1>5, <2>2 DEF CanParseRules
  <2>4. d.bexpr.layers = <<>>
    <3> SUFFICES ASSUME d.bexpr.layers # <<>> PROVE FALSE
      OBVIOUS
    <3>1. Last(d.bexpr.layers) \in Layer
      BY <1>4, EndsOf
    <3>2. Len(d.bexpr.layers) \in DOMAIN d.bexpr.layers
      BY <1>4
    <3>3. CanParseRules(Last(d.bexpr.layers))
      BY <1>3, <2>1, <3>2 DEF Last
    <3>4. Split(d.bexpr).rules = Last(d.bexpr.layers)
      BY <3>3 DEF Split
    <3> QED
      BY <1>3, <3>1, <3>4 DEF Nested, Layer
  <2> QED
    BY <1>1, <1>3, <2>1, <2>3, <2>4 DEF SeenHeld
<1>6. CASE d.bexpr # NoExpr /\ d.rules # <<>>
  <2>1. /\ s.layers # <<>> /\ s.body = d.bexpr.body /\ Last(s.layers) = d.rules
        /\ Len(s.layers) = Len(d.bexpr.layers) + 1
    BY <1>2, <1>6, CombineParts
  <2>2. d.bexpr.layers = <<>>
    <3>1. Len(d.bexpr.layers) = 0
      BY <1>3, <1>4, <2>1
    <3> QED
      BY <1>4, <3>1, EmptySeq
  <2>3. s \in Exprs
    BY <1>2, CombineType
  <2> HIDE DEF s
  <2>4. s.layers \in Seq(Layer)
    BY <2>3, ExprParts
  <2>5. Len(s.layers) \in DOMAIN s.layers
    BY <2>1, <2>4
  <2>6. CanParseRules(d.rules)
    BY <1>3, <2>1, <2>5 DEF Last
  <2> QED
    BY <1>1, <1>3, <2>1, <2>2, <2>6 DEF SeenHeld, s
<1> QED
  BY <1>5, <1>6

\* Opening a model's prices.
LEMMA ShowKeeps ==
  ASSUME NEW d \in Drafts, NEW saved \in BOOLEAN
  PROVE  EditorOK(PanelFor(d, saved), Mounted(PanelFor(d, saved)))
<1> DEFINE p == PanelFor(d, saved)
<1>1. p \in Panels /\ (Untouched(p) => SeenHeld(p))
  BY PanelForType, OpenedHeld
<1>2. p.odd \/ ~Nested(p.bexpr)
  BY DEF PanelFor
<1> HIDE DEF p
<1>3. EditorOK(p, Mounted(p))
  BY <1>1, <1>2, MountKeeps
<1> QED
  BY <1>3 DEF p

\* A closed panel has no editor.
LEMMA ClosedKeeps ==
  EditorOK(Closed, Unmounted)
<1> DEFINE p == PanelFor(NoPricing(CHOOSE m \in Models : TRUE), FALSE)
<1>1. NoPricing(CHOOSE m \in Models : TRUE) \in Drafts
  BY ConstantsOK, NoPricingType
<1>2. p \in Panels /\ (Untouched(p) => SeenHeld(p))
  BY <1>1, PanelForType, OpenedHeld
<1>3. p.odd \/ ~Nested(p.bexpr)
  BY DEF PanelFor
<1> HIDE DEF p
<1>4. /\ Closed.touched = p.touched /\ Closed.odd = p.odd /\ Closed.seen = p.seen
      /\ Closed.bexpr = p.bexpr /\ Closed.rules = p.rules
  BY <1>2 DEF Closed, p, Panels
<1>5. Closed.odd \/ ~Nested(Closed.bexpr)
  BY <1>3, <1>4
<1>6. Untouched(Closed) => SeenHeld(Closed)
  BY <1>2, <1>4 DEF Untouched, SeenHeld
<1>7. Closed \in Panels /\ Mounted(Closed) = Unmounted
  BY ClosedType DEF Mounted
<1> QED
  BY <1>5, <1>6, <1>7, MountKeeps

\* What the panel shows beside the expression does not matter to the editor.
LEMMA SamePrice ==
  ASSUME NEW p, NEW q \in Panels, NEW e, EditorOK(p, e),
         q.open = p.open, q.mode = p.mode, q.bexpr = p.bexpr, q.rules = p.rules,
         q.seen = p.seen, q.touched = p.touched, q.odd = p.odd
  PROVE  EditorOK(q, e)
<1>1. Mounted(q) = Mounted(p)
  BY DEF Mounted
<1>2. Shape(q, e)
  BY <1>1 DEF EditorOK, Shape
<1>3. Reported(q, e) /\ TextOK(q, e)
  BY DEF EditorOK, Reported, TextOK
<1>4. RulesOK(q, e)
  BY DEF EditorOK, RulesOK
<1>5. SeenOK(q, e)
  BY DEF EditorOK, SeenOK, SeenHeld, Untouched
<1> QED
  BY <1>2, <1>3, <1>4, <1>5 DEF EditorOK

\* The name typed into the empty form.
LEMMA TypeNameKeeps ==
  ASSUME EditorOK(panel, ed), NEW m \in Models, TypeName(m)
  PROVE  EditorOK(panel', ed')
<1> DEFINE p == [panel EXCEPT !.named = TRUE, !.name = m]
<1>1. panel \in Panels /\ ed \in Editors /\ ~ed.dirty
  BY DEF EditorOK, Shape, TypeName, Event
<1>2. /\ p \in Panels /\ p.open = panel.open /\ p.mode = panel.mode /\ p.bexpr = panel.bexpr
      /\ p.rules = panel.rules /\ p.seen = panel.seen /\ p.touched = panel.touched
      /\ p.odd = panel.odd
  BY <1>1 DEF Panels
<1> HIDE DEF p
<1>3. EditorOK(p, ed)
  BY <1>2, SamePrice
<1>4. CASE ed.on
  <2> DEFINE e == [ed EXCEPT !.renamed = TRUE, !.dirty = TRUE]
  <2>1. /\ e \in Editors /\ e.on = ed.on /\ e.mode = ed.mode /\ e.cfg = ed.cfg /\ e.raw = ed.raw
        /\ e.groups = ed.groups /\ e.fresh = ed.fresh /\ e.dirty
    BY <1>1 DEF Editors
  <2>2. ~ed.fresh
    BY <1>1, <1>3, MountedType DEF EditorOK, Shape
  <2> HIDE DEF e
  <2>3. Shape(p, e) /\ Reported(p, e)
    BY <1>3, <1>4, <2>1, <2>2 DEF EditorOK, Shape, Reported
  <2>4. TextOK(p, e) /\ RulesOK(p, e) /\ SeenOK(p, e)
    BY <1>3, <2>1 DEF EditorOK, TextOK, RulesOK, SeenOK
  <2>5. panel' = p /\ ed' = e
    BY <1>4 DEF TypeName, p, e
  <2> QED
    BY <2>3, <2>4, <2>5 DEF EditorOK
<1>5. CASE ~ed.on
  BY <1>3, <1>5 DEF TypeName, p
<1> QED
  BY <1>4, <1>5

\* A settled editor has run its effects.
LEMMA SettledNotFresh ==
  ASSUME EditorOK(panel, ed), ~ed.dirty
  PROVE  ~ed.fresh
  BY MountedType DEF EditorOK, Shape

\* The other tab of the panel.
LEMMA SelectTabKeeps ==
  ASSUME EditorOK(panel, ed), NEW mode \in Modes, SelectTab(mode)
  PROVE  EditorOK(panel', ed')
<1> DEFINE b == IF mode = "tiered" /\ panel.bexpr = NoExpr
                THEN GenerateExpr(DefaultConfig) ELSE panel.bexpr
           p == [panel EXCEPT !.mode = mode, !.bexpr = b]
<1>1. panel \in Panels /\ panel.bexpr \in Exprs
  BY DEF EditorOK, Shape, Panels
<1>2. GenerateExpr(DefaultConfig) \in Exprs /\ ~Nested(GenerateExpr(DefaultConfig))
  BY DefaultType, GenerateType
<1>3. b \in Exprs /\ (panel.odd \/ ~Nested(b))
  BY <1>1, <1>2 DEF EditorOK, TextOK
<1>4. panel' = p /\ ed' = Mounted(p)
  BY DEF SelectTab
<1>5. panel.bexpr # NoExpr => b = panel.bexpr
  OBVIOUS
<1> HIDE DEF b
<1>6. /\ p \in Panels /\ p.bexpr = b /\ p.rules = panel.rules /\ p.seen = panel.seen
      /\ p.touched = panel.touched /\ p.odd = panel.odd
  BY <1>1, <1>3 DEF Panels
<1> HIDE DEF p
<1>7. ASSUME Untouched(p) PROVE SeenHeld(p)
  <2>1. SeenHeld(panel)
    BY <1>6, <1>7 DEF EditorOK, SeenOK, Untouched
  <2>2. panel.bexpr # NoExpr
    BY <1>1, <2>1, NoBody DEF SeenHeld
  <2> QED
    BY <1>5, <1>6, <2>1, <2>2 DEF SeenHeld
<1> QED
  BY <1>3, <1>4, <1>6, <1>7, MountKeeps

\* The per-token form.
LEMMA TokensKeep ==
  ASSUME EditorOK(panel, ed), NEW v \in Price, NEW l \in Lanes,
         HandlePromptPrice(v) \/ HandleLanePrice(l, v) \/ HandleLaneToggle(l)
  PROVE  EditorOK(panel', ed')
<1>1. panel \in Panels /\ ed' = ed
  BY DEF EditorOK, Shape, HandlePromptPrice, HandleLanePrice, HandleLaneToggle, InTokens
<1>2. /\ panel.on \in [Lanes -> BOOLEAN] /\ panel.price \in [Lanes -> Price]
      /\ panel.lane \in [Lanes -> Price] /\ panel.prompt \in Price
  BY <1>1 DEF Panels
<1>3. Blank \in Price
  BY DEF Price
<1>4. /\ panel' \in Panels /\ panel'.open = panel.open /\ panel'.mode = panel.mode
      /\ panel'.bexpr = panel.bexpr /\ panel'.rules = panel.rules /\ panel'.seen = panel.seen
      /\ panel'.touched = panel.touched /\ panel'.odd = panel.odd
  <2>1. CASE HandlePromptPrice(v)
    <3> DEFINE ratio == IF v = Blank THEN Blank ELSE v \div 2
               lane  == [k \in Lanes |->
                           IF panel.on[k]
                           THEN LaneRatio(panel.price[k], BaseOf(k, v, panel.price))
                           ELSE Blank]
    <3>1. ratio \in Price
      BY DEF Price
    <3>2. lane \in [Lanes -> Price]
      <4>1. ASSUME NEW k \in Lanes PROVE LaneRatio(panel.price[k], BaseOf(k, v, panel.price)) \in Price
        BY <1>2, LaneTypes, BaseType
      <4> QED
        BY <1>3, <4>1
    <3>3. panel' = [panel EXCEPT !.prompt = v, !.ratio = ratio, !.lane = lane]
      BY <2>1 DEF HandlePromptPrice
    <3> HIDE DEF ratio, lane
    <3> QED
      BY <1>1, <3>1, <3>2, <3>3 DEF Panels
  <2>2. CASE HandleLanePrice(l, v)
    <3> DEFINE price == [panel.price EXCEPT ![l] = v]
               own   == [panel.lane EXCEPT ![l] = LaneRatio(v, BaseOf(l, panel.prompt, price))]
               lane  == IF l = "audioInput" /\ panel.on.audioOutput
                        THEN [own EXCEPT !.audioOutput = LaneRatio(price.audioOutput, v)]
                        ELSE own
    <3>1. price \in [Lanes -> Price]
      BY <1>2
    <3>2. own \in [Lanes -> Price]
      BY <1>2, <3>1, LaneTypes, BaseType
    <3>3. LaneRatio(price.audioOutput, v) \in Price
      <4>1. price.audioOutput \in Price
        BY <3>1 DEF Lanes
      <4> QED
        BY <4>1, LaneTypes
    <3>4. lane \in [Lanes -> Price]
      <4> HIDE DEF own, price
      <4> QED
        BY <3>2, <3>3
    <3>5. panel' = [panel EXCEPT !.price = price, !.lane = lane]
      BY <2>2 DEF HandleLanePrice
    <3> HIDE DEF price, own, lane
    <3> QED
      BY <1>1, <3>1, <3>4, <3>5 DEF Panels
  <2>3. CASE HandleLaneToggle(l)
    <3> DEFINE off == IF l = "audioInput" THEN {"audioInput", "audioOutput"} ELSE {l}
    <3>1. CASE panel.on[l]
      <4> DEFINE on    == [k \in Lanes |-> panel.on[k] /\ k \notin off]
                 price == [k \in Lanes |-> IF k \in off THEN Blank ELSE panel.price[k]]
                 lane  == [k \in Lanes |-> IF k \in off THEN Blank ELSE panel.lane[k]]
      <4>1. on \in [Lanes -> BOOLEAN]
        BY Zenon
      <4>2. price \in [Lanes -> Price] /\ lane \in [Lanes -> Price]
        BY <1>2, <1>3
      <4>3. panel' = [panel EXCEPT !.on = on, !.price = price, !.lane = lane]
        BY <2>3, <3>1 DEF HandleLaneToggle
      <4> HIDE DEF on, price, lane
      <4> QED
        BY <1>1, <4>1, <4>2, <4>3 DEF Panels
    <3>2. CASE ~panel.on[l]
      <4> DEFINE on   == [panel.on EXCEPT ![l] = TRUE]
                 lane == [panel.lane EXCEPT ![l] = LaneRatio(panel.price[l],
                                            BaseOf(l, panel.prompt, panel.price))]
      <4>1. on \in [Lanes -> BOOLEAN] /\ lane \in [Lanes -> Price]
        BY <1>2, LaneTypes, BaseType
      <4>2. panel' = [panel EXCEPT !.on = on, !.lane = lane]
        BY <2>3, <3>2 DEF HandleLaneToggle
      <4> HIDE DEF on, lane
      <4> QED
        BY <1>1, <4>1, <4>2 DEF Panels
    <3> QED
      BY <3>1, <3>2
  <2> QED
    BY <2>1, <2>2, <2>3
<1> QED
  BY <1>1, <1>4, SamePrice

\* An edit in the visual view.
LEMMA VisualEditKeeps ==
  ASSUME EditorOK(panel, ed), ~ed.dirty, ed.on, ed.mode = "visual",
         NEW cfg \in Seq(Tiers), cfg # NullConfig, NEW groups \in Seq(Groups),
         panel' = [panel EXCEPT !.touched = TRUE],
         ed' = [ed EXCEPT !.cfg = cfg, !.groups = groups, !.dirty = TRUE]
  PROVE  EditorOK(panel', ed')
<1>1. panel \in Panels /\ ed \in Editors /\ ~ed.fresh /\ ed.cfg # NullConfig
  BY SettledNotFresh DEF EditorOK, Shape
<1>2. /\ panel' \in Panels /\ panel'.open = panel.open /\ panel'.mode = panel.mode
      /\ panel'.bexpr = panel.bexpr /\ panel'.odd = panel.odd /\ panel'.touched
  BY <1>1 DEF Panels
<1>3. /\ ed' \in Editors /\ ed'.on /\ ed'.mode = "visual" /\ ed'.cfg = cfg /\ ~ed'.fresh
      /\ ed'.dirty
  BY <1>1 DEF Editors
<1>4. Shape(panel', ed')
  BY <1>2, <1>3 DEF EditorOK, Shape
<1>5. Reported(panel', ed') /\ SeenOK(panel', ed')
  BY <1>2, <1>3 DEF Reported, SeenOK, Untouched
<1>6. TextOK(panel', ed')
  BY <1>2, <1>3 DEF EditorOK, TextOK
<1>7. RulesOK(panel', ed')
  <2>1. panel.bexpr = GenerateExpr(ed.cfg)
    BY DEF EditorOK, Reported
  <2>2. ed.cfg \in Seq(Tiers)
    BY <1>1 DEF Editors
  <2>3. TryParseVisual(panel.bexpr) # NullConfig
    BY <1>1, <2>1, <2>2, GenerateType
  <2> QED
    BY <1>2, <2>3 DEF RulesOK
<1> QED
  BY <1>4, <1>5, <1>6, <1>7 DEF EditorOK

\* The view always shows a tier.
LEMMA ConfigType ==
  ASSUME ed \in Editors
  PROVE  Config \in Seq(Tiers) /\ Config # NullConfig
  BY DefaultType DEF Config, Editors

\* A tier may be replaced by another.
LEMMA TierChanged ==
  ASSUME NEW cfg \in Seq(Tiers), NEW i \in DOMAIN cfg, NEW t \in Tiers
  PROVE  [cfg EXCEPT ![i] = t] \in Seq(Tiers) /\ [cfg EXCEPT ![i] = t] # NullConfig
<1>1. i \in 1..Len(cfg) /\ Len(cfg) \in Nat
  OBVIOUS
<1>2. [cfg EXCEPT ![i] = t] \in Seq(Tiers) /\ Len([cfg EXCEPT ![i] = t]) = Len(cfg)
  BY <1>1
<1> QED
  BY <1>1, <1>2 DEF NullConfig

\* RemoveAt takes one element away.
LEMMA TierRemoved ==
  ASSUME NEW S, NEW s \in Seq(S), NEW i \in DOMAIN s
  PROVE  RemoveAt(s, i) \in Seq(S) /\ Len(RemoveAt(s, i)) = Len(s) - 1
<1>1. i \in 1..Len(s) /\ Len(s) \in Nat
  OBVIOUS
<1>2. SubSeq(s, 1, i - 1) \in Seq(S) /\ Len(SubSeq(s, 1, i - 1)) = i - 1
  BY <1>1
<1>3. SubSeq(s, i + 1, Len(s)) \in Seq(S) /\ Len(SubSeq(s, i + 1, Len(s))) = Len(s) - i
  <2>1. \A j \in (i + 1)..Len(s) : s[j] \in S
    BY <1>1
  <2>2. i + 1 \in Int /\ Len(s) \in Int
    BY <1>1
  <2>3. /\ SubSeq(s, i + 1, Len(s)) \in Seq(S)
        /\ Len(SubSeq(s, i + 1, Len(s))) = IF i + 1 <= Len(s) THEN Len(s) - (i + 1) + 1 ELSE 0
    BY <2>1, <2>2, SubSeqProperties
  <2> QED
    BY <1>1, <2>3
<1>4. ASSUME NEW a \in Seq(S), NEW b \in Seq(S) PROVE a \o b \in Seq(S) /\ Len(a \o b) = Len(a) + Len(b)
  OBVIOUS
<1>5. PICK a \in Seq(S), b \in Seq(S) :
        a = SubSeq(s, 1, i - 1) /\ b = SubSeq(s, i + 1, Len(s))
  BY <1>2, <1>3
<1>6. Len(a \o b) = (i - 1) + (Len(s) - i)
  BY <1>2, <1>3, <1>4, <1>5
<1>7. RemoveAt(s, i) = a \o b
  BY <1>5 DEF RemoveAt
<1> QED
  BY <1>1, <1>4, <1>6, <1>7

\* The edits of the tiers.
LEMMA TiersKeep ==
  ASSUME EditorOK(panel, ed),
         \/ HandleAddTier
         \/ \E i \in DOMAIN Config :
              \/ HandleRemoveTier(i) \/ HandleAddCondition(i)
              \/ \E c \in Conditions : HandleRemoveCondition(i, c)
              \/ \E v \in TierPrices : HandleTierPrice(i, v)
  PROVE  EditorOK(panel', ed')
<1>1. ed \in Editors /\ Config \in Seq(Tiers) /\ Config # NullConfig
  BY ConfigType DEF EditorOK, Shape
<1>2. InVisual /\ \E cfg \in Seq(Tiers) : cfg # NullConfig /\ EditConfig(cfg)
  <2>1. CASE HandleAddTier
    <3> DEFINE n == Len(Config)
               bounded == IF Config[n].conds = {}
                          THEN [Config EXCEPT ![n].conds = {"len"}] ELSE Config
               cfg == Append(bounded, Tier({}, 0))
    <3>1. n \in DOMAIN Config /\ Config[n] \in Tiers
      BY <1>1, NonEmptySeq DEF NullConfig
    <3>2. [Config[n] EXCEPT !.conds = {"len"}] \in Tiers
      BY <3>1 DEF Tiers, Conditions
    <3>3. bounded \in Seq(Tiers)
      BY <1>1, <3>1, <3>2, TierChanged
    <3>4. Tier({}, 0) \in Tiers
      BY DEF Tier, Tiers
    <3>5. InVisual /\ EditConfig(cfg)
      BY <2>1 DEF HandleAddTier
    <3> HIDE DEF bounded
    <3>6. cfg \in Seq(Tiers) /\ cfg # NullConfig
      BY <3>3, <3>4 DEF NullConfig
    <3> HIDE DEF cfg
    <3> QED
      BY <3>5, <3>6
  <2>2. ASSUME NEW i \in DOMAIN Config, HandleRemoveTier(i)
        PROVE  InVisual /\ \E cfg \in Seq(Tiers) : cfg # NullConfig /\ EditConfig(cfg)
    <3>1. RemoveAt(Config, i) \in Seq(Tiers) /\ Len(RemoveAt(Config, i)) = Len(Config) - 1
      BY <1>1, TierRemoved
    <3>2. InVisual /\ EditConfig(RemoveAt(Config, i)) /\ Len(Config) > 1
      BY <2>2 DEF HandleRemoveTier
    <3>3. RemoveAt(Config, i) # NullConfig
      BY <1>1, <3>1, <3>2 DEF NullConfig
    <3> QED
      BY <3>1, <3>2, <3>3
  <2>3. ASSUME NEW i \in DOMAIN Config, NEW t \in Tiers,
               InVisual, EditConfig([Config EXCEPT ![i] = t])
        PROVE  InVisual /\ \E cfg \in Seq(Tiers) : cfg # NullConfig /\ EditConfig(cfg)
    BY <1>1, <2>3, TierChanged
  <2>4. ASSUME NEW i \in DOMAIN Config PROVE Config[i] \in Tiers
    BY <1>1
  <2>5. ASSUME NEW i \in DOMAIN Config, HandleAddCondition(i)
        PROVE  InVisual /\ \E cfg \in Seq(Tiers) : cfg # NullConfig /\ EditConfig(cfg)
    <3> DEFINE c == Config[i].conds \cup {IF "len" \in Config[i].conds THEN "c" ELSE "len"}
               t == [Config[i] EXCEPT !.conds = c]
    <3>1. t \in Tiers
      BY <2>4 DEF Tiers, Conditions
    <3>2. InVisual /\ EditConfig([Config EXCEPT ![i] = t])
      BY <2>5 DEF HandleAddCondition
    <3> HIDE DEF t
    <3> QED
      BY <2>3, <3>1, <3>2
  <2>6. ASSUME NEW i \in DOMAIN Config, NEW c \in Conditions, HandleRemoveCondition(i, c)
        PROVE  InVisual /\ \E cfg \in Seq(Tiers) : cfg # NullConfig /\ EditConfig(cfg)
    <3> DEFINE t == [Config[i] EXCEPT !.conds = @ \ {c}]
    <3>1. t \in Tiers
      BY <2>4 DEF Tiers
    <3>2. InVisual /\ EditConfig([Config EXCEPT ![i] = t])
      BY <2>6 DEF HandleRemoveCondition
    <3> HIDE DEF t
    <3> QED
      BY <2>3, <3>1, <3>2
  <2>7. ASSUME NEW i \in DOMAIN Config, NEW v \in TierPrices, HandleTierPrice(i, v)
        PROVE  InVisual /\ \E cfg \in Seq(Tiers) : cfg # NullConfig /\ EditConfig(cfg)
    <3> DEFINE t == [Config[i] EXCEPT !.price = v]
    <3>1. t \in Tiers
      BY <2>4, ConstantsOK DEF Tiers
    <3>2. InVisual /\ EditConfig([Config EXCEPT ![i] = t])
      BY <2>7 DEF HandleTierPrice
    <3> HIDE DEF t
    <3> QED
      BY <2>3, <3>1, <3>2
  <2> QED
    BY <2>1, <2>2, <2>5, <2>6, <2>7
<1>3. PICK cfg \in Seq(Tiers) : cfg # NullConfig /\ EditConfig(cfg)
  BY <1>2
<1>4. /\ ~ed.dirty /\ ed.on /\ ed.mode = "visual"
      /\ panel' = [panel EXCEPT !.touched = TRUE] /\ ed' = [ed EXCEPT !.cfg = cfg, !.dirty = TRUE]
  BY <1>2, <1>3 DEF InVisual, Event, EditConfig
<1>5. ed.groups \in Seq(Groups)
  BY <1>1 DEF Editors
<1>6. [ed EXCEPT !.cfg = cfg, !.dirty = TRUE]
        = [ed EXCEPT !.cfg = cfg, !.groups = ed.groups, !.dirty = TRUE]
  BY <1>1 DEF Editors
<1> QED
  BY <1>3, <1>4, <1>5, <1>6, VisualEditKeeps

\* The edits of the rule groups.
LEMMA GroupsKeep ==
  ASSUME EditorOK(panel, ed),
         \/ AddGroup
         \/ \E i \in DOMAIN ed.groups : RemoveGroup(i) \/ \E g \in Groups : ChangeGroup(i, g)
  PROVE  EditorOK(panel', ed')
<1>1. ed \in Editors /\ ed.groups \in Seq(Groups)
  BY DEF EditorOK, Shape, Editors
<1>2. \E groups \in Seq(Groups) : EditGroups(groups)
  <2>1. CASE AddGroup
    <3>1. "blank" \in Groups
      BY DEF Groups
    <3>2. Append(ed.groups, "blank") \in Seq(Groups)
      BY <1>1, <3>1
    <3> QED
      BY <2>1, <3>2 DEF AddGroup
  <2>2. ASSUME NEW i \in DOMAIN ed.groups, RemoveGroup(i)
        PROVE  \E groups \in Seq(Groups) : EditGroups(groups)
    BY <1>1, <2>2, TierRemoved DEF RemoveGroup
  <2>3. ASSUME NEW i \in DOMAIN ed.groups, NEW g \in Groups, ChangeGroup(i, g)
        PROVE  \E groups \in Seq(Groups) : EditGroups(groups)
    <3>1. [ed.groups EXCEPT ![i] = g] \in Seq(Groups)
      BY <1>1
    <3> QED
      BY <2>3, <3>1 DEF ChangeGroup
  <2> QED
    BY <2>1, <2>2, <2>3
<1>3. PICK groups \in Seq(Groups) : EditGroups(groups)
  BY <1>2
<1>4. /\ ~ed.dirty /\ ed.on /\ ed.mode = "visual"
      /\ panel' = [panel EXCEPT !.touched = TRUE]
      /\ ed' = [ed EXCEPT !.groups = groups, !.dirty = TRUE]
  BY <1>3 DEF EditGroups, InVisual, Event
<1>5. ed.cfg \in Seq(Tiers) /\ ed.cfg # NullConfig
  BY <1>1, <1>4, SettledNotFresh DEF EditorOK, Shape, Editors
<1>6. [ed EXCEPT !.groups = groups, !.dirty = TRUE]
        = [ed EXCEPT !.cfg = ed.cfg, !.groups = groups, !.dirty = TRUE]
  BY <1>1 DEF Editors
<1> QED
  BY <1>3, <1>4, <1>5, <1>6, VisualEditKeeps

\* An edit of the text.
LEMMA RawChangeKeeps ==
  ASSUME EditorOK(panel, ed), NEW text \in RawTexts, HandleRawChange(text)
  PROVE  EditorOK(panel', ed')
<1>1. panel \in Panels /\ ed \in Editors /\ ~ed.fresh /\ ed.on /\ ed.mode = "raw" /\ text \in Exprs
  BY SettledNotFresh, ConstantsOK DEF EditorOK, Shape, HandleRawChange, Event
<1>2. Split(text).rules \in Seq(Rules) /\ Combine(Split(text).base, Split(text).rules) = text
  BY <1>1, SplitType, CombineSplit
<1>3. /\ panel' \in Panels /\ panel'.open = panel.open /\ panel'.mode = panel.mode
      /\ panel'.bexpr = panel.bexpr /\ panel'.touched
      /\ panel'.odd <=> panel.odd \/ Nested(Split(text).base)
      /\ panel'.rules = Split(text).rules
  BY <1>1, <1>2 DEF Panels, HandleRawChange
<1>4. /\ ed' \in Editors /\ ed'.on /\ ed'.mode = "raw" /\ ed'.raw = text /\ ~ed'.fresh
      /\ ed'.dirty
  BY <1>1 DEF Editors, HandleRawChange
<1>5. Shape(panel', ed')
  BY <1>1, <1>3, <1>4 DEF EditorOK, Shape
<1>6. Reported(panel', ed') /\ SeenOK(panel', ed') /\ RulesOK(panel', ed')
  BY <1>3, <1>4 DEF Reported, SeenOK, Untouched, RulesOK
<1>7. TextOK(panel', ed')
  BY <1>2, <1>3, <1>4 DEF EditorOK, TextOK
<1> QED
  BY <1>5, <1>6, <1>7 DEF EditorOK

\* What was opened splits into the price and the rules it was made of.
LEMMA SeenSplit ==
  ASSUME NEW p \in Panels, SeenHeld(p)
  PROVE  /\ Split(p.seen).base = p.bexpr /\ Split(p.seen).rules = p.rules
         /\ TryParseVisual(p.bexpr) = p.bexpr.body.tiers
         /\ p.bexpr.body.tiers # NullConfig /\ p.bexpr # NoExpr
         /\ GenerateExpr(p.bexpr.body.tiers) = p.bexpr
         /\ ParsedGroups(p.rules) = p.rules /\ BuildRules(p.rules) = p.rules
<1>1. p.bexpr \in Exprs /\ p.rules \in Seq(Rules)
  BY DEF Panels
<1>2. p.bexpr # NoExpr
  BY <1>1, NoBody DEF SeenHeld
<1>3. p.seen = Combine(p.bexpr, p.rules) /\ CanParseRules(p.rules)
  BY DEF SeenHeld
<1>4. Split(p.seen).base = p.bexpr /\ Split(p.seen).rules = p.rules
  <2>1. CASE p.rules = <<>>
    <3>1. p.seen = p.bexpr
      BY <1>3, <2>1 DEF Combine
    <3> QED
      BY <2>1, <3>1, UnlayeredSplit DEF SeenHeld
  <2>2. CASE p.rules # <<>>
    BY <1>1, <1>2, <1>3, <2>2, SplitCombined
  <2> QED
    BY <2>1, <2>2
<1>5. ParsedGroups(p.rules) = p.rules /\ BuildRules(p.rules) = p.rules
  BY <1>1, <1>3, BuildRulesIsId DEF ParsedGroups
<1> QED
  BY <1>1, <1>2, <1>4, <1>5, GenerateParsed DEF SeenHeld

\* The visual view takes over the text.
LEMMA ToVisualKeeps ==
  ASSUME EditorOK(panel, ed), SwitchToVisual
  PROVE  EditorOK(panel', ed')
<1> DEFINE rules  == Split(ed.raw).rules
           parsed == TryParseVisual(Split(ed.raw).base)
           cfg    == IF parsed # NullConfig THEN parsed ELSE DefaultConfig
<1>1. panel \in Panels /\ ed \in Editors /\ ~ed.fresh /\ ed.on /\ ed.mode = "raw" /\ ed.raw \in Exprs
  BY SettledNotFresh DEF EditorOK, Shape, SwitchToVisual, Event, Editors
<1>2. Split(ed.raw).base \in Exprs /\ rules \in Seq(Rules) /\ CanParseRules(rules)
  BY <1>1, SplitType
<1>3. cfg \in Seq(Tiers) /\ cfg # NullConfig /\ ParsedGroups(rules) \in Seq(Groups)
  BY <1>2, ParsedType, DefaultType
<1>4. /\ panel' = [panel EXCEPT !.rules = rules]
      /\ ed' = [ed EXCEPT !.mode = "visual", !.cfg = cfg, !.groups = ParsedGroups(rules), !.dirty = TRUE]
  BY DEF SwitchToVisual
<1>5. Fits(ParsedGroups(rules), rules)
  BY <1>2, ParsedFit
<1>6. ASSUME Untouched(panel)
      PROVE  rules = panel.rules /\ parsed = panel.bexpr.body.tiers /\ parsed # NullConfig
  <2>1. SeenHeld(panel) /\ ed.raw = panel.seen
    BY <1>1, <1>6 DEF EditorOK, SeenOK
  <2> QED
    BY <1>1, <2>1, SeenSplit
<1>7. CanParseRules(rules) => ParsedGroups(rules) = rules
  BY DEF ParsedGroups
<1>8. parsed # NullConfig => cfg = parsed
  OBVIOUS
<1> HIDE DEF rules, cfg, parsed
<1>9. /\ panel' \in Panels /\ panel'.open = panel.open /\ panel'.mode = panel.mode
      /\ panel'.bexpr = panel.bexpr /\ panel'.odd = panel.odd /\ panel'.touched = panel.touched
      /\ panel'.seen = panel.seen /\ panel'.rules = rules
  BY <1>1, <1>2, <1>4 DEF Panels
<1>10. /\ ed' \in Editors /\ ed'.on /\ ed'.mode = "visual" /\ ed'.cfg = cfg /\ ~ed'.fresh
       /\ ed'.dirty /\ ed'.groups = ParsedGroups(rules)
  BY <1>1, <1>3, <1>4 DEF Editors
<1>11. Shape(panel', ed')
  BY <1>1, <1>3, <1>9, <1>10 DEF EditorOK, Shape
<1>12. Reported(panel', ed')
  BY <1>10 DEF Reported
<1>13. TextOK(panel', ed')
  BY <1>9, <1>10 DEF EditorOK, TextOK
<1>14. RulesOK(panel', ed')
  BY <1>5, <1>9, <1>10 DEF RulesOK
<1>15. SeenOK(panel', ed')
  <2> SUFFICES ASSUME Untouched(panel')
               PROVE  /\ SeenHeld(panel')
                      /\ ed'.cfg = panel'.bexpr.body.tiers /\ ed'.groups = panel'.rules
    BY <1>10 DEF SeenOK
  <2>1. Untouched(panel)
    BY <1>9 DEF Untouched
  <2>2. SeenHeld(panel) /\ rules = panel.rules
    BY <1>6, <2>1 DEF EditorOK, SeenOK
  <2>3. SeenHeld(panel')
    BY <1>9, <2>2 DEF SeenHeld
  <2> QED
    BY <1>2, <1>6, <1>7, <1>8, <1>9, <1>10, <2>1, <2>3
<1> QED
  BY <1>11, <1>12, <1>13, <1>14, <1>15 DEF EditorOK

\* The expression view takes over what the visual one shows.
LEMMA ToRawKeeps ==
  ASSUME EditorOK(panel, ed), SwitchToRaw
  PROVE  EditorOK(panel', ed')
<1> DEFINE raw == Combine(GenerateExpr(ed.cfg), BuildRules(ed.groups))
<1>1. /\ panel \in Panels /\ ed \in Editors /\ ~ed.fresh /\ ed.on /\ ~ed.dirty
      /\ ed.mode = "visual" /\ panel' = panel
      /\ ed' = [ed EXCEPT !.mode = "raw", !.dirty = TRUE, !.raw = raw]
  BY SettledNotFresh DEF EditorOK, Shape, SwitchToRaw, Event
<1>2. raw = Combine(panel.bexpr, panel.rules)
  BY <1>1 DEF EditorOK, Reported
<1>3. panel.bexpr \in Exprs /\ panel.rules \in Seq(Rules)
  BY <1>1 DEF Panels
<1>4. raw \in Exprs
  BY <1>2, <1>3, CombineType
<1> HIDE DEF raw
<1>5. ed' \in Editors /\ ed'.on /\ ed'.mode = "raw" /\ ed'.raw = raw /\ ~ed'.fresh /\ ed'.dirty
  BY <1>1, <1>4 DEF Editors
<1>6. Shape(panel, ed') /\ Reported(panel, ed') /\ RulesOK(panel, ed')
  BY <1>1, <1>5 DEF EditorOK, Shape, Reported, RulesOK
<1>7. TextOK(panel, ed')
  BY <1>2, <1>3, <1>5, TextReturns, TextNotNested DEF EditorOK, TextOK
<1>8. SeenOK(panel, ed')
  BY <1>2, <1>5 DEF EditorOK, SeenOK, SeenHeld
<1> QED
  BY <1>1, <1>6, <1>7, <1>8 DEF EditorOK

\* A preset replaces everything but the price in the panel.
LEMMA PresetKeeps ==
  ASSUME EditorOK(panel, ed), NEW preset \in Presets, ApplyPreset(preset)
  PROVE  EditorOK(panel', ed')
<1> DEFINE rules  == BuildRules(preset.rules)
           raw    == Combine(preset.expr, rules)
           parsed == TryParseVisual(preset.expr)
           mode   == IF parsed # NullConfig THEN "visual" ELSE "raw"
<1>1. /\ panel \in Panels /\ ed \in Editors /\ ~ed.fresh /\ ed.on
      /\ panel' = [panel EXCEPT !.rules = rules, !.touched = TRUE]
      /\ ed' = [ed EXCEPT !.raw = raw, !.cfg = parsed, !.groups = preset.rules,
                          !.dirty = TRUE, !.mode = mode]
  BY SettledNotFresh DEF EditorOK, Shape, ApplyPreset, Event
<1>2. preset.expr \in Exprs /\ preset.rules \in Seq(Groups) /\ preset.expr.layers = <<>>
  BY ConstantsOK
<1>3. rules \in Seq(Rules) /\ parsed \in Seq(Tiers)
  <2>1. rules \in Seq(Rules)
    BY <1>2, BuildRulesType
  <2> QED
    BY <1>2, <2>1, ParsedType
<1>4. raw \in Exprs
  BY <1>2, <1>3, CombineType
<1>5. /\ mode \in {"visual", "raw"} /\ (mode = "visual" => parsed # NullConfig)
  OBVIOUS
<1>6. ~Nested(preset.expr)
  BY <1>2, UnlayeredSplit
<1>7. /\ CanParseRules(rules) => Combine(Split(raw).base, rules) = raw
      /\ ~Nested(Split(raw).base)
  BY <1>2, <1>3, <1>6, TextReturns, TextNotNested
<1>8. Fits(preset.rules, rules)
  BY DEF Fits
<1> HIDE DEF rules, raw, parsed, mode
<1>9. /\ panel' \in Panels /\ panel'.open = panel.open /\ panel'.mode = panel.mode
      /\ panel'.bexpr = panel.bexpr /\ panel'.odd = panel.odd /\ panel'.touched
      /\ panel'.rules = rules
  BY <1>1, <1>3 DEF Panels
<1>10. /\ ed' \in Editors /\ ed'.on /\ ed'.mode = mode /\ ed'.raw = raw /\ ed'.cfg = parsed
       /\ ed'.groups = preset.rules /\ ~ed'.fresh /\ ed'.dirty
  BY <1>1, <1>2, <1>3, <1>4, <1>5 DEF Editors
<1>11. Shape(panel', ed')
  BY <1>1, <1>5, <1>9, <1>10 DEF EditorOK, Shape
<1>12. Reported(panel', ed') /\ SeenOK(panel', ed')
  BY <1>9, <1>10 DEF Reported, SeenOK, Untouched
<1>13. TextOK(panel', ed')
  BY <1>7, <1>9, <1>10 DEF EditorOK, TextOK
<1>14. RulesOK(panel', ed')
  BY <1>8, <1>9, <1>10 DEF RulesOK
<1> QED
  BY <1>11, <1>12, <1>13, <1>14 DEF EditorOK

\* What one pass of the effects starts from.
NextEd    == IF InitDue THEN Initialised ELSE ed
NextRules == IF ed.mode = "visual" THEN BuildRules(ed.groups) ELSE panel.rules

\* The editor after the initialising effect.
LEMMA InitialisedIs ==
  ASSUME Shape(panel, ed)
  PROVE  /\ Initialised \in Editors /\ Initialised.on = ed.on
         /\ Initialised.raw = Combine(panel.bexpr, panel.rules)
         /\ Initialised.groups = ParsedGroups(panel.rules)
         /\ TryParseVisual(panel.bexpr) # NullConfig =>
              Initialised.mode = "visual" /\ Initialised.cfg = TryParseVisual(panel.bexpr)
         /\ TryParseVisual(panel.bexpr) = NullConfig /\ panel.bexpr # NoExpr =>
              Initialised.mode = "raw"
         /\ panel.bexpr = NoExpr =>
              Initialised.mode = ed.mode /\ Initialised.cfg = DefaultConfig
<1> DEFINE parsed == TryParseVisual(panel.bexpr)
           cfg  == IF parsed # NullConfig THEN parsed
                   ELSE IF panel.bexpr # NoExpr THEN NullConfig ELSE DefaultConfig
           mode == IF parsed # NullConfig THEN "visual"
                   ELSE IF panel.bexpr # NoExpr THEN "raw" ELSE ed.mode
           raw  == Combine(panel.bexpr, panel.rules)
           groups == ParsedGroups(panel.rules)
<1>1. Initialised = [ed EXCEPT !.cfg = cfg, !.mode = mode, !.raw = raw, !.groups = groups]
  BY DEF Initialised
<1>2. ed \in Editors /\ ed.mode \in {"visual", "raw"} /\ panel.bexpr \in Exprs /\ panel.rules \in Seq(Rules)
  BY DEF Shape, Editors, Panels
<1>3. parsed \in Seq(Tiers) /\ groups \in Seq(Groups) /\ raw \in Exprs
  BY <1>2, ParsedType, CombineType
<1>4. NullConfig \in Seq(Tiers) /\ DefaultConfig \in Seq(Tiers)
  BY DefaultType DEF NullConfig
<1>5. cfg \in Seq(Tiers) /\ mode \in {"visual", "raw"}
  BY <1>2, <1>3, <1>4
<1>6. panel.bexpr = NoExpr => parsed = NullConfig
  BY DEF TryParseVisual, NoExpr, Expr, Body
<1>7. /\ parsed # NullConfig => mode = "visual" /\ cfg = parsed
      /\ parsed = NullConfig /\ panel.bexpr # NoExpr => mode = "raw"
      /\ panel.bexpr = NoExpr => mode = ed.mode /\ cfg = DefaultConfig
  BY <1>6
<1> HIDE DEF cfg, mode, raw, groups, parsed
<1>8. /\ Initialised \in Editors /\ Initialised.on = ed.on /\ Initialised.raw = raw
      /\ Initialised.groups = groups /\ Initialised.mode = mode /\ Initialised.cfg = cfg
  BY <1>1, <1>2, <1>3, <1>5 DEF Editors
<1> QED
  BY <1>7, <1>8 DEF raw, groups, parsed

\* A pass of the effects, part by part.
LEMMA EffectsParts ==
  ASSUME Shape(panel, ed), Effects
  PROVE  /\ panel' \in Panels /\ ed' \in Editors /\ NextEd \in Editors
         /\ panel'.bexpr = EffectiveExpr /\ panel'.rules = NextRules
         /\ EffectiveExpr \in Exprs /\ NextRules \in Seq(Rules)
         /\ panel'.odd <=> (panel.odd \/ ~CanParseRules(NextRules))
         /\ panel'.open = panel.open /\ panel'.mode = panel.mode
         /\ panel'.seen = panel.seen /\ panel'.touched = panel.touched
         /\ ed'.on /\ ed.on /\ ~ed'.fresh
         /\ ed'.mode = NextEd.mode /\ ed'.cfg = NextEd.cfg /\ ed'.raw = NextEd.raw
         /\ ed'.groups = NextEd.groups
         /\ ~ed'.dirty => /\ EffectiveExpr = panel.bexpr /\ NextRules = panel.rules
                          /\ NextEd = ed
<1>1. panel \in Panels /\ ed \in Editors /\ ed.on /\ ed.dirty
  BY DEF Shape, Effects
<1>2. EffectiveExpr \in Exprs /\ NextRules \in Seq(Rules)
  <2>1. /\ ed.cfg \in Seq(Tiers) /\ ed.raw \in Exprs /\ ed.groups \in Seq(Groups)
        /\ panel.rules \in Seq(Rules)
    BY <1>1 DEF Editors, Panels
  <2>2. EffectiveExpr \in Exprs
    BY <2>1, GenerateType, SplitType DEF EffectiveExpr
  <2>3. NextRules \in Seq(Rules)
    BY <2>1, BuildRulesType DEF NextRules
  <2> QED
    BY <2>2, <2>3
<1>3. NextEd \in Editors /\ NextEd.on
  BY <1>1, InitialisedIs DEF NextEd
<1> DEFINE odd   == panel.odd \/ ~CanParseRules(NextRules)
           init  == ~(ed.fresh \/ ed.renamed) /\ (ed.init \/ InitDue)
           dirty == EffectiveExpr # panel.bexpr \/ NextRules # panel.rules \/ NextEd # ed
           last  == <<panel.bexpr, panel.rules>>
<1>4. /\ panel' = [panel EXCEPT !.bexpr = EffectiveExpr, !.rules = NextRules, !.odd = odd]
      /\ ed' = [NextEd EXCEPT !.init = init, !.fresh = FALSE, !.renamed = FALSE,
                              !.last = last, !.dirty = dirty]
  BY DEF Effects, NextEd, NextRules
<1>5. odd \in BOOLEAN /\ init \in BOOLEAN /\ dirty \in BOOLEAN
  BY Zenon
<1>6. last \in Exprs \X Seq(Rules)
  BY <1>1 DEF Panels
<1>7. ~dirty => EffectiveExpr = panel.bexpr /\ NextRules = panel.rules /\ NextEd = ed
  OBVIOUS
<1>8. odd <=> (panel.odd \/ ~CanParseRules(NextRules))
  OBVIOUS
<1>9. ASSUME NEW o \in BOOLEAN, NEW p, p = [panel EXCEPT !.bexpr = EffectiveExpr, !.rules = NextRules, !.odd = o]
      PROVE  /\ p \in Panels /\ p.bexpr = EffectiveExpr /\ p.rules = NextRules /\ p.odd = o
             /\ p.open = panel.open /\ p.mode = panel.mode
             /\ p.seen = panel.seen /\ p.touched = panel.touched
  BY <1>1, <1>2, <1>9 DEF Panels
<1>10. ASSUME NEW i \in BOOLEAN, NEW d \in BOOLEAN, NEW e,
              e = [NextEd EXCEPT !.init = i, !.fresh = FALSE, !.renamed = FALSE,
                                 !.last = last, !.dirty = d]
       PROVE  /\ e \in Editors /\ e.on /\ ~e.fresh /\ e.mode = NextEd.mode /\ e.cfg = NextEd.cfg
              /\ e.raw = NextEd.raw /\ e.groups = NextEd.groups /\ e.dirty = d
  <2> HIDE DEF last
  <2> QED
    BY <1>3, <1>6, <1>10 DEF Editors
<1>11. /\ panel' \in Panels /\ panel'.bexpr = EffectiveExpr /\ panel'.rules = NextRules
       /\ panel'.odd = odd /\ panel'.open = panel.open /\ panel'.mode = panel.mode
       /\ panel'.seen = panel.seen /\ panel'.touched = panel.touched
  <2> HIDE DEF odd
  <2> QED
    BY <1>4, <1>5, <1>9
<1>12. /\ ed' \in Editors /\ ed'.on /\ ~ed'.fresh /\ ed'.mode = NextEd.mode
       /\ ed'.cfg = NextEd.cfg /\ ed'.raw = NextEd.raw /\ ed'.groups = NextEd.groups
       /\ ed'.dirty = dirty
  <2> HIDE DEF init, dirty, last
  <2> QED
    BY <1>4, <1>5, <1>10
<1> HIDE DEF odd, dirty
<1> QED
  BY <1>1, <1>2, <1>3, <1>7, <1>8, <1>11, <1>12

\* One pass of the effects of TieredPricingEditor.
LEMMA EffectsKeep ==
  ASSUME EditorOK(panel, ed), Effects
  PROVE  EditorOK(panel', ed')
<1>1. Shape(panel, ed)
  BY DEF EditorOK
<1>2. /\ panel' \in Panels /\ ed' \in Editors /\ NextEd \in Editors
      /\ panel'.bexpr = EffectiveExpr /\ panel'.rules = NextRules
      /\ EffectiveExpr \in Exprs /\ NextRules \in Seq(Rules)
      /\ panel'.odd <=> (panel.odd \/ ~CanParseRules(NextRules))
      /\ panel'.open = panel.open /\ panel'.mode = panel.mode
      /\ panel'.seen = panel.seen /\ panel'.touched = panel.touched
      /\ ed'.on /\ ed.on /\ ~ed'.fresh
      /\ ed'.mode = NextEd.mode /\ ed'.cfg = NextEd.cfg /\ ed'.raw = NextEd.raw
      /\ ed'.groups = NextEd.groups
      /\ ~ed'.dirty => /\ EffectiveExpr = panel.bexpr /\ NextRules = panel.rules
                       /\ NextEd = ed
  BY <1>1, EffectsParts
<1>3. /\ panel.bexpr \in Exprs /\ panel.rules \in Seq(Rules) /\ ed.mode \in {"visual", "raw"}
      /\ ed.cfg \in Seq(Tiers)
  BY <1>1 DEF Shape, Panels, Editors
<1>4. /\ ed.mode = "visual" => EffectiveExpr = GenerateExpr(ed.cfg) /\ NextRules = BuildRules(ed.groups)
      /\ ed.mode = "raw" => EffectiveExpr = Split(ed.raw).base /\ NextRules = panel.rules
  BY DEF EffectiveExpr, NextRules
<1>5. panel'.odd \/ ~Nested(EffectiveExpr)
  <2>1. CASE ed.mode = "visual"
    BY <1>3, <1>4, <2>1, GenerateType, UnlayeredSplit
  <2>2. CASE ed.mode = "raw"
    BY <1>2, <1>4, <2>2 DEF EditorOK, TextOK
  <2> QED
    BY <1>3, <2>1, <2>2
<1>6. CASE InitDue
  <2>1. NextEd = Initialised
    BY <1>6 DEF NextEd
  <2>2. /\ ed'.raw = Combine(panel.bexpr, panel.rules)
        /\ ed'.groups = ParsedGroups(panel.rules)
        /\ TryParseVisual(panel.bexpr) # NullConfig =>
             ed'.mode = "visual" /\ ed'.cfg = TryParseVisual(panel.bexpr)
        /\ TryParseVisual(panel.bexpr) = NullConfig /\ panel.bexpr # NoExpr => ed'.mode = "raw"
        /\ panel.bexpr = NoExpr => ed'.mode = ed.mode /\ ed'.cfg = DefaultConfig
    BY <1>1, <1>2, <2>1, InitialisedIs
  <2>3. Shape(panel', ed')
    BY <1>1, <1>2, <2>2, DefaultType DEF Shape
  <2>4. Reported(panel', ed')
    BY <1>2, <1>4 DEF Reported
  <2>5. TextOK(panel', ed')
    <3> SUFFICES ASSUME ed'.mode = "raw", ~panel'.odd
                 PROVE  /\ ~Nested(Split(ed'.raw).base)
                        /\ CanParseRules(NextRules) =>
                             Combine(Split(ed'.raw).base, NextRules) = ed'.raw
      BY <1>2, <1>5 DEF TextOK
    <3>1. ~panel.odd /\ ~Nested(panel.bexpr) /\ CanParseRules(NextRules)
      BY <1>2 DEF EditorOK, TextOK
    <3>2. ~Nested(Split(ed'.raw).base)
      BY <1>3, <2>2, <3>1, TextNotNested
    <3>3. CASE ed.mode = "raw"
      BY <1>3, <1>4, <2>2, <3>1, <3>2, <3>3, TextReturns
    <3>4. CASE ed.mode = "visual"
      <4>1. TryParseVisual(panel.bexpr) = NullConfig /\ panel.bexpr # NoExpr
        BY <2>2, <3>4
      <4>2. Fits(ed.groups, panel.rules)
        BY <1>2, <3>4, <4>1 DEF EditorOK, RulesOK
      <4>3. CASE NextRules = panel.rules
        BY <1>3, <2>2, <3>1, <3>2, <4>3, TextReturns
      <4>4. CASE ~CanParseRules(panel.rules) /\ NextRules = <<>>
        BY <1>3, <2>2, <3>2, <4>1, <4>4, RefusedTextReturns
      <4> QED
        BY <1>4, <3>4, <4>2, <4>3, <4>4 DEF Fits
    <3> QED
      BY <1>3, <3>3, <3>4
  <2>6. RulesOK(panel', ed')
    <3> SUFFICES ASSUME ed'.mode = "visual", TryParseVisual(EffectiveExpr) = NullConfig
                 PROVE  Fits(ed'.groups, NextRules)
      BY <1>2 DEF RulesOK
    <3>1. CASE ed.mode = "raw"
      BY <1>3, <1>4, <2>2, <3>1, ParsedFit
    <3>2. CASE ed.mode = "visual"
      <4>1. ed.cfg = NullConfig
        BY <1>3, <1>4, <3>2, GenerateType
      <4>2. ed.fresh /\ ed = Mounted(panel)
        BY <1>1, <1>2, <3>2, <4>1 DEF Shape
      <4>3. ed.groups = ParsedGroups(panel.rules)
        BY <1>1, <1>2, <4>2 DEF Shape, Mounted, Unmounted
      <4> QED
        BY <1>4, <2>2, <3>2, <4>3 DEF Fits
    <3> QED
      BY <1>3, <3>1, <3>2
  <2>7. SeenOK(panel', ed')
    <3> SUFFICES ASSUME Untouched(panel')
                 PROVE  /\ SeenHeld(panel') /\ ed'.mode = "visual"
                        /\ ed'.cfg = panel'.bexpr.body.tiers /\ ed'.groups = panel'.rules
      BY DEF SeenOK
    <3>1. Untouched(panel)
      BY <1>2 DEF Untouched
    <3>2. /\ SeenHeld(panel)
          /\ ed.mode = "visual" => ed.cfg = panel.bexpr.body.tiers /\ ed.groups = panel.rules
          /\ ed.mode = "raw" => ed.raw = panel.seen
      BY <1>2, <3>1 DEF EditorOK, SeenOK
    <3>3. EffectiveExpr = panel.bexpr /\ NextRules = panel.rules
      BY <1>1, <1>3, <1>4, <3>2, SeenSplit DEF Shape
    <3>4. SeenHeld(panel')
      BY <1>2, <3>2, <3>3 DEF SeenHeld
    <3> QED
      BY <1>1, <1>2, <2>2, <3>2, <3>3, <3>4, SeenSplit DEF Shape
  <2> QED
    BY <2>3, <2>4, <2>5, <2>6, <2>7 DEF EditorOK
<1>7. CASE ~InitDue
  <2>1. NextEd = ed
    BY <1>7 DEF NextEd
  <2>2. ~ed.fresh
    <3> SUFFICES ASSUME ed.fresh PROVE FALSE
      OBVIOUS
    <3>1. ed = Mounted(panel)
      BY <1>1 DEF Shape
    <3>2. ~ed.init
      BY <3>1 DEF Mounted, Unmounted
    <3> QED
      BY <1>7, <3>2 DEF InitDue
  <2>3. Shape(panel', ed')
    BY <1>1, <1>2, <2>1, <2>2 DEF Shape
  <2>4. Reported(panel', ed')
    BY <1>2, <1>4 DEF Reported
  <2>5. TextOK(panel', ed')
    BY <1>2, <1>4, <1>5, <2>1 DEF EditorOK, TextOK
  <2>6. RulesOK(panel', ed')
    <3>1. ed.mode = "visual" => TryParseVisual(EffectiveExpr) # NullConfig
      BY <1>1, <1>2, <1>3, <1>4, <2>2, GenerateType DEF Shape
    <3> QED
      BY <1>2, <2>1, <3>1 DEF RulesOK
  <2>7. SeenOK(panel', ed')
    <3> SUFFICES ASSUME Untouched(panel')
                 PROVE  /\ SeenHeld(panel')
                        /\ ed'.mode = "visual" =>
                             ed'.cfg = panel'.bexpr.body.tiers /\ ed'.groups = panel'.rules
                        /\ ed'.mode = "raw" => ed'.raw = panel'.seen
      BY DEF SeenOK
    <3>1. Untouched(panel)
      BY <1>2 DEF Untouched
    <3>2. /\ SeenHeld(panel)
          /\ ed.mode = "visual" => ed.cfg = panel.bexpr.body.tiers /\ ed.groups = panel.rules
          /\ ed.mode = "raw" => ed.raw = panel.seen
      BY <1>2, <3>1 DEF EditorOK, SeenOK
    <3>3. EffectiveExpr = panel.bexpr /\ NextRules = panel.rules
      BY <1>1, <1>3, <1>4, <3>2, SeenSplit DEF Shape
    <3>4. SeenHeld(panel')
      BY <1>2, <3>2, <3>3 DEF SeenHeld
    <3> QED
      BY <1>2, <2>1, <3>2, <3>3, <3>4
  <2> QED
    BY <2>3, <2>4, <2>5, <2>6, <2>7 DEF EditorOK
<1> QED
  BY <1>6, <1>7

-----------------------------------------------------------------------------
(* The page and the server.                                                *)

\* The options.
AllKeys == {"ratio", "completion", "audioInput", "audioOutput", "mode", "expr"}

\* They are the ones a save goes through.
LEMMA KeysAre == Range(Keys) = AllKeys
<1>1. DOMAIN Keys = 1..6
  BY DEF Keys
<1>2. 1..6 = {1, 2, 3, 4, 5, 6}
  OBVIOUS
<1> QED
  BY <1>1, <1>2 DEF Keys, AllKeys, Range

\* Options that agree on every key are the same.
LEMMA OptionsEqual ==
  ASSUME NEW a \in PricingOptions, NEW b \in PricingOptions, \A k \in AllKeys : a[k] = b[k]
  PROVE  a = b
<1>1. /\ a.ratio = b.ratio /\ a.completion = b.completion /\ a.audioInput = b.audioInput
      /\ a.audioOutput = b.audioOutput /\ a.mode = b.mode /\ a.expr = b.expr
  BY DEF AllKeys
<1> QED
  BY <1>1 DEF PricingOptions

\* One option may be replaced by that of other options.
LEMMA OptionStored ==
  ASSUME NEW a \in PricingOptions, NEW b \in PricingOptions, NEW k \in AllKeys
  PROVE  /\ [a EXCEPT ![k] = b[k]] \in PricingOptions
         /\ [a EXCEPT ![k] = b[k]][k] = b[k]
         /\ \A j \in AllKeys : j # k => [a EXCEPT ![k] = b[k]][j] = a[j]
<1>1. CASE k = "ratio"
  BY <1>1 DEF PricingOptions, AllKeys
<1>2. CASE k = "completion"
  BY <1>2 DEF PricingOptions, AllKeys
<1>3. CASE k = "audioInput"
  BY <1>3 DEF PricingOptions, AllKeys
<1>4. CASE k = "audioOutput"
  BY <1>4 DEF PricingOptions, AllKeys
<1>5. CASE k = "mode"
  BY <1>5 DEF PricingOptions, AllKeys
<1>6. CASE k = "expr"
  BY <1>6 DEF PricingOptions, AllKeys
<1> QED
  BY <1>1, <1>2, <1>3, <1>4, <1>5, <1>6 DEF AllKeys

\* The option that is sent next is one that is left.
LEMMA NextKeyIsLeft ==
  ASSUME save \in Saves, Saving
  PROVE  NextKey \in save.left /\ NextKey \in AllKeys
<1> DEFINE First6(i) == /\ Keys[i] \in save.left
                        /\ \A j \in DOMAIN Keys : Keys[j] \in save.left => i <= j
<1>1. DOMAIN Keys = 1..6
  BY DEF Keys
<1>2. \E i \in 1..6 : Keys[i] \in save.left
  BY <1>1, KeysAre DEF Saves, Saving, Range
<1> DEFINE I == {i \in 1..6 : Keys[i] \in save.left}
<1>3. \E i \in I : \A j \in I : i <= j
  <2>1. I \subseteq Nat /\ I # {}
    BY <1>2
  <2> HIDE DEF I
  <2>2. PICK i \in I : \A j \in I : ~(<<j, i>> \in OpToRel(<, Nat))
    BY <2>1, NatLessThanWellFounded, WFMin
  <2>3. \A j \in I : ~(j < i)
    BY <2>1, <2>2 DEF OpToRel
  <2> QED
    BY <2>1, <2>3
<1>4. \E i \in DOMAIN Keys : First6(i)
  BY <1>1, <1>3
<1>5. First6(CHOOSE i \in DOMAIN Keys : First6(i))
  <2> HIDE DEF First6
  <2> QED
    BY <1>4
<1>6. NextKey \in save.left
  BY <1>5 DEF NextKey
<1> QED
  BY <1>6, KeysAre DEF Saves

\* The types of the page's state.
PageTypes ==
  /\ server \in PricingOptions /\ data \in PricingOptions /\ baseline \in PricingOptions
  /\ form \in PricingOptions /\ save \in Saves
  /\ fetch \in BOOLEAN /\ blind \in BOOLEAN

\* Unless an answer was lost or a step was taken too early, which blind says:
\* what was fetched is what the server holds, or a fetch is to come; between
\* two saves the baseline is right, or that fetch will put it right;
Fetched == blind \/ fetch \/ data = server
AtRest  == ~Saving /\ ~blind => \/ fetch /\ server # data
                                \/ baseline = server

\* during a save, the server has the options that were sent, and neither the
\* server nor the baseline has those that are left: the ratios are excepted,
\* which a reset may have changed since, but then the options that are left
\* differ from what was fetched, and the fetch will see the reset.
Sent    == Saving /\ ~blind =>
             \A k \in AllKeys \ save.left : k # "ratio" => server[k] = save.values[k]
ToSend  == Saving /\ ~blind =>
             \A k \in save.left : k # "ratio" => /\ server[k] # save.values[k]
                                                 /\ baseline[k] # save.values[k]
Lagging == Saving /\ ~blind /\ "ratio" \notin save.left /\ server["ratio"] # save.values["ratio"]
             => \A k \in save.left : data[k] # save.values[k]

PageOK == PageTypes /\ Fetched /\ AtRest /\ Sent /\ ToSend /\ Lagging

\* A step that only stages a draft.
LEMMA DraftKeepsPage ==
  ASSUME PageOK, form' \in PricingOptions,
         UNCHANGED <<server, data, baseline, save, fetch, blind>>
  PROVE  PageOK'
  BY DEF PageOK, PageTypes, Fetched, AtRest, Sent, ToSend, Lagging, Saving

\* The beginning of a save.
LEMMA StartSaveKeepsPage ==
  ASSUME PageOK, ~Saving, NEW values \in PricingOptions, StartSave(values),
         form' \in PricingOptions, UNCHANGED <<server, data, baseline, fetch>>
  PROVE  PageOK'
<1>1. CASE Updates(values) = {}
  <2>1. UNCHANGED <<save, blind>>
    BY <1>1 DEF StartSave
  <2> QED
    BY <2>1, DraftKeepsPage
<1>2. CASE Updates(values) # {}
  <2>1. /\ save' = [left |-> Updates(values), values |-> values]
        /\ blind' = (blind \/ baseline # server)
    BY <1>2 DEF StartSave
  <2>2. Updates(values) \subseteq Range(Keys)
    BY DEF Updates
  <2>3. /\ save' \in Saves /\ save'.left = Updates(values) /\ save'.values = values
    BY <2>1, <2>2 DEF Saves
  <2>4. PageTypes'
    BY <2>1, <2>3 DEF PageOK, PageTypes
  <2>5. Fetched' /\ AtRest'
    BY <1>2, <2>1, <2>3 DEF PageOK, Fetched, AtRest, Saving
  <2>6. \A k \in AllKeys : k \in save'.left <=> values[k] # baseline[k]
    BY <2>3, KeysAre DEF Updates
  <2>7. ~blind' => baseline = server
    BY <2>1
  <2>8. Sent'
    BY <2>3, <2>6, <2>7 DEF Sent
  <2>9. ToSend'
    BY <2>2, <2>3, <2>6, <2>7, KeysAre DEF ToSend
  <2>10. Lagging'
    <3>1. "ratio" \in AllKeys
      BY DEF AllKeys
    <3> QED
      BY <2>3, <2>6, <2>7, <3>1 DEF Lagging
  <2> QED
    BY <2>4, <2>5, <2>8, <2>9, <2>10 DEF PageOK
<1> QED
  BY <1>1, <1>2

\* A reset of the ratios.
LEMMA ResetKeepsPage ==
  ASSUME PageOK, ConfirmReset
  PROVE  PageOK'
<1>1. /\ server' = [server EXCEPT !.ratio = DefaultRatio] /\ fetch' = TRUE
      /\ blind' = (blind \/ baseline # data)
      /\ UNCHANGED <<data, baseline, form, save>>
  BY DEF ConfirmReset
<1>2. server' \in PricingOptions /\ \A k \in AllKeys : k # "ratio" => server'[k] = server[k]
  BY <1>1, ConstantsOK DEF PageOK, PageTypes, PricingOptions, AllKeys
<1>3. ~blind' => ~blind /\ baseline = data
  BY <1>1
<1>4. PageTypes'
  BY <1>1, <1>2 DEF PageOK, PageTypes
<1>5. Fetched' /\ AtRest'
  BY <1>1, <1>3 DEF Fetched, AtRest
<1>6. save.left \subseteq AllKeys
  BY KeysAre DEF PageOK, PageTypes, Saves
<1>7. Sent' /\ ToSend'
  BY <1>1, <1>2, <1>3, <1>6 DEF PageOK, Sent, ToSend, Saving
<1>8. Lagging'
  BY <1>1, <1>3 DEF PageOK, ToSend, Lagging, Saving
<1> QED
  BY <1>4, <1>5, <1>7, <1>8 DEF PageOK

\* One option of the save is stored.
LEMMA UpdateKeepsPage ==
  ASSUME PageOK, UpdateOption
  PROVE  PageOK'
<1> DEFINE k0 == NextKey
<1>1. save \in Saves /\ Saving /\ server \in PricingOptions /\ save.values \in PricingOptions
  BY DEF PageOK, PageTypes, UpdateOption, Saves
<1>2. k0 \in save.left /\ k0 \in AllKeys
  BY <1>1, NextKeyIsLeft
<1>3. /\ server' = [server EXCEPT ![k0] = save.values[k0]] /\ fetch' = TRUE
      /\ save' = [save EXCEPT !.left = @ \ {k0}]
      /\ baseline' = IF save'.left = {} THEN save.values ELSE baseline
      /\ UNCHANGED <<data, form, blind>>
  BY DEF UpdateOption, Stored, Advance
<1> HIDE DEF k0
<1>4. /\ server' \in PricingOptions /\ server'[k0] = save.values[k0]
      /\ \A j \in AllKeys : j # k0 => server'[j] = server[j]
  <2>1. PICK v \in PricingOptions : v = save.values
    BY <1>1
  <2>2. PICK k \in AllKeys : k = k0
    BY <1>2
  <2>3. server' = [server EXCEPT ![k] = v[k]]
    BY <1>3, <2>1, <2>2
  <2>4. /\ [server EXCEPT ![k] = v[k]] \in PricingOptions
        /\ [server EXCEPT ![k] = v[k]][k] = v[k]
        /\ \A j \in AllKeys : j # k => [server EXCEPT ![k] = v[k]][j] = server[j]
    BY <1>1, OptionStored
  <2>5. /\ server' \in PricingOptions /\ server'[k] = v[k]
        /\ \A j \in AllKeys : j # k => server'[j] = server[j]
    BY <2>3, <2>4, Zenon
  <2> QED
    BY <2>1, <2>2, <2>5, Zenon
<1>5. save' \in Saves /\ save'.left = save.left \ {k0} /\ save'.values = save.values
  BY <1>1, <1>3 DEF Saves
<1>6. save.left \subseteq AllKeys
  BY <1>1, KeysAre DEF Saves
<1>7. PageTypes'
  BY <1>1, <1>3, <1>4, <1>5 DEF PageOK, PageTypes
<1>8. Fetched'
  BY <1>3 DEF Fetched
<1>9. AtRest'
  <2> SUFFICES ASSUME save'.left = {}, ~blind
               PROVE  server' # data \/ save.values = server'
    BY <1>3 DEF AtRest, Saving
  <2>1. save.left = {k0}
    BY <1>2, <1>5
  <2>2. \A j \in AllKeys : j # "ratio" => server'[j] = save.values[j]
    BY <1>1, <1>4, <2>1 DEF PageOK, Sent
  <2>3. CASE server'["ratio"] = save.values["ratio"]
    BY <1>1, <1>4, <2>2, <2>3, OptionsEqual
  <2>4. CASE server'["ratio"] # save.values["ratio"]
    <3>1. "ratio" \in AllKeys
      BY DEF AllKeys
    <3>2. k0 # "ratio" /\ server["ratio"] = server'["ratio"]
      BY <1>4, <2>4, <3>1
    <3>3. data[k0] # save.values[k0]
      BY <1>1, <2>1, <2>4, <3>2 DEF PageOK, Lagging
    <3> QED
      BY <1>4, <3>3
  <2> QED
    BY <2>3, <2>4
<1>10. ASSUME save'.left # {} PROVE baseline' = baseline
  BY <1>3, <1>10
<1>11. Sent'
  BY <1>1, <1>3, <1>4, <1>5 DEF PageOK, Sent
<1>12. ToSend'
  BY <1>1, <1>3, <1>4, <1>5, <1>6, <1>10 DEF PageOK, ToSend, Saving
<1>13. Lagging'
  <2>1. "ratio" \in AllKeys
    BY DEF AllKeys
  <2> QED
    BY <1>1, <1>3, <1>4, <1>5, <2>1 DEF PageOK, Lagging
<1> QED
  BY <1>7, <1>8, <1>9, <1>11, <1>12, <1>13 DEF PageOK

\* An option is refused, or its answer is lost.
LEMMA FailureKeepsPage ==
  ASSUME PageOK, UpdateRefused \/ UpdateAnswerLost
  PROVE  PageOK'
<1>1. /\ save \in Saves /\ Saving /\ server \in PricingOptions /\ save.values \in PricingOptions
      /\ save' = [save EXCEPT !.left = {}] /\ UNCHANGED <<baseline, data, form, fetch>>
  BY DEF PageOK, PageTypes, UpdateRefused, UpdateAnswerLost, Saves, Abandon
<1>2. save' \in Saves /\ save'.left = {}
  BY <1>1 DEF Saves
<1>3. Sent' /\ ToSend' /\ Lagging'
  BY <1>2 DEF Sent, ToSend, Lagging, Saving
<1>4. CASE UpdateRefused
  <2>1. server' = server /\ blind' = (blind \/ baseline # data)
    BY <1>4 DEF UpdateRefused
  <2>2. PageTypes'
    BY <1>1, <1>2, <2>1 DEF PageOK, PageTypes
  <2>3. Fetched' /\ AtRest'
    BY <1>1, <2>1 DEF PageOK, Fetched, AtRest
  <2> QED
    BY <1>3, <2>2, <2>3 DEF PageOK
<1>5. CASE UpdateAnswerLost
  <2>1. server' = [server EXCEPT ![NextKey] = save.values[NextKey]] /\ blind' = TRUE
    BY <1>5 DEF UpdateAnswerLost, Stored
  <2>2. server' \in PricingOptions
    BY <1>1, <2>1, NextKeyIsLeft, OptionStored
  <2>3. PageTypes' /\ Fetched' /\ AtRest'
    BY <1>1, <1>2, <2>1, <2>2 DEF PageOK, PageTypes, Fetched, AtRest
  <2> QED
    BY <1>3, <2>3 DEF PageOK
<1> QED
  BY <1>4, <1>5

\* The query is fetched again.
LEMMA RefetchKeepsPage ==
  ASSUME PageOK, Refetch
  PROVE  PageOK'
<1>1. fetch' = FALSE /\ data' = server /\ UNCHANGED <<server, save>> /\ fetch
  BY DEF Refetch
<1>2. CASE server = data
  <2>1. UNCHANGED <<baseline, form, blind, data>>
    BY <1>1, <1>2 DEF Refetch
  <2> QED
    BY <1>1, <1>2, <2>1 DEF PageOK, PageTypes, Fetched, AtRest, Sent, ToSend, Lagging, Saving
<1>3. CASE server # data
  <2>1. baseline' = server /\ form' = server /\ blind' = (blind /\ Saving)
    BY <1>3 DEF Refetch
  <2>2. PageTypes'
    BY <1>1, <2>1 DEF PageOK, PageTypes
  <2>3. Fetched' /\ AtRest'
    BY <1>1, <2>1 DEF Fetched, AtRest
  <2>4. Saving' <=> Saving
    BY <1>1 DEF Saving
  <2>5. Sent' /\ ToSend' /\ Lagging'
    BY <1>1, <2>1, <2>4 DEF PageOK, Sent, ToSend, Lagging
  <2> QED
    BY <2>2, <2>3, <2>5 DEF PageOK
<1> QED
  BY <1>2, <1>3
-----------------------------------------------------------------------------
(* The specification.                                                      *)

IInv == PageOK /\ EditorOK(panel, ed) /\ acts \in 0..MaxActs

\* The page as it is opened.
LEMMA InitOK ==
  ASSUME Init
  PROVE  IInv
<1>1. server \in PricingOptions /\ acts \in 0..MaxActs
  BY ConstantsOK DEF Init
<1>2. save = [left |-> {}, values |-> server] /\ ~Saving
  BY DEF Init, Saving
<1>3. save \in Saves
  BY <1>1, <1>2 DEF Saves
<1>4. PageOK
  BY <1>1, <1>2, <1>3 DEF Init, PageOK, PageTypes, Fetched, AtRest, Sent, ToSend, Lagging
<1>5. EditorOK(panel, ed)
  BY ClosedKeeps DEF Init
<1> QED
  BY <1>1, <1>4, <1>5 DEF IInv

\* A step that leaves the page alone.
LEMMA PageStays ==
  ASSUME PageOK, UNCHANGED page
  PROVE  PageOK'
  BY DraftKeepsPage DEF page, PageOK, PageTypes

\* An event of the administrator is counted.
LEMMA EventCounted ==
  ASSUME acts \in 0..MaxActs, Event
  PROVE  acts' \in 0..MaxActs
  BY ConstantsOK DEF Event

\* The panel is opened for other prices, or closed.
LEMMA OpenedOrClosed ==
  ASSUME \/ Close
         \/ \E d \in Drafts, saved \in BOOLEAN : Show(d, saved)
  PROVE  EditorOK(panel', ed')
<1>1. CASE Close
  BY <1>1, ClosedKeeps DEF Close
<1>2. ASSUME NEW d \in Drafts, NEW saved \in BOOLEAN, Show(d, saved)
      PROVE  EditorOK(panel', ed')
  <2>1. panel' = PanelFor(d, saved) /\ ed' = Mounted(PanelFor(d, saved))
    BY <1>2 DEF Show
  <2>2. EditorOK(PanelFor(d, saved), Mounted(PanelFor(d, saved)))
    BY ShowKeeps
  <2> QED
    BY <2>1, <2>2, Zenon
<1> QED
  BY <1>1, <1>2

\* A model is chosen or named.
LEMMA ChooseKeeps ==
  ASSUME IInv, Choose
  PROVE  IInv'
<1>1. PageOK /\ EditorOK(panel, ed) /\ acts \in 0..MaxActs
  BY DEF IInv
<1>2. Event /\ UNCHANGED page
  BY DEF Choose, HandleAdd, CloseBySearch, HandleEdit, TypeName
<1>3. PageOK' /\ acts' \in 0..MaxActs
  BY <1>1, <1>2, PageStays, EventCounted
<1>4. CASE HandleAdd
  <2>1. NoPricing(CHOOSE m \in Models : TRUE) \in Drafts
    BY ConstantsOK, NoPricingType
  <2> QED
    BY <1>3, <1>4, <2>1, OpenedOrClosed DEF HandleAdd, IInv
<1>5. CASE CloseBySearch
  BY <1>3, <1>5, OpenedOrClosed DEF CloseBySearch, IInv
<1>6. ASSUME NEW m \in Models, HandleEdit(m) PROVE IInv'
  <2>1. RowData(m) \in Drafts
    BY <1>1, RowDataType DEF PageOK, PageTypes
  <2> QED
    BY <1>3, <1>6, <2>1, OpenedOrClosed DEF HandleEdit, IInv
<1>7. ASSUME NEW m \in Models, TypeName(m) PROVE IInv'
  BY <1>1, <1>3, <1>7, TypeNameKeeps DEF IInv
<1> QED
  BY <1>4, <1>5, <1>6, <1>7 DEF Choose

\* The prices, the tiers, the rules and the text are edited, or looked at in
\* another view.
LEMMA EditKeeps ==
  ASSUME IInv, PriceTokens \/ EditTiers \/ EditRules \/ EditText \/ Views
  PROVE  IInv'
<1>1. PageOK /\ EditorOK(panel, ed) /\ acts \in 0..MaxActs
  BY DEF IInv
<1> SUFFICES Event /\ UNCHANGED page /\ EditorOK(panel', ed')
  BY <1>1, PageStays, EventCounted DEF IInv
<1>2. CASE PriceTokens
  <2>1. PICK v \in Price, l \in Lanes :
          HandlePromptPrice(v) \/ HandleLanePrice(l, v) \/ HandleLaneToggle(l)
    BY <1>2, ConstantsOK DEF PriceTokens
  <2>2. Event /\ UNCHANGED page
    BY <2>1 DEF HandlePromptPrice, HandleLanePrice, HandleLaneToggle, InTokens
  <2> QED
    BY <1>1, <2>1, <2>2, TokensKeep
<1>3. CASE EditTiers
  <2>1. Event /\ UNCHANGED page
    BY <1>3 DEF EditTiers, HandleAddTier, HandleRemoveTier, HandleAddCondition,
                HandleRemoveCondition, HandleTierPrice, InVisual
  <2> QED
    BY <1>1, <1>3, <2>1, TiersKeep DEF EditTiers
<1>4. CASE EditRules
  <2>1. Event /\ UNCHANGED page
    BY <1>4 DEF EditRules, AddGroup, RemoveGroup, ChangeGroup, EditGroups, InVisual
  <2> QED
    BY <1>1, <1>4, <2>1, GroupsKeep DEF EditRules
<1>5. CASE EditText
  <2>1. Event /\ UNCHANGED page
    BY <1>5 DEF EditText, HandleRawChange, ApplyPreset
  <2> QED
    BY <1>1, <1>5, <2>1, RawChangeKeeps, PresetKeeps DEF EditText
<1>6. CASE Views
  <2>1. Event /\ UNCHANGED page
    BY <1>6 DEF Views, SwitchToVisual, SwitchToRaw, SelectTab
  <2> QED
    BY <1>1, <1>6, <2>1, ToVisualKeeps, ToRawKeeps, SelectTabKeeps DEF Views, Modes
<1> QED
  BY <1>2, <1>3, <1>4, <1>5, <1>6

\* Prices are staged, saved, deleted or reset.
LEMMA StageKeeps ==
  ASSUME IInv, Stage
  PROVE  IInv'
<1>1. /\ PageOK /\ EditorOK(panel, ed) /\ acts \in 0..MaxActs
      /\ panel \in Panels /\ form \in PricingOptions
  BY DEF IInv, PageOK, PageTypes, EditorOK, Shape
<1>2. Event
  BY DEF Stage, HandleSave, SaveDraft, ConfirmReset, HandleDelete, HandleBatchCopy
<1>3. acts' \in 0..MaxActs
  BY <1>1, <1>2, EventCounted
<1> SUFFICES PageOK' /\ EditorOK(panel', ed')
  BY <1>3 DEF IInv
<1>4. Committed \in Drafts
  BY <1>1, CommittedType
<1>5. CASE HandleSave
  <2>1. form' \in PricingOptions
    BY <1>1, <1>4, <1>5, PersistType DEF HandleSave
  <2>2. PageOK'
    BY <1>1, <1>5, <2>1, StartSaveKeepsPage DEF HandleSave
  <2> QED
    BY <1>4, <1>5, <2>2, OpenedOrClosed DEF HandleSave
<1>6. CASE SaveDraft
  <2>1. PageOK'
    BY <1>1, <1>6, StartSaveKeepsPage DEF SaveDraft
  <2>2. panel' = panel /\ ed' = ed
    BY <1>6 DEF SaveDraft
  <2> QED
    BY <1>1, <2>1, <2>2
<1>7. CASE ConfirmReset
  <2>1. panel' = panel /\ ed' = ed
    BY <1>7 DEF ConfirmReset
  <2> QED
    BY <1>1, <1>7, <2>1, ResetKeepsPage
<1>8. ASSUME NEW m \in Models, HandleDelete(m) PROVE PageOK' /\ EditorOK(panel', ed')
  <2>1. NoPricing(m) \in Drafts
    BY NoPricingType
  <2>2. form' \in PricingOptions /\ UNCHANGED <<server, data, baseline, save, fetch, blind>>
    BY <1>1, <1>8, <2>1, PersistType DEF HandleDelete
  <2>3. Close \/ (panel' = panel /\ ed' = ed)
    BY <1>8 DEF HandleDelete
  <2> QED
    BY <1>1, <2>2, <2>3, DraftKeepsPage, OpenedOrClosed
<1>9. ASSUME NEW targets \in SUBSET Models \ {{}}, HandleBatchCopy(targets)
      PROVE  PageOK' /\ EditorOK(panel', ed')
  <2>1. form' \in PricingOptions /\ UNCHANGED <<server, data, baseline, save, fetch, blind>>
    BY <1>1, <1>4, <1>9, PersistType DEF HandleBatchCopy
  <2> QED
    BY <1>1, <1>4, <1>9, <2>1, DraftKeepsPage, OpenedOrClosed DEF HandleBatchCopy
<1> QED
  BY <1>5, <1>6, <1>7, <1>8, <1>9 DEF Stage

\* A step of the specification.
LEMMA NextKeeps ==
  ASSUME IInv, [Next]_vars
  PROVE  IInv'
<1>1. PageOK /\ EditorOK(panel, ed) /\ acts \in 0..MaxActs
  BY DEF IInv
<1>2. CASE Effects
  <2>1. UNCHANGED <<page, acts>>
    BY <1>2 DEF Effects
  <2> QED
    BY <1>1, <1>2, <2>1, PageStays, EffectsKeep DEF IInv
<1>3. CASE UpdateOption \/ UpdateRefused \/ UpdateAnswerLost \/ Refetch
  <2>1. PageOK'
    BY <1>1, <1>3, UpdateKeepsPage, FailureKeepsPage, RefetchKeepsPage
  <2>2. panel' = panel /\ ed' = ed /\ acts' = acts
    BY <1>3 DEF UpdateOption, UpdateRefused, UpdateAnswerLost, Refetch
  <2> QED
    BY <1>1, <2>1, <2>2 DEF IInv
<1>4. CASE UNCHANGED vars
  <2>1. UNCHANGED page /\ panel' = panel /\ ed' = ed /\ acts' = acts
    BY <1>4 DEF vars, page
  <2> QED
    BY <1>1, <2>1, PageStays DEF IInv
<1> QED
  BY <1>2, <1>3, <1>4, ChooseKeeps, EditKeeps, StageKeeps DEF Next

\* The invariant of every reachable state.
LEMMA Invariance ==
  Spec => []IInv
<1>1. Init => IInv
  BY InitOK
<1>2. IInv /\ [Next]_vars => IInv'
  BY NextKeeps
<1> QED
  BY <1>1, <1>2, PTL DEF Spec

\* The types of the page, the panel and the editor, for every set of models,
\* prices and texts: the prices that are staged and saved are always ones that
\* the server's options can hold, the expressions are well-formed texts, and
\* the visual view has settled on at least one tier.
THEOREM TypeCorrect ==
  Spec => []TypeOK
<1>1. IInv => TypeOK
  <2> SUFFICES ASSUME IInv PROVE TypeOK
    OBVIOUS
  <2>1. PageTypes /\ Shape(panel, ed) /\ EditorOK(panel, ed) /\ acts \in 0..MaxActs
    BY DEF IInv, PageOK, EditorOK
  <2>2. /\ {server, data, baseline, form, save.values} \subseteq PricingOptions
        /\ save.left \subseteq Range(Keys) /\ {fetch, blind} \subseteq BOOLEAN
    BY <2>1 DEF PageTypes, Saves
  <2>3. /\ panel.name \in Models /\ panel.mode \in {"token", "tiered"}
        /\ panel.bexpr \in Exprs /\ panel.rules \in Seq(Rules)
        /\ {panel.prompt, panel.ratio} \subseteq Price
        /\ panel.lane \in [Lanes -> Price] /\ panel.price \in [Lanes -> Price]
    BY <2>1 DEF Shape, Panels, Modes
  <2>4. /\ ed.mode \in {"visual", "raw"} /\ ed.raw \in Exprs
        /\ ed.cfg \in Seq(Tiers) /\ ed.groups \in Seq(Groups)
        /\ ed.on \in BOOLEAN /\ panel.open \in BOOLEAN
    BY <2>1 DEF Shape, Panels, Editors
  <2>5. ed.on = (panel.open /\ panel.mode = "tiered")
    BY <2>1, <2>4 DEF Shape
  <2>6. ed.on /\ ~ed.dirty /\ ed.mode = "visual" => ed.cfg # NullConfig
    BY <2>1, SettledNotFresh DEF Shape
  <2> QED
    BY <2>1, <2>2, <2>3, <2>4, <2>5, <2>6 DEF TypeOK
<1> QED
  BY <1>1, Invariance, PTL

\* Once the effects of TieredPricingEditor have settled, what the page would
\* save charges every request what the open view shows: the panel has what the
\* view reports, and the text of the expression view is the price it splits
\* into with the panel's rules around it.
THEOREM StagedIsShown ==
  Spec => []ShownIsStaged
<1>1. IInv => ShownIsStaged
  <2> SUFFICES ASSUME IInv, Settled, ~panel.odd PROVE Staged = Shown
    BY DEF ShownIsStaged
  <2>1. Reported(panel, ed) /\ TextOK(panel, ed) /\ ed \in Editors /\ ed.on /\ ~ed.dirty
    BY DEF IInv, EditorOK, Shape, Settled
  <2>2. CASE ed.mode = "visual"
    BY <2>1, <2>2 DEF Reported, Staged, Shown
  <2>3. CASE ed.mode = "raw"
    BY <2>1, <2>3 DEF Reported, TextOK, Staged, Shown
  <2> QED
    BY <2>1, <2>2, <2>3 DEF Editors
<1> QED
  BY <1>1, Invariance, PTL

\* Opening a price that the visual editor can represent and looking at it in
\* either view, in whatever order, leaves what it charges as it was.
THEOREM LookingIsHarmless ==
  Spec => []ViewKeepsPrice
<1>1. IInv => ViewKeepsPrice
  BY DEF IInv, EditorOK, SeenOK, Untouched, SeenHeld, ViewKeepsPrice, Staged
<1> QED
  BY <1>1, Invariance, PTL

\* With no save and no fetch under way the page's idea of what the server
\* holds is right, also after a save that failed half-way and whatever a reset
\* of the ratios did in between, but for the exceptions that blind records.
THEOREM BaselineStaysTrue ==
  Spec => []BaselineIsTrue
<1>1. IInv => BaselineIsTrue
  BY DEF IInv, PageOK, AtRest, BaselineIsTrue
<1> QED
  BY <1>1, Invariance, PTL

-----------------------------------------------------------------------------
(* The per-token form.                                                     *)

\* What a lane keeps: nothing while it is off; while it is on, its ratio comes
\* from its price or its price from its ratio, and the price it is relative to
\* is the one the form shows now.
LaneOK(p, l) ==
  LET base == BaseOf(l, p.prompt, p.price)
  IN IF p.on[l]
     THEN \/ p.price[l] = Blank
          \/ p.lane[l] = LaneRatio(p.price[l], base)
          \/ p.price[l] = LanePrice(p.lane[l], base)
     ELSE p.lane[l] = Blank /\ p.price[l] = Blank

LanesOK(p) ==
  /\ p.ratio = IF p.prompt = Blank THEN Blank ELSE p.prompt \div 2
  /\ \A l \in Lanes : LaneOK(p, l)
FormOK == LanesOK(panel)

\* The names of the lanes.
LEMMA LaneNames ==
  /\ "completion" \in Lanes /\ "audioInput" \in Lanes /\ "audioOutput" \in Lanes
  /\ \A l \in Lanes : l = "completion" \/ l = "audioInput" \/ l = "audioOutput"
  BY DEF Lanes

\* Opening a model shows the prices that its ratios stand for.
LEMMA OpenedLanes ==
  ASSUME NEW d \in Drafts, NEW saved
  PROVE  LanesOK(PanelFor(d, saved))
<1> DEFINE p == PanelFor(d, saved)
<1>1. /\ p.ratio = d.ratio /\ p.lane = d.lane
      /\ p.prompt = InitialPrices(d).prompt /\ p.price = InitialPrices(d).price
      /\ p.on = [l \in Lanes |-> d.lane[l] # Blank]
  BY DEF PanelFor
<1>2. /\ p.prompt = IF d.ratio = Blank THEN Blank ELSE d.ratio * 2
      /\ p.price["completion"] = LanePrice(d.lane["completion"], p.prompt)
      /\ p.price["audioInput"] = LanePrice(d.lane["audioInput"], p.prompt)
      /\ p.price["audioOutput"] = LanePrice(d.lane["audioOutput"], p.price["audioInput"])
  BY <1>1 DEF InitialPrices
<1>3. d.ratio \in Price
  BY DEF Drafts
<1> HIDE DEF p
<1>4. p.ratio = IF p.prompt = Blank THEN Blank ELSE p.prompt \div 2
  <2>1. CASE d.ratio = Blank
    BY <1>1, <1>2, <2>1
  <2>2. CASE d.ratio # Blank
    <3>1. d.ratio \in Nat
      BY <1>3, <2>2 DEF Price
    <3>2. p.prompt = d.ratio * 2 /\ p.prompt # Blank /\ p.prompt \div 2 = d.ratio
      BY <1>2, <2>2, <3>1 DEF Blank
    <3> QED
      BY <1>1, <3>2
  <2> QED
    BY <2>1, <2>2
<1>5. ASSUME NEW l \in Lanes PROVE LaneOK(p, l)
  <2>1. p.price[l] = LanePrice(d.lane[l], BaseOf(l, p.prompt, p.price))
    BY <1>2, LaneNames DEF BaseOf
  <2>2. p.on[l] <=> d.lane[l] # Blank
    BY <1>1
  <2>3. d.lane[l] = Blank => p.price[l] = Blank
    BY <2>1 DEF LanePrice
  <2> QED
    BY <1>1, <2>1, <2>2, <2>3 DEF LaneOK
<1> QED
  BY <1>4, <1>5 DEF LanesOK, p

\* So does the panel while it is closed.
LEMMA ClosedLanes == LanesOK(Closed)
<1> DEFINE p == PanelFor(NoPricing(CHOOSE m \in Models : TRUE), FALSE)
<1>1. (CHOOSE m \in Models : TRUE) \in Models
  BY ConstantsOK
<1>2. LanesOK(p) /\ p \in Panels
  BY <1>1, NoPricingType, OpenedLanes, PanelForType
<1>3. Closed = [p EXCEPT !.open = FALSE]
  BY DEF Closed
<1> HIDE DEF p
<1>4. /\ Closed.ratio = p.ratio /\ Closed.lane = p.lane /\ Closed.prompt = p.prompt
      /\ Closed.price = p.price /\ Closed.on = p.on
  BY <1>2, <1>3 DEF Panels
<1> QED
  BY <1>2, <1>4 DEF LanesOK, LaneOK

\* An edit of the per-token form derives again every ratio whose base it
\* changes.
LEMMA TokensKeepLanes ==
  ASSUME panel \in Panels, LanesOK(panel), NEW v \in Price, NEW l \in Lanes,
         HandlePromptPrice(v) \/ HandleLanePrice(l, v) \/ HandleLaneToggle(l)
  PROVE  LanesOK(panel')
<1>1. /\ panel.on \in [Lanes -> BOOLEAN] /\ panel.price \in [Lanes -> Price]
      /\ panel.lane \in [Lanes -> Price]
  BY DEF Panels
<1>2. /\ panel.ratio = IF panel.prompt = Blank THEN Blank ELSE panel.prompt \div 2
      /\ \A k \in Lanes : LaneOK(panel, k)
  BY DEF LanesOK
<1>3. CASE HandlePromptPrice(v)
  <2> DEFINE ratio == IF v = Blank THEN Blank ELSE v \div 2
             lane  == [k \in Lanes |->
                         IF panel.on[k]
                         THEN LaneRatio(panel.price[k], BaseOf(k, v, panel.price))
                         ELSE Blank]
  <2>1. panel' = [panel EXCEPT !.prompt = v, !.ratio = ratio, !.lane = lane]
    BY <1>3 DEF HandlePromptPrice
  <2>2. \A k \in Lanes : lane[k] = IF panel.on[k]
                                   THEN LaneRatio(panel.price[k], BaseOf(k, v, panel.price))
                                   ELSE Blank
    OBVIOUS
  <2> HIDE DEF lane
  <2>3. /\ panel'.prompt = v /\ panel'.ratio = ratio /\ panel'.lane = lane
        /\ panel'.on = panel.on /\ panel'.price = panel.price
    <3> HIDE DEF ratio
    <3> QED
      BY <2>1 DEF Panels
  <2> QED
    BY <1>2, <2>2, <2>3 DEF LanesOK, LaneOK
<1>4. CASE HandleLanePrice(l, v)
  <2> DEFINE price == [panel.price EXCEPT ![l] = v]
             own   == [panel.lane EXCEPT ![l] = LaneRatio(v, BaseOf(l, panel.prompt, price))]
             lane  == IF l = "audioInput" /\ panel.on.audioOutput
                      THEN [own EXCEPT !.audioOutput = LaneRatio(price.audioOutput, v)]
                      ELSE own
  <2>1. panel' = [panel EXCEPT !.price = price, !.lane = lane] /\ panel.on[l]
    BY <1>4 DEF HandleLanePrice
  <2>2. /\ price[l] = v
        /\ \A k \in Lanes : k # l => price[k] = panel.price[k]
    BY <1>1
  <2>3. /\ own \in [Lanes -> Price]
        /\ own[l] = LaneRatio(v, BaseOf(l, panel.prompt, price))
        /\ \A k \in Lanes : k # l => own[k] = panel.lane[k]
    <3>1. price \in [Lanes -> Price] /\ panel.prompt \in Price
      BY <1>1 DEF Panels
    <3> QED
      BY <1>1, <3>1, LaneTypes, BaseType
  <2> HIDE DEF price, own
  <2>4. lane[l] = LaneRatio(v, BaseOf(l, panel.prompt, price))
    BY <2>3, LaneNames
  <2>5. ASSUME l = "audioInput", panel.on["audioOutput"]
        PROVE  lane["audioOutput"] = LaneRatio(price["audioOutput"], v)
    BY <2>3, <2>5, LaneNames
  <2>6. ASSUME NEW k \in Lanes, k # l, ~(l = "audioInput" /\ k = "audioOutput" /\ panel.on[k])
        PROVE  lane[k] = panel.lane[k]
    BY <2>3, <2>6, LaneNames
  <2> HIDE DEF lane
  <2>7. /\ panel'.price = price /\ panel'.lane = lane
        /\ panel'.on = panel.on /\ panel'.prompt = panel.prompt /\ panel'.ratio = panel.ratio
    BY <2>1 DEF Panels
  <2>8. ASSUME NEW k \in Lanes PROVE LaneOK(panel', k)
    <3>1. CASE k = l
      BY <2>1, <2>2, <2>4, <2>7, <3>1 DEF LaneOK
    <3>2. CASE l = "audioInput" /\ k = "audioOutput"
      <4>1. BaseOf(k, panel'.prompt, panel'.price) = v
        BY <2>2, <2>7, <3>2 DEF BaseOf
      <4>2. CASE panel.on[k]
        BY <2>5, <2>7, <3>2, <4>1, <4>2 DEF LaneOK
      <4>3. CASE ~panel.on[k]
        BY <1>2, <2>2, <2>6, <2>7, <3>2, <4>3 DEF LaneOK
      <4> QED
        BY <4>2, <4>3
    <3>3. CASE k # l /\ ~(l = "audioInput" /\ k = "audioOutput")
      <4>1. BaseOf(k, panel'.prompt, panel'.price) = BaseOf(k, panel.prompt, panel.price)
        BY <2>2, <2>7, <3>3, LaneNames DEF BaseOf
      <4>2. panel'.lane[k] = panel.lane[k] /\ panel'.price[k] = panel.price[k]
        BY <2>2, <2>6, <2>7, <3>3
      <4> QED
        BY <1>2, <2>7, <4>1, <4>2 DEF LaneOK
    <3> QED
      BY <3>1, <3>2, <3>3
  <2> QED
    BY <1>2, <2>7, <2>8 DEF LanesOK
<1>5. CASE HandleLaneToggle(l) /\ panel.on[l]
  <2> DEFINE off   == IF l = "audioInput" THEN {"audioInput", "audioOutput"} ELSE {l}
             on    == [k \in Lanes |-> panel.on[k] /\ k \notin off]
             price == [k \in Lanes |-> IF k \in off THEN Blank ELSE panel.price[k]]
             lane  == [k \in Lanes |-> IF k \in off THEN Blank ELSE panel.lane[k]]
  <2>1. panel' = [panel EXCEPT !.on = on, !.price = price, !.lane = lane]
    BY <1>5 DEF HandleLaneToggle
  <2>2. \A k \in Lanes : on[k] <=> panel.on[k] /\ k \notin off
    BY Zenon
  <2>3. \A k \in Lanes : /\ price[k] = IF k \in off THEN Blank ELSE panel.price[k]
                         /\ lane[k] = IF k \in off THEN Blank ELSE panel.lane[k]
    OBVIOUS
  <2>4. "audioOutput" \notin off => "audioInput" \notin off
    BY LaneNames
  <2> HIDE DEF on, price, lane, off
  <2>5. /\ panel'.price = price /\ panel'.lane = lane /\ panel'.on = on
        /\ panel'.prompt = panel.prompt /\ panel'.ratio = panel.ratio
    BY <2>1 DEF Panels
  <2>6. ASSUME NEW k \in Lanes PROVE LaneOK(panel', k)
    <3>1. CASE k \in off
      BY <2>2, <2>3, <2>5, <3>1 DEF LaneOK
    <3>2. CASE k \notin off
      <4>1. BaseOf(k, panel'.prompt, panel'.price) = BaseOf(k, panel.prompt, panel.price)
        BY <2>3, <2>4, <2>5, <3>2, LaneNames DEF BaseOf
      <4> QED
        BY <1>2, <2>2, <2>3, <2>5, <3>2, <4>1 DEF LaneOK
    <3> QED
      BY <3>1, <3>2
  <2> QED
    BY <1>2, <2>5, <2>6 DEF LanesOK
<1>6. CASE HandleLaneToggle(l) /\ ~panel.on[l]
  <2> DEFINE on   == [panel.on EXCEPT ![l] = TRUE]
             lane == [panel.lane EXCEPT ![l] = LaneRatio(panel.price[l],
                                          BaseOf(l, panel.prompt, panel.price))]
  <2>1. panel' = [panel EXCEPT !.on = on, !.lane = lane]
    BY <1>6 DEF HandleLaneToggle
  <2>2. /\ lane[l] = LaneRatio(panel.price[l], BaseOf(l, panel.prompt, panel.price))
        /\ \A k \in Lanes : k # l => lane[k] = panel.lane[k] /\ on[k] = panel.on[k]
        /\ on[l]
    BY <1>1
  <2> HIDE DEF on, lane
  <2>3. /\ panel'.price = panel.price /\ panel'.lane = lane /\ panel'.on = on
        /\ panel'.prompt = panel.prompt /\ panel'.ratio = panel.ratio
    BY <2>1 DEF Panels
  <2>4. ASSUME NEW k \in Lanes PROVE LaneOK(panel', k)
    BY <1>2, <2>2, <2>3 DEF LaneOK
  <2> QED
    BY <1>2, <2>3, <2>4 DEF LanesOK
<1> QED
  BY <1>3, <1>4, <1>5, <1>6

\* Any step keeps them: what does not edit the form opens it, closes it or
\* leaves it alone.
LEMMA LanesStay ==
  ASSUME LanesOK(panel),
         /\ panel'.ratio = panel.ratio /\ panel'.lane = panel.lane /\ panel'.prompt = panel.prompt
         /\ panel'.price = panel.price /\ panel'.on = panel.on
  PROVE  LanesOK(panel')
  BY DEF LanesOK, LaneOK

LEMMA LanesShown ==
  ASSUME \/ Close
         \/ \E d \in Drafts, saved \in BOOLEAN : Show(d, saved)
  PROVE  LanesOK(panel')
<1>1. CASE Close
  BY <1>1, ClosedLanes DEF Close
<1>2. ASSUME NEW d \in Drafts, NEW saved \in BOOLEAN, Show(d, saved) PROVE LanesOK(panel')
  <2>1. panel' = PanelFor(d, saved)
    BY <1>2 DEF Show
  <2> QED
    BY <2>1, OpenedLanes, Zenon
<1> QED
  BY <1>1, <1>2

LEMMA NextKeepsLanes ==
  ASSUME IInv, LanesOK(panel), [Next]_vars
  PROVE  LanesOK(panel')
<1>1. /\ panel \in Panels /\ form \in PricingOptions /\ baseline \in PricingOptions
      /\ Committed \in Drafts
  BY CommittedType DEF IInv, PageOK, PageTypes, EditorOK, Shape
<1>2. CASE Effects
  <2> DEFINE rules == IF ed.mode = "visual" THEN BuildRules(ed.groups) ELSE panel.rules
             odd   == panel.odd \/ ~CanParseRules(rules)
  <2>1. panel' = [panel EXCEPT !.bexpr = EffectiveExpr, !.rules = rules, !.odd = odd]
    BY <1>2 DEF Effects
  <2> HIDE DEF rules, odd
  <2> QED
    BY <1>1, <2>1, LanesStay DEF Panels
<1>3. CASE Choose
  <2>1. CASE HandleAdd
    <3>1. NoPricing(CHOOSE m \in Models : TRUE) \in Drafts
      BY ConstantsOK, NoPricingType
    <3> QED
      BY <2>1, <3>1, LanesShown DEF HandleAdd
  <2>2. CASE CloseBySearch
    BY <2>2, LanesShown DEF CloseBySearch
  <2>3. ASSUME NEW m \in Models, HandleEdit(m) PROVE LanesOK(panel')
    BY <1>1, <2>3, RowDataType, LanesShown DEF HandleEdit
  <2>4. ASSUME NEW m \in Models, TypeName(m) PROVE LanesOK(panel')
    <3>1. panel' = [panel EXCEPT !.named = TRUE, !.name = m]
      BY <2>4 DEF TypeName
    <3> QED
      BY <1>1, <3>1, LanesStay DEF Panels
  <2> QED
    BY <1>3, <2>1, <2>2, <2>3, <2>4 DEF Choose
<1>4. CASE PriceTokens
  <2>1. PICK v \in Price, l \in Lanes :
          HandlePromptPrice(v) \/ HandleLanePrice(l, v) \/ HandleLaneToggle(l)
    BY <1>4, ConstantsOK DEF PriceTokens
  <2> QED
    BY <1>1, <2>1, TokensKeepLanes
<1>5. CASE EditTiers \/ EditRules
  <2>1. CASE EditTiers
    <3>1. \E cfg : EditConfig(cfg)
      BY <2>1 DEF EditTiers, HandleAddTier, HandleRemoveTier, HandleAddCondition,
         HandleRemoveCondition, HandleTierPrice
    <3> QED
      BY <1>1, <3>1, LanesStay DEF EditConfig, Panels
  <2>2. CASE EditRules
    <3>1. \E groups : EditGroups(groups)
      BY <2>2 DEF EditRules, AddGroup, RemoveGroup, ChangeGroup
    <3> QED
      BY <1>1, <3>1, LanesStay DEF EditGroups, Panels
  <2> QED
    BY <1>5, <2>1, <2>2
<1>6. CASE EditText
  <2>1. ASSUME NEW t \in RawTexts, HandleRawChange(t) PROVE LanesOK(panel')
    <3> DEFINE odd == panel.odd \/ Nested(Split(t).base)
    <3>1. panel' = [panel EXCEPT !.rules = Split(t).rules, !.touched = TRUE, !.odd = odd]
      BY <2>1 DEF HandleRawChange
    <3> HIDE DEF odd
    <3> QED
      BY <1>1, <3>1, LanesStay DEF Panels
  <2>2. ASSUME NEW p \in Presets, ApplyPreset(p) PROVE LanesOK(panel')
    <3>1. panel' = [panel EXCEPT !.rules = BuildRules(p.rules), !.touched = TRUE]
      BY <2>2 DEF ApplyPreset
    <3> QED
      BY <1>1, <3>1, LanesStay DEF Panels
  <2> QED
    BY <1>6, <2>1, <2>2 DEF EditText
<1>7. CASE Views
  <2>1. CASE SwitchToVisual
    <3>1. panel' = [panel EXCEPT !.rules = Split(ed.raw).rules]
      BY <2>1 DEF SwitchToVisual
    <3> QED
      BY <1>1, <3>1, LanesStay DEF Panels
  <2>2. CASE SwitchToRaw
    BY <2>2 DEF SwitchToRaw
  <2>3. ASSUME NEW mode, SelectTab(mode) PROVE LanesOK(panel')
    <3> DEFINE bexpr == IF mode = "tiered" /\ panel.bexpr = NoExpr
                        THEN GenerateExpr(DefaultConfig) ELSE panel.bexpr
    <3>1. panel' = [panel EXCEPT !.mode = mode, !.bexpr = bexpr]
      BY <2>3 DEF SelectTab
    <3> HIDE DEF bexpr
    <3> QED
      BY <1>1, <3>1, LanesStay DEF Panels
  <2> QED
    BY <1>7, <2>1, <2>2, <2>3 DEF Views
<1>8. CASE Stage
  <2>1. CASE HandleSave
    BY <1>1, <2>1, LanesShown DEF HandleSave
  <2>2. CASE SaveDraft \/ ConfirmReset
    BY <2>2 DEF SaveDraft, ConfirmReset
  <2>3. ASSUME NEW m \in Models, HandleDelete(m) PROVE LanesOK(panel')
    <3>1. Close \/ panel' = panel
      BY <2>3 DEF HandleDelete
    <3> QED
      BY <3>1, LanesShown
  <2>4. ASSUME NEW targets, HandleBatchCopy(targets) PROVE LanesOK(panel')
    BY <1>1, <2>4, LanesShown DEF HandleBatchCopy
  <2> QED
    BY <1>8, <2>1, <2>2, <2>3, <2>4 DEF Stage
<1>9. CASE UpdateOption \/ UpdateRefused \/ UpdateAnswerLost \/ Refetch \/ UNCHANGED vars
  BY <1>9 DEF UpdateOption, UpdateRefused, UpdateAnswerLost, Refetch, vars
<1> QED
  BY <1>2, <1>3, <1>4, <1>5, <1>6, <1>7, <1>8, <1>9 DEF Next

\* A division without a remainder.
LEMMA Divides ==
  ASSUME NEW a \in Nat, NEW b \in Nat, b # 0, a % b = 0
  PROVE  a \div b \in Nat /\ (a \div b) * b = a
<1>1. (a \div b) * b = a
  OBVIOUS
<1>2. a \div b \in Nat
  OBVIOUS
<1> QED
  BY <1>1, <1>2

\* A ratio that was not rounded gives the price back.
LEMMA PriceReturns ==
  ASSUME NEW x \in Nat, NEW base \in Nat, Whole(x, base)
  PROVE  LanePrice(LaneRatio(x, base), base) = x
<1> DEFINE n == x * Scale
<1>1. n \in Nat /\ base # 0 /\ n % base = 0 /\ n \div Scale = x
  BY DEF Whole, Scale
<1>2. x # Blank /\ base # Blank
  BY DEF Blank
<1>3. LaneRatio(x, base) = n \div base
  BY <1>1, <1>2 DEF LaneRatio
<1> HIDE DEF n
<1>4. n \div base \in Nat /\ (n \div base) * base = n
  BY <1>1, Divides
<1>5. n \div base # Blank
  BY <1>4 DEF Blank
<1> QED
  BY <1>1, <1>2, <1>3, <1>4, <1>5 DEF LanePrice

\* What staging the form and opening the model again would show.
LEMMA OpenedAgain ==
  ASSUME panel \in Panels, form \in PricingOptions, panel.mode = "token",
         NEW d, d = EditData(Persist(form, Committed, {panel.name}), panel.name)
  PROVE  /\ InitialPrices(d).prompt = IF panel.ratio = Blank THEN Blank ELSE panel.ratio * 2
         /\ \A l \in Lanes :
              InitialPrices(d).price[l] =
                LanePrice(panel.lane[l],
                          BaseOf(l, InitialPrices(d).prompt, InitialPrices(d).price))
<1> DEFINE o == Persist(form, Committed, {panel.name})
<1>1. panel.name \in Models /\ panel.lane \in [Lanes -> Price]
  BY DEF Panels
<1>2. /\ o.ratio[panel.name] = panel.ratio
      /\ o.completion[panel.name] = panel.lane.completion
      /\ o.audioInput[panel.name] = panel.lane.audioInput
      /\ o.audioOutput[panel.name] = panel.lane.audioOutput
  BY <1>1 DEF Persist, Committed
<1> HIDE DEF o
<1>3. /\ d.ratio = panel.ratio
      /\ d.lane["completion"] = panel.lane["completion"]
      /\ d.lane["audioInput"] = panel.lane["audioInput"]
      /\ d.lane["audioOutput"] = panel.lane["audioOutput"]
  BY <1>2, LaneNames DEF EditData, o
<1> DEFINE i == InitialPrices(d)
<1>4. /\ i.prompt = IF d.ratio = Blank THEN Blank ELSE d.ratio * 2
      /\ i.price["completion"] = LanePrice(d.lane["completion"], i.prompt)
      /\ i.price["audioInput"] = LanePrice(d.lane["audioInput"], i.prompt)
      /\ i.price["audioOutput"] = LanePrice(d.lane["audioOutput"], i.price["audioInput"])
  BY DEF InitialPrices
<1> HIDE DEF i
<1>5. \A l \in Lanes : i.price[l] = LanePrice(panel.lane[l], BaseOf(l, i.prompt, i.price))
  BY <1>3, <1>4, LaneNames DEF BaseOf
<1> QED
  BY <1>3, <1>4, <1>5 DEF i

\* The prices of the per-token form are what staging them and opening the
\* model again would show, whatever models were opened, copied and reset and in
\* whatever order prices were typed and lanes switched, wherever the ratios
\* that are stored are not rounded.
THEOREM PricesReturn ==
  Spec => []StagedPricesReturn
<1>1. Init => FormOK
  BY ClosedLanes DEF Init, FormOK
<1>2. IInv /\ FormOK /\ [Next]_vars => FormOK'
  BY NextKeepsLanes DEF FormOK
<1>3. IInv /\ FormOK => StagedPricesReturn
  <2> SUFFICES ASSUME IInv, FormOK, CanCommit, panel.mode = "token",
                      NEW d, d = EditData(Persist(form, Committed, {panel.name}), panel.name)
               PROVE  /\ panel.prompt = Blank \/ panel.prompt % 2 = 0 =>
                           InitialPrices(d).prompt = panel.prompt
                      /\ \A l \in Lanes :
                           IF panel.on[l] /\ panel.price[l] # Blank
                           THEN Exact(l) => InitialPrices(d).price[l] = panel.price[l]
                           ELSE ~panel.on[l] => InitialPrices(d).price[l] = Blank
    BY DEF StagedPricesReturn
  <2> DEFINE i == InitialPrices(d)
  <2>1. panel \in Panels /\ form \in PricingOptions
    BY DEF IInv, PageOK, PageTypes, EditorOK, Shape
  <2>2. /\ panel.prompt \in Price /\ panel.price \in [Lanes -> Price]
        /\ panel.lane \in [Lanes -> Price] /\ panel.on \in [Lanes -> BOOLEAN]
    BY <2>1 DEF Panels
  <2>3. /\ i.prompt = IF panel.ratio = Blank THEN Blank ELSE panel.ratio * 2
        /\ \A l \in Lanes : i.price[l] = LanePrice(panel.lane[l], BaseOf(l, i.prompt, i.price))
    BY <2>1, OpenedAgain
  <2> HIDE DEF i
  <2>4. /\ panel.ratio = IF panel.prompt = Blank THEN Blank ELSE panel.prompt \div 2
        /\ \A l \in Lanes : LaneOK(panel, l)
    BY DEF FormOK, LanesOK
  <2>5. ASSUME panel.prompt = Blank \/ panel.prompt % 2 = 0 PROVE i.prompt = panel.prompt
    <3>1. CASE panel.prompt = Blank
      BY <2>3, <2>4, <3>1
    <3>2. CASE panel.prompt # Blank
      <4>1. panel.prompt \in Nat /\ panel.prompt % 2 = 0
        BY <2>2, <2>5, <3>2 DEF Price
      <4>2. panel.prompt \div 2 # Blank /\ (panel.prompt \div 2) * 2 = panel.prompt
        BY <4>1 DEF Blank
      <4> QED
        BY <2>3, <2>4, <3>2, <4>2
    <3> QED
      BY <3>1, <3>2
  <2>6. ASSUME NEW l \in Lanes, panel.on[l], panel.price[l] # Blank,
               BaseOf(l, panel.prompt, panel.price) # Blank,
               Whole(panel.price[l], BaseOf(l, panel.prompt, panel.price)),
               BaseOf(l, i.prompt, i.price) = BaseOf(l, panel.prompt, panel.price)
        PROVE  i.price[l] = panel.price[l]
    <3>1. panel.price[l] \in Nat /\ BaseOf(l, panel.prompt, panel.price) \in Nat
      BY <2>2, <2>6, BaseType DEF Price
    <3>2. \/ panel.lane[l] = LaneRatio(panel.price[l], BaseOf(l, panel.prompt, panel.price))
          \/ panel.price[l] = LanePrice(panel.lane[l], BaseOf(l, panel.prompt, panel.price))
      BY <2>4, <2>6 DEF LaneOK
    <3> QED
      BY <2>3, <2>6, <3>1, <3>2, PriceReturns
  <2>7. ASSUME NEW l \in Lanes, panel.on[l], panel.price[l] # Blank, Exact(l)
        PROVE  i.price[l] = panel.price[l]
    <3>1. i.prompt = panel.prompt /\ panel.prompt # Blank
      BY <2>5, <2>7 DEF Exact, CanCommit
    <3>2. CASE l # "audioOutput"
      BY <2>6, <2>7, <3>1, <3>2 DEF Exact, BaseOf
    <3>3. CASE l = "audioOutput"
      <4>1. panel.price["audioInput"] # Blank /\ Whole(panel.price["audioInput"], panel.prompt)
        BY <2>7, <3>3 DEF Exact, CanCommit
      <4>2. panel.on["audioInput"]
        BY <2>4, <4>1, LaneNames DEF LaneOK
      <4>3. i.price["audioInput"] = panel.price["audioInput"]
        BY <2>6, <3>1, <4>1, <4>2, LaneNames DEF BaseOf
      <4> QED
        BY <2>6, <2>7, <3>3, <4>1, <4>3 DEF Exact, BaseOf
    <3> QED
      BY <3>2, <3>3
  <2>8. ASSUME NEW l \in Lanes, ~panel.on[l] PROVE i.price[l] = Blank
    BY <2>3, <2>4, <2>8 DEF LaneOK, LanePrice
  <2> QED
    BY <2>5, <2>7, <2>8 DEF i
<1> QED
  BY <1>1, <1>2, <1>3, Invariance, PTL DEF Spec
=============================================================================
