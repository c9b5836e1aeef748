------------------------- MODULE Playground_proofs -------------------------
(***************************************************************************)
(* Theorems about Playground, for any streams the server may send and any  *)
(* number of requests, actions and stored messages.                        *)
(***************************************************************************)
EXTENDS Playground, InductionLemmas, SequenceTheorems

-----------------------------------------------------------------------------
(* Text.  Every operation on text draws its tokens from the texts it gets. *)

\* Merging two texts, or cutting what a text repeats of another, adds no token.
LEMMA MergeType ==
  ASSUME NEW S, NEW a \in Seq(S), NEW b \in Seq(S)
  PROVE  MergePendingStreamChunk(a, b) \in Seq(S) /\ GetAppendableChunk(a, b) \in Seq(S)
  BY DEF MergePendingStreamChunk, GetAppendableChunk, IsPrefix

\* What parseThinkTags has parsed of a text over the tokens S.
Parsed(S) == [content: Seq(S), reasoning: Seq(S), open: BOOLEAN]

\* So does one step of parseThinkTags.
LEMMA ParseStepType ==
  ASSUME NEW S, NEW acc \in Parsed(S), NEW t \in S
  PROVE  ParseStep(acc, t) \in Parsed(S)
<1>1. ASSUME NEW x \in Seq(S) PROVE Append(x, t) \in Seq(S)
  OBVIOUS
<1>2. ASSUME NEW b \in BOOLEAN PROVE [acc EXCEPT !.open = b] \in Parsed(S)
  BY Zenon DEF Parsed
<1>3. [acc EXCEPT !.open = TRUE] \in Parsed(S) /\ [acc EXCEPT !.open = FALSE] \in Parsed(S)
  BY <1>2
<1>4. /\ [acc EXCEPT !.content = Append(@, t)] \in Parsed(S)
      /\ [acc EXCEPT !.reasoning = Append(@, t)] \in Parsed(S)
  BY <1>1 DEF Parsed
<1> QED
  BY <1>3, <1>4 DEF ParseStep

\* parseThinkTags goes through the text, one token at a time.
Empty == [content |-> <<>>, reasoning |-> <<>>, open |-> FALSE]
ParseTrace(p, S, text) ==
  /\ p \in [0..Len(text) -> Parsed(S)] /\ p[0] = Empty
  /\ \A i \in 1..Len(text) : p[i] = ParseStep(p[i - 1], text[i])
  /\ ParseThinkTags(text) = p[Len(text)]

\* Such a trace exists for every text.
LEMMA ParseTraces ==
  ASSUME NEW S, NEW text \in Seq(S)
  PROVE  \E p : ParseTrace(p, S, text)
<1> DEFINE n == Len(text)
           base == [content |-> <<>>, reasoning |-> <<>>, open |-> FALSE]
           V == Parsed(S)
           Step(v, i) == ParseStep(v, text[i])
           Eq(g) == g = [s \in SUBSET (1..n) |->
                           IF s = {} THEN base ELSE Step(g[s \ {Max(s)}], Max(s))]
           fold == CHOOSE g : Eq(g)
           F == [x \in (1..n) \X V |-> Step(x[2], x[1])]
           p == [i \in 0..n |-> fold[1..i]]
<1>0. n \in Nat
  OBVIOUS
<1>a. DOMAIN text = 1..n
  OBVIOUS
<1>1. base \in V
  BY DEF Parsed
<1>2. \A v \in V, i \in 1..n : Step(v, i) \in V
  BY ParseStepType
<1>3. ParseThinkTags(text) = fold[1..n]
  BY <1>a DEF ParseThinkTags, FoldLeft, MapThenFoldSet
<1> HIDE DEF n, base, V, Step
<1>4. F \in [(1..n) \X V -> V]
  BY <1>2
<1>5. PICK g : FoldsTo(g, n, V, base, F)
  <2> HIDE DEF F
  <2> QED
    BY <1>0, <1>1, <1>4, FoldExists
<1>6. ASSUME NEW T \in SUBSET (1..n), T # {}
      PROVE  g[T] = Step(g[T \ {Max(T)}], Max(T))
  <2>1. Max(T) \in 1..n /\ g[T \ {Max(T)}] \in V
    BY <1>0, <1>5, <1>6, MaxIn DEF FoldsTo
  <2> QED
    BY <1>5, <1>6, <2>1 DEF FoldsTo
<1>7. Eq(g)
  BY <1>5, <1>6 DEF FoldsTo
<1>8. Eq(fold)
  <2> HIDE DEF Eq
  <2> QED
    BY <1>7
<1> HIDE DEF fold
<1>9. fold[{}] = base
  BY <1>8
<1>10. ASSUME NEW i \in 1..n PROVE fold[1..i] = Step(fold[1..(i - 1)], i)
  <2>1. 1..i \in SUBSET (1..n) /\ i \in Nat /\ i # 0
    BY <1>0
  <2>2. Max(1..i) = i /\ (1..i) \ {i} = 1..(i - 1) /\ 1..i # {}
    BY <2>1, MaxSegment
  <2> QED
    BY <1>8, <2>1, <2>2
<1>11. \A i \in 0..n : fold[1..i] \in V
  <2>1. \A i \in 1..n : fold[1..(i - 1)] \in V => fold[1..i] \in V
    BY <1>2, <1>10
  <2> QED
    BY <1>0, <1>1, <1>9, <2>1, SegmentInduction
<1>12. p \in [0..n -> V] /\ p[n] = fold[1..n] /\ p[0] = base
  <2>1. 1..0 = {} /\ 0 \in 0..n /\ n \in 0..n
    BY <1>0
  <2> QED
    BY <1>9, <1>11, <2>1
<1>13. ASSUME NEW i \in 1..n PROVE p[i] = Step(p[i - 1], i)
  <2>1. i \in 0..n /\ i - 1 \in 0..n
    BY <1>0
  <2> QED
    BY <1>10, <2>1
<1> HIDE DEF p
<1>14. ParseTrace(p, S, text)
  BY <1>3, <1>12, <1>13 DEF ParseTrace, Empty, n, V, Step, base
<1> QED
  BY <1>14

\* parseThinkTags only splits the text it gets.
LEMMA ParseType ==
  ASSUME NEW S, NEW text \in Seq(S)
  PROVE  ParseThinkTags(text) \in Parsed(S)
<1>1. PICK p : ParseTrace(p, S, text)
  BY ParseTraces
<1>2. Len(text) \in 0..Len(text)
  OBVIOUS
<1> QED
  BY <1>1, <1>2 DEF ParseTrace

\* The chunks of one type, merged one after the other.
MergeTrace(p, script, type) ==
  /\ p \in [0..Len(script) -> Seq(Alphabet)] /\ p[0] = <<>>
  /\ \A i \in 1..Len(script) :
        p[i] = IF script[i].type # type THEN p[i - 1]
               ELSE MergePendingStreamChunk(p[i - 1], script[i].text)

\* The text of an answer is what merging its chunks leads to.
LEMMA FullTextTraces ==
  ASSUME NEW k, NEW script \in Seq(Chunk), NEW type \in {"content", "reasoning"}
  PROVE  \E p : MergeTrace(p, script, type) /\ FullText(k, script)[type] = Tokens(k, p[Len(script)])
<1> DEFINE n == Len(script)
           base == <<>>
           V == Seq(Alphabet)
           Step(v, i) == IF script[i].type # type THEN v ELSE MergePendingStreamChunk(v, script[i].text)
           Eq(f) == f = [s \in SUBSET (1..n) |->
                           IF s = {} THEN base ELSE Step(f[s \ {Max(s)}], Max(s))]
           fold == CHOOSE f : Eq(f)
           F == [x \in (1..n) \X V |-> Step(x[2], x[1])]
           p == [i \in 0..n |-> fold[1..i]]
<1>0. n \in Nat
  OBVIOUS
<1>a. DOMAIN script = 1..n
  OBVIOUS
<1>1. base \in V
  OBVIOUS
<1>2. ASSUME NEW v \in V, NEW i \in 1..n PROVE Step(v, i) \in V
  <2>1. script[i] \in Chunk
    OBVIOUS
  <2>2. script[i].text \in Seq(Alphabet)
    BY <2>1 DEF Chunk
  <2> QED
    BY <2>2, MergeType
<1>3. FoldLeft(LAMBDA text, c : IF c.type # type THEN text
                                 ELSE MergePendingStreamChunk(text, c.text),
                <<>>, script) = fold[1..n]
  BY <1>a DEF FoldLeft, MapThenFoldSet
<1> HIDE DEF n, base, V, Step
<1>4. F \in [(1..n) \X V -> V]
  BY <1>2
<1>5. PICK h : FoldsTo(h, n, V, base, F)
  <2> HIDE DEF F
  <2> QED
    BY <1>0, <1>1, <1>4, FoldExists
<1>6. ASSUME NEW T \in SUBSET (1..n), T # {}
      PROVE  h[T] = Step(h[T \ {Max(T)}], Max(T))
  <2>1. Max(T) \in 1..n /\ h[T \ {Max(T)}] \in V
    BY <1>0, <1>5, <1>6, MaxIn DEF FoldsTo
  <2> QED
    BY <1>5, <1>6, <2>1 DEF FoldsTo
<1>7. Eq(h)
  BY <1>5, <1>6 DEF FoldsTo
<1>8. Eq(fold)
  <2> HIDE DEF Eq
  <2> QED
    BY <1>7
<1> HIDE DEF fold
<1>9. fold[{}] = base
  BY <1>8
<1>10. ASSUME NEW i \in 1..n PROVE fold[1..i] = Step(fold[1..(i - 1)], i)
  <2>1. 1..i \in SUBSET (1..n) /\ i \in Nat /\ i # 0
    BY <1>0
  <2>2. Max(1..i) = i /\ (1..i) \ {i} = 1..(i - 1) /\ 1..i # {}
    BY <2>1, MaxSegment
  <2> QED
    BY <1>8, <2>1, <2>2
<1>11. \A i \in 0..n : fold[1..i] \in V
  <2>1. \A i \in 1..n : fold[1..(i - 1)] \in V => fold[1..i] \in V
    BY <1>2, <1>10
  <2> QED
    BY <1>0, <1>1, <1>9, <2>1, SegmentInduction
<1>12. p \in [0..n -> V] /\ p[n] = fold[1..n] /\ p[0] = base
  <2>1. 1..0 = {} /\ 0 \in 0..n /\ n \in 0..n
    BY <1>0
  <2> QED
    BY <1>9, <1>11, <2>1
<1>13. ASSUME NEW i \in 1..n PROVE p[i] = Step(p[i - 1], i)
  <2>1. i \in 0..n /\ i - 1 \in 0..n
    BY <1>0
  <2> QED
    BY <1>10, <2>1
<1> HIDE DEF p
<1>14. MergeTrace(p, script, type)
  BY <1>12, <1>13 DEF MergeTrace, n, V, Step, base
<1>15. FullText(k, script)[type] = Tokens(k, p[Len(script)])
  BY <1>3, <1>12 DEF FullText, n
<1> QED
  BY <1>14, <1>15

\* Deleting messages leaves messages of the list.
LEMMA WithoutType ==
  ASSUME NEW S, NEW list \in Seq(S), NEW key
  PROVE  Without(list, key) \in Seq(S)
<1> DEFINE n == Len(list)
           base == <<>>
           V == Seq(S)
           Step(v, i) == IF KeyOf(list[i]) = key THEN v ELSE Append(v, list[i])
           Eq(g) == g = [s \in SUBSET (1..n) |->
                           IF s = {} THEN base ELSE Step(g[s \ {Max(s)}], Max(s))]
           fold == CHOOSE g : Eq(g)
           F == [x \in (1..n) \X V |-> Step(x[2], x[1])]
<1>0. n \in Nat
  OBVIOUS
<1>a. DOMAIN list = 1..n
  OBVIOUS
<1>1. base \in V
  OBVIOUS
<1>2. \A v \in V, i \in 1..n : Step(v, i) \in V
  OBVIOUS
<1>3. Without(list, key) = fold[1..n]
  BY <1>a DEF Without, FoldLeft, MapThenFoldSet
<1> HIDE DEF n, base, V, Step
<1>4. F \in [(1..n) \X V -> V]
  BY <1>2
<1>5. PICK g : FoldsTo(g, n, V, base, F)
  <2> HIDE DEF F
  <2> QED
    BY <1>0, <1>1, <1>4, FoldExists
<1>6. ASSUME NEW T \in SUBSET (1..n), T # {}
      PROVE  g[T] = Step(g[T \ {Max(T)}], Max(T))
  <2>1. Max(T) \in 1..n /\ g[T \ {Max(T)}] \in V
    BY <1>0, <1>5, <1>6, MaxIn DEF FoldsTo
  <2> QED
    BY <1>5, <1>6, <2>1 DEF FoldsTo
<1>7. Eq(g)
  BY <1>5, <1>6 DEF FoldsTo
<1>8. Eq(fold)
  <2> HIDE DEF Eq
  <2> QED
    BY <1>7
<1> HIDE DEF fold
<1>9. fold[{}] \in V
  BY <1>1, <1>8
<1>10. ASSUME NEW i \in 1..n, fold[1..(i - 1)] \in V PROVE fold[1..i] \in V
  <2>1. 1..i \in SUBSET (1..n) /\ i \in Nat /\ i # 0
    BY <1>0
  <2>2. Max(1..i) = i /\ (1..i) \ {i} = 1..(i - 1) /\ 1..i # {}
    BY <2>1, MaxSegment
  <2>3. fold[1..i] = Step(fold[1..(i - 1)], i)
    BY <1>8, <2>1, <2>2
  <2> QED
    BY <1>2, <1>10, <2>3
<1>11. fold[1..n] \in V
  <2>1. \A i \in 0..n : fold[1..i] \in V
    BY <1>0, <1>9, <1>10, SegmentInduction
  <2> QED
    BY <1>0, <2>1
<1> QED
  BY <1>3, <1>11 DEF V

\* React evaluates the queue one update at a time.
DrainFrom(list, q, g) == FoldLeft(LAMBDA l, u : Apply(l, u, g), list, q)
DrainTrace(p, list, q, g, V) ==
  /\ p \in [0..Len(q) -> V] /\ p[0] = list
  /\ \A i \in 1..Len(q) : p[i] = Apply(p[i - 1], q[i], g)
  /\ DrainFrom(list, q, g) = p[Len(q)]

\* Such a trace exists, through the lists that the updates keep.
LEMMA DrainTraces ==
  ASSUME NEW S, NEW q \in Seq(S), NEW g, NEW V, NEW list \in V,
         \A l \in V, i \in 1..Len(q) : Apply(l, q[i], g) \in V
  PROVE  \E p : DrainTrace(p, list, q, g, V)
<1> DEFINE n == Len(q)
           base == list
           Step(v, i) == Apply(v, q[i], g)
           Eq(f) == f = [s \in SUBSET (1..n) |->
                           IF s = {} THEN base ELSE Step(f[s \ {Max(s)}], Max(s))]
           fold == CHOOSE f : Eq(f)
           F == [x \in (1..n) \X V |-> Step(x[2], x[1])]
           p == [i \in 0..n |-> fold[1..i]]
<1>0. n \in Nat
  OBVIOUS
<1>a. DOMAIN q = 1..n
  OBVIOUS
<1>1. base \in V
  OBVIOUS
<1>2. \A v \in V, i \in 1..n : Step(v, i) \in V
  OBVIOUS
<1>3. DrainFrom(list, q, g) = fold[1..n]
  BY <1>a DEF DrainFrom, FoldLeft, MapThenFoldSet
<1> HIDE DEF n, base, Step
<1>4. F \in [(1..n) \X V -> V]
  BY <1>2
<1>5. PICK h : FoldsTo(h, n, V, base, F)
  <2> HIDE DEF F
  <2> QED
    BY <1>0, <1>1, <1>4, FoldExists
<1>6. ASSUME NEW T \in SUBSET (1..n), T # {}
      PROVE  h[T] = Step(h[T \ {Max(T)}], Max(T))
  <2>1. Max(T) \in 1..n /\ h[T \ {Max(T)}] \in V
    BY <1>0, <1>5, <1>6, MaxIn DEF FoldsTo
  <2> QED
    BY <1>5, <1>6, <2>1 DEF FoldsTo
<1>7. Eq(h)
  BY <1>5, <1>6 DEF FoldsTo
<1>8. Eq(fold)
  <2> HIDE DEF Eq
  <2> QED
    BY <1>7
<1> HIDE DEF fold
<1>9. fold[{}] = base
  BY <1>8
<1>10. ASSUME NEW i \in 1..n PROVE fold[1..i] = Step(fold[1..(i - 1)], i)
  <2>1. 1..i \in SUBSET (1..n) /\ i \in Nat /\ i # 0
    BY <1>0
  <2>2. Max(1..i) = i /\ (1..i) \ {i} = 1..(i - 1) /\ 1..i # {}
    BY <2>1, MaxSegment
  <2> QED
    BY <1>8, <2>1, <2>2
<1>11. \A i \in 0..n : fold[1..i] \in V
  <2>1. \A i \in 1..n : fold[1..(i - 1)] \in V => fold[1..i] \in V
    BY <1>2, <1>10
  <2> QED
    BY <1>0, <1>1, <1>9, <2>1, SegmentInduction
<1>12. p \in [0..n -> V] /\ p[n] = fold[1..n] /\ p[0] = base
  <2>1. 1..0 = {} /\ 0 \in 0..n /\ n \in 0..n
    BY <1>0
  <2> QED
    BY <1>9, <1>11, <2>1
<1>13. ASSUME NEW i \in 1..n PROVE p[i] = Step(p[i - 1], i)
  <2>1. i \in 0..n /\ i - 1 \in 0..n
    BY <1>0
  <2> QED
    BY <1>10, <2>1
<1> HIDE DEF p
<1>14. DrainTrace(p, list, q, g, V)
  BY <1>3, <1>12, <1>13 DEF DrainTrace, n, Step, base
<1> QED
  BY <1>14

\* What every queued update preserves holds of what React renders; and the
\* last update is applied to such a list.
LEMMA DrainKeeps ==
  ASSUME NEW S, NEW q \in Seq(S), NEW g, NEW V, messages \in V,
         \A l \in V, i \in 1..Len(q) : Apply(l, q[i], g) \in V
  PROVE  /\ Drain(q, g) \in V
         /\ q # <<>> => \E l \in V : Drain(q, g) = Apply(l, q[Len(q)], g)
<1> DEFINE n == Len(q)
<1>1. PICK p : DrainTrace(p, messages, q, g, V)
  BY DrainTraces
<1>2. Drain(q, g) = p[n]
  BY <1>1 DEF Drain, DrainFrom, DrainTrace
<1>3. n \in 0..n /\ (q # <<>> => n \in 1..n /\ n - 1 \in 0..n)
  OBVIOUS
<1> QED
  BY <1>1, <1>2, <1>3 DEF DrainTrace

-----------------------------------------------------------------------------
(* Messages.  A message holds tokens of its own send, or of none.          *)

\* Tokens, texts and messages of one send.
Tok(k) == [k: {0, k}, c: Letter]
OwnText(k) == [content: Seq(Tok(k)), reasoning: Seq(Tok(k))]
Statuses == {"loading", "streaming", "complete", "error"}
OwnMessage == {m \in Message : /\ m.content \in Seq(Tok(m.k)) /\ m.reasoning \in Seq(Tok(m.k))
                               /\ m.from = "user" => ~IsPending(m)}

\* n is a message of the same author and send as m.
Heir(m, n) == n \in OwnMessage /\ n.from = m.from /\ n.k = m.k

\* Tokens of a send are tokens, and texts of a send are texts.
LEMMA TokIsToken ==
  ASSUME NEW k \in Send \cup {0}
  PROVE  Tok(k) \subseteq Token /\ Seq(Tok(k)) \subseteq Text
<1>1. Tok(k) \subseteq Token
  BY DEF Tok, Token
<1> QED
  BY <1>1 DEF Text

\* A message may take any content of its own send.
LEMMA SetContent ==
  ASSUME NEW m \in OwnMessage, NEW c \in Seq(Tok(m.k))
  PROVE  /\ Heir(m, [m EXCEPT !.content = c])
         /\ [m EXCEPT !.content = c].content = c
         /\ [m EXCEPT !.content = c].reasoning = m.reasoning
         /\ [m EXCEPT !.content = c].status = m.status
<1>1. m \in Message /\ c \in Text
  BY TokIsToken DEF OwnMessage, Message
<1> QED
  BY <1>1 DEF Heir, OwnMessage, Message, IsPending

\* It may take any reasoning of its own send.
LEMMA SetReasoning ==
  ASSUME NEW m \in OwnMessage, NEW r \in Seq(Tok(m.k))
  PROVE  /\ Heir(m, [m EXCEPT !.reasoning = r])
         /\ [m EXCEPT !.reasoning = r].content = m.content
         /\ [m EXCEPT !.reasoning = r].reasoning = r
         /\ [m EXCEPT !.reasoning = r].status = m.status
<1>1. m \in Message /\ r \in Text
  BY TokIsToken DEF OwnMessage, Message
<1> QED
  BY <1>1 DEF Heir, OwnMessage, Message, IsPending

\* An assistant message may take any status, a user message a final one.
LEMMA SetStatus ==
  ASSUME NEW m \in OwnMessage, NEW s \in Statuses,
         m.from = "assistant" \/ s \in {"complete", "error"}
  PROVE  /\ Heir(m, [m EXCEPT !.status = s])
         /\ [m EXCEPT !.status = s].content = m.content
         /\ [m EXCEPT !.status = s].reasoning = m.reasoning
         /\ [m EXCEPT !.status = s].status = s
<1>1. m \in Message
  BY DEF OwnMessage
<1> QED
  BY <1>1 DEF Heir, OwnMessage, Message, IsPending, Statuses

\* The mark of a whole answer says nothing about text or status.
LEMMA SetWhole ==
  ASSUME NEW m \in OwnMessage, NEW b \in BOOLEAN
  PROVE  /\ Heir(m, [m EXCEPT !.whole = b])
         /\ [m EXCEPT !.whole = b].content = m.content
         /\ [m EXCEPT !.whole = b].reasoning = m.reasoning
         /\ [m EXCEPT !.whole = b].status = m.status
<1>1. m \in Message
  BY DEF OwnMessage
<1>2. [m EXCEPT !.whole = b] \in Message
  BY <1>1, Zenon DEF Message
<1> QED
  BY <1>1, <1>2 DEF Heir, OwnMessage, Message, IsPending

\* Updates of an update keep author and send.
LEMMA HeirTrans ==
  ASSUME NEW m, NEW n, NEW p, Heir(m, n), Heir(n, p)
  PROVE  Heir(m, p)
  BY DEF Heir

\* Content and reasoning together.
LEMMA SetText ==
  ASSUME NEW m \in OwnMessage, NEW c \in Seq(Tok(m.k)), NEW r \in Seq(Tok(m.k))
  PROVE  /\ Heir(m, [m EXCEPT !.content = c, !.reasoning = r])
         /\ [m EXCEPT !.content = c, !.reasoning = r].status = m.status
<1>1. m \in Message /\ c \in Text /\ r \in Text
  BY TokIsToken DEF OwnMessage, Message
<1> QED
  BY <1>1 DEF Heir, OwnMessage, Message, IsPending

\* The fields of a message.
LEMMA OwnFields ==
  ASSUME NEW m \in OwnMessage
  PROVE  /\ m.content \in Seq(Tok(m.k)) /\ m.reasoning \in Seq(Tok(m.k))
         /\ m.k \in Send /\ m.status \in Statuses /\ m.from \in {"user", "assistant"}
         /\ Heir(m, m)
  BY DEF OwnMessage, Message, Statuses, Heir

\* finalizeMessage keeps the text of a message its own, and its status.
LEMMA FinalizeOwn ==
  ASSUME NEW m \in OwnMessage, NEW r \in Seq(Tok(m.k))
  PROVE  Heir(m, FinalizeMessage(m, r)) /\ FinalizeMessage(m, r).status = m.status
<1> DEFINE parsed == ParseThinkTags(m.content)
<1>1. parsed \in Parsed(Tok(m.k))
  BY OwnFields, ParseType
<1> HIDE DEF parsed
<1>2. parsed.content \in Seq(Tok(m.k)) /\ parsed.reasoning \in Seq(Tok(m.k))
  BY <1>1 DEF Parsed
<1> DEFINE x == CASE r # <<>> -> r
                  [] r = <<>> /\ m.reasoning # <<>> -> m.reasoning
                  [] OTHER -> parsed.reasoning
<1>3. x \in Seq(Tok(m.k))
  BY <1>2, OwnFields
<1>4. FinalizeMessage(m, r) = [m EXCEPT !.content = parsed.content, !.reasoning = x]
  BY DEF FinalizeMessage, parsed
<1> HIDE DEF x
<1> DEFINE y == parsed.content
           n == [m EXCEPT !.content = y, !.reasoning = x]
<1>5. y \in Seq(Tok(m.k))
  BY <1>2
<1>6. FinalizeMessage(m, r) = n
  BY <1>4
<1> HIDE DEF y
<1>7. Heir(m, n) /\ n.status = m.status
  BY <1>3, <1>5, SetText
<1> HIDE DEF n
<1> QED
  BY <1>6, <1>7

\* The empty text is a text over any tokens.
LEMMA EmptyText ==
  ASSUME NEW S
  PROVE  <<>> \in Seq(S)
  OBVIOUS

\* So is a text of one token.
LEMMA OneText ==
  ASSUME NEW S, NEW a \in S
  PROVE  <<a>> \in Seq(S)
  OBVIOUS

\* So does completing it.
LEMMA CompleteOwn ==
  ASSUME NEW m \in OwnMessage
  PROVE  Heir(m, CompleteAssistantMessage(m)) /\ CompleteAssistantMessage(m).status = "complete"
<1> DEFINE n == FinalizeMessage(m, <<>>)
<1>1. Heir(m, n)
  BY FinalizeOwn, EmptyText
<1> HIDE DEF n
<1>2. n \in OwnMessage
  BY <1>1 DEF Heir
<1>3. Heir(n, [n EXCEPT !.status = "complete"]) /\ [n EXCEPT !.status = "complete"].status = "complete"
  BY <1>2, SetStatus DEF Statuses
<1> QED
  BY <1>1, <1>3, HeirTrans DEF CompleteAssistantMessage, n

\* The error text and the text of the user belong to every message.
LEMMA FreeTokens ==
  ASSUME NEW k \in Send
  PROVE  ErrorToken \in Tok(k) /\ UserToken \in Tok(k)
<1> DEFINE A == {0, k}
<1>1. 0 \in A /\ "error" \in Letter /\ "user" \in Letter
  BY DEF Letter
<1> HIDE DEF A
<1>2. ErrorToken \in [k: A, c: Letter] /\ UserToken \in [k: A, c: Letter]
  BY <1>1 DEF ErrorToken, UserToken
<1> QED
  BY <1>2 DEF Tok, A

\* So does the error text.
LEMMA ErrorOwn ==
  ASSUME NEW m \in OwnMessage
  PROVE  Heir(m, ErrorMessage(m)) /\ ErrorMessage(m).status = "error"
<1> DEFINE e == <<ErrorToken>>
<1>1. ErrorToken \in Tok(m.k)
  BY OwnFields, FreeTokens
<1>2. e \in Seq(Tok(m.k))
  BY <1>1, OneText
<1>3. m \in Message /\ e \in Text
  BY <1>2, TokIsToken DEF OwnMessage, Message
<1>4. ErrorMessage(m) = [m EXCEPT !.content = e, !.status = "error"]
  BY DEF ErrorMessage
<1> HIDE DEF e
<1> QED
  BY <1>2, <1>3, <1>4 DEF Heir, OwnMessage, Message, IsPending

\* applyStreamingChunk adds text of the message's own send.
LEMMA ChunkOwn ==
  ASSUME NEW m \in OwnMessage, m.from = "assistant", NEW t \in OwnText(m.k)
  PROVE  Heir(m, ApplyStreamingChunk(m, t))
<1> DEFINE x == m.reasoning \o GetAppendableChunk(m.reasoning, t.reasoning)
           r == [m EXCEPT !.reasoning = x]
           full == r.content \o GetAppendableChunk(r.content, t.content)
           parsed == ParseThinkTags(full)
           y == IF HasThink(full) /\ parsed.reasoning # <<>> THEN parsed.reasoning ELSE r.reasoning
           c == [r EXCEPT !.content = full, !.reasoning = y]
           b == IF t.content # <<>> THEN c ELSE r
<1>1. t.content \in Seq(Tok(m.k)) /\ t.reasoning \in Seq(Tok(m.k))
  BY DEF OwnText
<1>2. x \in Seq(Tok(m.k))
  BY <1>1, OwnFields, MergeType
<1>3. ApplyStreamingChunk(m, t) = IF m.status = "error" THEN m
                                  ELSE [b EXCEPT !.status = "streaming"]
  BY DEF ApplyStreamingChunk, ProcessStreamingContent
<1> HIDE DEF x
<1>4. Heir(m, r) /\ r.reasoning \in Seq(Tok(m.k)) /\ r.content \in Seq(Tok(m.k))
  BY <1>2, SetReasoning, OwnFields
<1> HIDE DEF r
<1>5. full \in Seq(Tok(m.k))
  BY <1>1, <1>4, MergeType
<1> HIDE DEF full
<1>6. parsed \in Parsed(Tok(m.k))
  BY <1>5, ParseType
<1> HIDE DEF parsed
<1>7. y \in Seq(Tok(m.k))
  BY <1>4, <1>6 DEF Parsed
<1> HIDE DEF y
<1>8. r \in OwnMessage /\ r.k = m.k /\ r.from = "assistant"
  BY <1>4 DEF Heir
<1>9. Heir(r, c)
  BY <1>5, <1>7, <1>8, SetText
<1> HIDE DEF c
<1>10. Heir(m, b)
  BY <1>4, <1>9, HeirTrans
<1> HIDE DEF b
<1>11. b \in OwnMessage /\ b.from = "assistant"
  BY <1>10 DEF Heir
<1>12. Heir(b, [b EXCEPT !.status = "streaming"])
  BY <1>11, SetStatus DEF Statuses
<1> QED
  BY <1>3, <1>10, <1>12, HeirTrans, OwnFields

\* applyChatCompletionChoice puts in the whole text of the message's own send.
LEMMA ResponseOwn ==
  ASSUME NEW m \in OwnMessage, NEW t \in OwnText(m.k)
  PROVE  /\ Heir(m, ApplyChatCompletionChoice(m, t))
         /\ ApplyChatCompletionChoice(m, t).status = "complete"
<1> DEFINE a == [m EXCEPT !.content = t.content]
           b == FinalizeMessage(a, t.reasoning)
           c == [b EXCEPT !.status = "complete"]
           d == [b EXCEPT !.status = "complete", !.whole = TRUE]
<1>1. t.content \in Seq(Tok(m.k)) /\ t.reasoning \in Seq(Tok(m.k))
  BY DEF OwnText
<1>2. ApplyChatCompletionChoice(m, t) = d
  BY DEF ApplyChatCompletionChoice
<1>3. Heir(m, a)
  BY <1>1, SetContent
<1> HIDE DEF a
<1>4. a \in OwnMessage /\ a.k = m.k
  BY <1>3 DEF Heir
<1>5. Heir(a, b)
  BY <1>1, <1>4, FinalizeOwn
<1> HIDE DEF b
<1>6. b \in OwnMessage
  BY <1>5 DEF Heir
<1>7. Heir(b, c) /\ c.status = "complete"
  BY <1>6, SetStatus DEF Statuses
<1>8. b \in Message
  BY <1>6 DEF OwnMessage
<1>9. d = [c EXCEPT !.whole = TRUE]
  BY <1>8 DEF Message
<1> HIDE DEF c, d
<1>10. c \in OwnMessage
  BY <1>7 DEF Heir
<1>11. Heir(c, d) /\ d.status = "complete"
  BY <1>7, <1>9, <1>10, SetWhole
<1> QED
  BY <1>2, <1>3, <1>5, <1>7, <1>11, HeirTrans

\* The kinds of updates, and those that close an answer.
Kinds == {"flush", "complete", "error", "response", "stop", "value"}
Closing == {"complete", "error", "response", "stop"}

\* Every update leaves the last assistant message an assistant message of the
\* same send with text of that send; a closing one leaves it no longer pending.
LEMMA UpdateOwn ==
  ASSUME NEW m \in OwnMessage, m.from = "assistant",
         NEW u, u.kind \in Kinds, u.text \in OwnText(m.k)
  PROVE  /\ Heir(m, UpdateMessage(m, u))
         /\ u.kind \in Closing => ~IsPending(UpdateMessage(m, u))
<1>0. m.status \in Statuses /\ Heir(m, m)
  BY OwnFields
<1>1. CASE u.kind = "flush"
  <2>1. UpdateMessage(m, u) = ApplyStreamingChunk(m, u.text)
    BY <1>1 DEF UpdateMessage
  <2> QED
    BY <1>1, <2>1, ChunkOwn DEF Closing
<1>2. CASE u.kind = "complete"
  <2> DEFINE n == CompleteAssistantMessage(m)
  <2>1. UpdateMessage(m, u) = IF IsFinal(m) THEN m ELSE [n EXCEPT !.whole = TRUE]
    BY <1>2 DEF UpdateMessage
  <2>2. Heir(m, n) /\ n.status = "complete"
    BY CompleteOwn
  <2> HIDE DEF n
  <2>3. n \in OwnMessage
    BY <2>2 DEF Heir
  <2>4. Heir(n, [n EXCEPT !.whole = TRUE]) /\ [n EXCEPT !.whole = TRUE].status = "complete"
    BY <2>2, <2>3, SetWhole
  <2> QED
    BY <1>0, <2>1, <2>2, <2>4, HeirTrans DEF IsFinal, IsPending
<1>3. CASE u.kind = "response"
  <2>1. UpdateMessage(m, u) = ApplyChatCompletionChoice(m, u.text)
    BY <1>3 DEF UpdateMessage
  <2> QED
    BY <2>1, ResponseOwn DEF IsPending
<1>4. CASE u.kind = "error"
  <2>1. UpdateMessage(m, u) = ErrorMessage(m)
    BY <1>4 DEF UpdateMessage
  <2> QED
    BY <2>1, ErrorOwn DEF IsPending
<1>5. CASE u.kind \in {"stop", "value"}
  <2>1. UpdateMessage(m, u) = IF IsPending(m) THEN CompleteAssistantMessage(m) ELSE m
    BY <1>5 DEF UpdateMessage
  <2> QED
    BY <1>0, <2>1, CompleteOwn DEF IsPending
<1> QED
  BY <1>1, <1>2, <1>3, <1>4, <1>5 DEF Kinds

-----------------------------------------------------------------------------
(* Conversations.                                                          *)

\* Only the last message may be pending; none is.
Tidy(l) == \A i \in DOMAIN l : IsPending(l[i]) => i = Len(l)
Settled(l) == \A i \in DOMAIN l : ~IsPending(l[i])

\* The conversation ends in the answer to send k.
EndsIn(l, k) == l # <<>> /\ l[Len(l)].from = "assistant" /\ l[Len(l)].k = k

\* The conversations a page can show while send k is being answered.  An edit
\* may have written an older list back: then ow, and it need not be tidy.
Answered(k, ow) == {l \in Seq(OwnMessage) : EndsIn(l, k) /\ (ow \/ Tidy(l))}

\* Updates that belong to send k, and those of them that wait in generation g.
Upd(k, ow) == {u \in [kind: Kinds, gen: Nat, text: OwnText(k), list: Seq(OwnMessage)] :
                 u.kind = "value" => u.list \in Answered(k, ow)}
Queued(g, k, ow) == {u \in Upd(k, ow) : u.kind # "stop" /\ (u.kind # "value" => u.gen = g)}

\* After u, evaluated in generation g, the answer is no longer pending.
Terminal(u, g) == \/ u.kind \in Closing /\ u.gen = g
                  \/ u.kind = "value" /\ ~IsPending(u.list[Len(u.list)])

\* The last message of a conversation that is not empty.
LEMMA LastIsLast ==
  ASSUME NEW S, NEW l \in Seq(S), l # <<>>
  PROVE  /\ Last(l) = l[Len(l)] /\ Len(l) \in DOMAIN l /\ l[Len(l)] \in S
         /\ Len(l) \in Nat /\ DOMAIN l = 1..Len(l)
  BY DEF Last

\* Replacing one message leaves the others.
LEMMA ReplaceLast ==
  ASSUME NEW S, NEW l \in Seq(S), NEW i \in DOMAIN l, NEW e \in S
  PROVE  /\ ReplaceAt(l, i, e) \in Seq(S) /\ Len(ReplaceAt(l, i, e)) = Len(l)
         /\ DOMAIN ReplaceAt(l, i, e) = DOMAIN l
         /\ ReplaceAt(l, i, e)[i] = e
         /\ \A j \in DOMAIN l : j # i => ReplaceAt(l, i, e)[j] = l[j]
  BY DEF ReplaceAt

\* An update of send k leaves the conversation one that ends in its answer.
LEMMA ApplyAnswered ==
  ASSUME NEW k, NEW ow \in BOOLEAN, NEW g \in Nat, NEW l \in Answered(k, ow), NEW u \in Upd(k, ow)
  PROVE  /\ Apply(l, u, g) \in Answered(k, ow)
         /\ Terminal(u, g) => ~IsPending(Apply(l, u, g)[Len(Apply(l, u, g))])
<1>1. CASE u.kind = "value"
  <2>1. Apply(l, u, g) = u.list
    BY <1>1 DEF Apply
  <2>2. ~(u.kind \in Closing)
    BY <1>1 DEF Closing
  <2> QED
    BY <1>1, <2>1, <2>2 DEF Upd, Terminal
<1>2. CASE u.kind # "value" /\ u.gen = g
  <2> DEFINE n == Len(l)
             m == l[n]
             e == UpdateMessage(m, u)
             r == ReplaceAt(l, n, e)
  <2>1. l \in Seq(OwnMessage) /\ EndsIn(l, k) /\ (ow \/ Tidy(l))
    BY DEF Answered
  <2>2. l # <<>> /\ m.from = "assistant" /\ m.k = k
    BY <2>1 DEF EndsIn
  <2>3. Last(l) = m /\ n \in DOMAIN l /\ m \in OwnMessage
    BY <2>1, <2>2, LastIsLast
  <2>4. Apply(l, u, g) = r
    BY <1>2, <2>2, <2>3 DEF Apply
  <2>5. u.kind \in Kinds /\ u.text \in OwnText(m.k)
    BY <2>2 DEF Upd
  <2>6. Heir(m, e) /\ (u.kind \in Closing => ~IsPending(e))
    BY <2>2, <2>3, <2>5, UpdateOwn
  <2> HIDE DEF e
  <2>7. e \in OwnMessage /\ e.from = "assistant" /\ e.k = k
    BY <2>2, <2>6 DEF Heir
  <2>8. /\ r \in Seq(OwnMessage) /\ Len(r) = n /\ DOMAIN r = DOMAIN l /\ r[n] = e
        /\ \A j \in DOMAIN l : j # n => r[j] = l[j]
    BY <2>1, <2>3, <2>7, ReplaceLast
  <2> HIDE DEF r
  <2>9. EndsIn(r, k)
    <3>1. r # <<>>
      BY <2>3, <2>8
    <3> QED
      BY <2>7, <2>8, <3>1 DEF EndsIn
  <2>10. ow \/ Tidy(r)
    BY <2>1, <2>8 DEF Tidy
  <2> HIDE DEF m
  <2>11. r \in Answered(k, ow)
    BY <2>8, <2>9, <2>10 DEF Answered
  <2>12. Terminal(u, g) => ~IsPending(r[Len(r)])
    BY <1>2, <2>6, <2>8 DEF Terminal
  <2> QED
    BY <2>4, <2>11, <2>12
<1>3. CASE u.kind # "value" /\ u.gen # g
  <2>1. Apply(l, u, g) = l
    BY <1>3 DEF Apply
  <2> QED
    BY <1>3, <2>1 DEF Terminal
<1> QED
  BY <1>1, <1>2, <1>3

\* A tidy conversation whose last message is not pending has no pending message.
LEMMA TidySettled ==
  ASSUME NEW l, Tidy(l), ~IsPending(l[Len(l)])
  PROVE  Settled(l)
  BY DEF Tidy, Settled

\* React renders a conversation that ends in the answer; when the last update
\* queued is a terminal one, with nothing pending.
LEMMA DrainAnswered ==
  ASSUME NEW k, NEW ow \in BOOLEAN, NEW g \in Nat, NEW q \in Seq(Upd(k, ow)),
         messages \in Answered(k, ow)
  PROVE  /\ Drain(q, g) \in Answered(k, ow)
         /\ q # <<>> /\ Terminal(q[Len(q)], g) => ow \/ Settled(Drain(q, g))
<1> DEFINE S == Upd(k, ow)
           V == Answered(k, ow)
<1>1. ASSUME NEW i \in 1..Len(q) PROVE q[i] \in S
  OBVIOUS
<1>2. \A l \in V, i \in 1..Len(q) : Apply(l, q[i], g) \in V
  BY <1>1, ApplyAnswered
<1>3. q \in Seq(S) /\ messages \in V
  OBVIOUS
<1> HIDE DEF S, V
<1>4. /\ Drain(q, g) \in V
      /\ q # <<>> => \E l \in V : Drain(q, g) = Apply(l, q[Len(q)], g)
  BY <1>2, <1>3, DrainKeeps
<1>5. ASSUME q # <<>>, Terminal(q[Len(q)], g) PROVE ow \/ Settled(Drain(q, g))
  <2>1. PICK l \in V : Drain(q, g) = Apply(l, q[Len(q)], g)
    BY <1>4, <1>5
  <2>2. q[Len(q)] \in S
    BY <1>3, <1>5, LastIsLast
  <2>3. ~IsPending(Drain(q, g)[Len(Drain(q, g))])
    BY <1>5, <2>1, <2>2, ApplyAnswered DEF S, V
  <2>4. ow \/ Tidy(Drain(q, g))
    BY <1>4 DEF V, Answered
  <2> QED
    BY <2>3, <2>4, TidySettled
<1> QED
  BY <1>4, <1>5 DEF V

\* Rendering an empty queue changes nothing.
LEMMA DrainNothing ==
  ASSUME NEW g
  PROVE  Drain(<<>>, g) = messages
<1> DEFINE V == {messages}
           q == <<>>
           S == {}
<1>1. q \in Seq(S) /\ messages \in V /\ \A l \in V, i \in 1..Len(q) : Apply(l, q[i], g) \in V
  OBVIOUS
<1> HIDE DEF V, q, S
<1>2. Drain(q, g) \in V
  BY <1>1, DrainKeeps
<1> QED
  BY <1>2 DEF V, q

\* No text is text of every send.
LEMMA NoTextOwn ==
  ASSUME NEW k
  PROVE  NoText \in OwnText(k) /\ ~HasText(NoText)
<1>1. <<>> \in Seq(Tok(k))
  BY EmptyText
<1> QED
  BY <1>1 DEF NoText, OwnText, HasText

\* The updates the chat handler makes.
LEMMA UpdateUpd ==
  ASSUME NEW k, NEW ow, NEW g \in Nat, NEW t \in OwnText(k), NEW kind \in Kinds \ {"value"}
  PROVE  /\ Update(kind, g, t) \in Upd(k, ow)
         /\ kind # "stop" => Update(kind, g, t) \in Queued(g, k, ow)
         /\ kind \in Closing => Terminal(Update(kind, g, t), g)
<1>1. <<>> \in Seq(OwnMessage)
  BY EmptyText
<1>2. Update(kind, g, t) \in Upd(k, ow)
  BY <1>1 DEF Update, Upd
<1> QED
  BY <1>2 DEF Update, Queued, Terminal

\* An update that React evaluated early.
LEMMA ValueQueued ==
  ASSUME NEW k, NEW ow, NEW g \in Nat, NEW l \in Answered(k, ow)
  PROVE  Value(l) \in Queued(g, k, ow) /\ Value(l).kind = "value" /\ Value(l).list = l
<1>1. NoText \in OwnText(k) /\ l \in Seq(OwnMessage)
  BY NoTextOwn DEF Answered
<1>2. Value(l) \in Upd(k, ow)
  BY <1>1 DEF Value, Upd, Kinds
<1> QED
  BY <1>2 DEF Value, Queued

\* What setMessages queues, early evaluated or not.
LEMMA EnqueueQueued ==
  ASSUME NEW k, NEW ow \in BOOLEAN, gen \in Nat, NEW q \in Seq(Queued(gen, k, ow)),
         NEW u \in Queued(gen, k, ow), messages \in Answered(k, ow), NEW r \in Enqueue(q, u)
  PROVE  /\ r \in Seq(Queued(gen, k, ow)) /\ r # <<>>
         /\ Terminal(u, gen) => Terminal(r[Len(r)], gen)
<1> DEFINE S == Queued(gen, k, ow)
           a == Apply(messages, u, gen)
           v == Value(a)
<1>1. u \in Upd(k, ow)
  BY DEF Queued
<1>2. a \in Answered(k, ow) /\ (Terminal(u, gen) => ~IsPending(a[Len(a)]))
  BY <1>1, ApplyAnswered
<1>3. r = Append(q, u) \/ r = <<v>>
  BY DEF Enqueue
<1> HIDE DEF a
<1>4. v \in S /\ v.kind = "value" /\ v.list = a
  BY <1>2, ValueQueued
<1>5. q \in Seq(S) /\ u \in S
  OBVIOUS
<1> HIDE DEF S, v
<1>6. CASE r = Append(q, u)
  <2>1. r \in Seq(S) /\ r # <<>> /\ r[Len(r)] = u
    BY <1>5, <1>6
  <2> QED
    BY <2>1 DEF S
<1>7. CASE r = <<v>>
  <2>1. r \in Seq(S) /\ r # <<>> /\ r[Len(r)] = v
    BY <1>4, <1>7
  <2>2. Terminal(u, gen) => Terminal(v, gen)
    BY <1>2, <1>4 DEF Terminal
  <2> QED
    BY <2>1, <2>2 DEF S
<1> QED
  BY <1>3, <1>6, <1>7

\* What a flush queues.
LEMMA FlushQueued ==
  ASSUME NEW k, NEW ow \in BOOLEAN, gen \in Nat, queue \in Seq(Queued(gen, k, ow)),
         pending \in [gen: Nat, text: OwnText(k)],
         HasText(pending.text) /\ pending.gen = gen => messages \in Answered(k, ow),
         NEW q \in FlushQueues(gen)
  PROVE  /\ q \in Seq(Queued(gen, k, ow))
         /\ q = queue \/ (HasText(pending.text) /\ pending.gen = gen /\ q # <<>>)
<1>1. CASE pending.gen = gen /\ HasText(pending.text)
  <2> DEFINE u == Update("flush", gen, pending.text)
  <2>1. u \in Queued(gen, k, ow)
    <3>1. pending.text \in OwnText(k) /\ "flush" \in Kinds \ {"value"} /\ "flush" # "stop"
      BY DEF Kinds
    <3> QED
      BY <3>1, UpdateUpd
  <2>2. q \in Enqueue(queue, u)
    BY <1>1 DEF FlushQueues
  <2> HIDE DEF u
  <2> QED
    BY <1>1, <2>1, <2>2, EnqueueQueued
<1>2. CASE ~(pending.gen = gen /\ HasText(pending.text))
  BY <1>2 DEF FlushQueues
<1> QED
  BY <1>1, <1>2

-----------------------------------------------------------------------------
(* The inductive invariant.                                                *)

\* The type of the request of send k.
Pcs == {"none", "headers", "open", "closed", "posted", "over"}
ReqType(k) == [pc: Pcs, gen: Nat, ctl: Nat, script: Seq(Chunk), sent: Nat,
               answer: OwnText(k), completed: BOOLEAN, cut: BOOLEAN]

\* A request that can still write: its headers or its response are on their way
\* and no send, stop or unmounting came after it.
Live(k) == req[k].pc \in {"headers", "posted"} /\ req[k].gen = gen

\* Types: the conversations, the flags, the counters.
Lists == /\ messages \in Seq(OwnMessage) /\ latest \in Seq(OwnMessage)
         /\ stored \in Seq(OwnMessage)
         /\ editing = NoKey \/ editing \in {"user", "assistant"} \X Send
Flags == /\ shown \in BOOLEAN /\ requesting \in BOOLEAN /\ streaming \in BOOLEAN
         /\ saveTimer \in BOOLEAN /\ refused \in BOOLEAN /\ mounted \in BOOLEAN
         /\ overwritten \in BOOLEAN
Counts == /\ gen \in Nat /\ ctl = gen /\ sends \in 0..MaxSends /\ acts \in 0..MaxActs
          /\ source \in Send \cup {0}

\* Only a page that is shown has a flush timer armed.
TimerOK == timer \in [gen: Nat, armed: BOOLEAN] /\ (~mounted => ~timer.armed)

\* Pending chunks are of the last send, and of the stream that is open.
PendingOK == /\ pending \in [gen: Nat, text: OwnText(sends)]
             /\ mounted => pending.gen = gen
             /\ mounted /\ HasText(pending.text) => source # 0

\* Updates are queued for the generation that runs, while the page shows it.
QueueOK == /\ queue \in Seq(Queued(gen, sends, overwritten))
           /\ queue # <<>> => shown

\* The two generation numbers go together; a live request is the last send, and
\* only the active source is connected.
ReqOK == /\ DOMAIN req = Send
         /\ \A k \in Send :
              /\ req[k] \in ReqType(k) /\ req[k].gen = req[k].ctl /\ req[k].gen <= gen
              /\ Live(k) => k = sends /\ requesting /\ mounted /\ source = 0
              /\ req[k].pc = "open" => source = k
SourceOK == /\ source # 0 => /\ source = sends /\ mounted /\ requesting
                             /\ req[source].gen = gen
                             /\ req[source].pc \in {"open", "closed"}
            /\ streaming => source # 0

\* A page that shows an answer ends in it; once the request is over, an update
\* that closes it is queued last.
PageOK == /\ requesting => shown
          /\ shown => mounted /\ messages \in Answered(sends, overwritten)
          /\ shown /\ ~requesting => queue # <<>> /\ Terminal(queue[Len(queue)], gen)

\* With nothing queued the copy to save is the conversation, and without a timer
\* it has been saved.
SaveOK == mounted /\ queue = <<>> =>
             latest = messages /\ (~saveTimer /\ ~refused => stored = Trim(latest))

\* Unless an edit was saved over a queue, a pending message is the last one, and the
\* page offers to stop it.
TidyOK == ~overwritten => /\ Tidy(messages) /\ Tidy(latest) /\ Tidy(stored)
                          /\ mounted /\ ~shown => Settled(messages)

\* What the page holds, and what the stream controller holds.
PageSide == Lists /\ Flags /\ TimerOK /\ PendingOK /\ QueueOK /\ PageOK /\ SaveOK /\ TidyOK
ReqSide == Counts /\ ReqOK /\ SourceOK
IInv == PageSide /\ ReqSide

\* A request that was not sent.
LEMMA NoReqType ==
  ASSUME NEW k
  PROVE  NoReq \in ReqType(k) /\ NoReq.gen = 0 /\ NoReq.ctl = 0 /\ NoReq.pc = "none"
<1>1. NoText \in OwnText(k) /\ <<>> \in Seq(Chunk)
  BY NoTextOwn, EmptyText
<1> HIDE DEF NoText
<1> QED
  BY <1>1 DEF NoReq, ReqType, Pcs

\* What a request keeps when it moves on.
ReqKeeps(r, s, k) == s \in ReqType(k) /\ s.gen = r.gen /\ s.ctl = r.ctl

\* A request moves to another stage.
LEMMA SetPc ==
  ASSUME NEW k, NEW r \in ReqType(k), NEW p \in Pcs
  PROVE  ReqKeeps(r, [r EXCEPT !.pc = p], k) /\ [r EXCEPT !.pc = p].pc = p
  BY DEF ReqType, ReqKeeps

\* One more chunk of it arrives.
LEMMA AddSent ==
  ASSUME NEW k, NEW r \in ReqType(k)
  PROVE  ReqKeeps(r, [r EXCEPT !.sent = @ + 1], k) /\ [r EXCEPT !.sent = @ + 1].pc = r.pc
  BY DEF ReqType, ReqKeeps

\* n is a request of send k at stage p, of the generations g and h.
IsNew(n, k, p, g, h) == n \in ReqType(k) /\ n.pc = p /\ n.gen = g /\ n.ctl = h

\* A request that is sent.
LEMMA NewReq ==
  ASSUME NEW k, NEW r \in ReqType(k), NEW p \in Pcs, NEW g \in Nat, NEW h \in Nat,
         NEW s \in Seq(Chunk), NEW a \in OwnText(k)
  PROVE  IsNew([r EXCEPT !.pc = p, !.gen = g, !.ctl = h, !.script = s, !.answer = a], k, p, g, h)
  BY DEF ReqType, IsNew

\* The tokens made of the letters of a chunk of send k.
LEMMA TokensOwn ==
  ASSUME NEW k \in Send, NEW t \in Seq(Alphabet)
  PROVE  Tokens(k, t) \in Seq(Tok(k))
<1>1. ASSUME NEW i \in DOMAIN t PROVE [k |-> k, c |-> t[i]] \in Tok(k)
  <2> DEFINE A == {0, k}
  <2>1. k \in A /\ t[i] \in Letter
    BY DEF Letter
  <2> HIDE DEF A
  <2>2. [k |-> k, c |-> t[i]] \in [k: A, c: Letter]
    BY <2>1
  <2> QED
    BY <2>2 DEF Tok, A
<1>2. DOMAIN t = 1..Len(t) /\ Len(t) \in Nat
  OBVIOUS
<1>3. Tokens(k, t) \in [1..Len(t) -> Tok(k)]
  BY <1>1, <1>2 DEF Tokens
<1> QED
  BY <1>2, <1>3

\* The text of an answer belongs to the send.
LEMMA FullTextOwn ==
  ASSUME NEW k \in Send, NEW script \in Seq(Chunk)
  PROVE  FullText(k, script) \in OwnText(k)
<1> DEFINE f == FullText(k, script)
<1>1. ASSUME NEW type \in {"content", "reasoning"} PROVE f[type] \in Seq(Tok(k))
  <2>1. PICK p : MergeTrace(p, script, type) /\ f[type] = Tokens(k, p[Len(script)])
    BY FullTextTraces
  <2>2. p[Len(script)] \in Seq(Alphabet)
    <3>1. Len(script) \in 0..Len(script)
      OBVIOUS
    <3> QED
      BY <2>1, <3>1 DEF MergeTrace
  <2> QED
    BY <2>1, <2>2, TokensOwn
<1>2. f = [type \in {"content", "reasoning"} |-> f[type]]
  BY DEF FullText
<1> HIDE DEF f
<1> QED
  BY <1>1, <1>2 DEF OwnText, f

-----------------------------------------------------------------------------
(* The steps of the page.                                                  *)

\* A page that has just been opened.
LEMMA InitIInv ==
  ASSUME Init
  PROVE  IInv
<1> USE MaxSendsAssumption, MaxActsAssumption, MaxStoredAssumption DEF Init
<1>1. \A S : <<>> \in Seq(S)
  BY EmptyText
<1>2. Lists /\ Flags /\ QueueOK /\ PageOK
  BY <1>1 DEF Lists, Flags, QueueOK, PageOK
<1>3. TimerOK
  BY DEF TimerOK, NoTimer
<1>4. PendingOK
  <2>1. NoText \in OwnText(sends) /\ ~HasText(NoText)
    BY NoTextOwn
  <2> HIDE DEF NoText
  <2> QED
    BY <2>1 DEF PendingOK
<1>5. SaveOK
  BY DEF SaveOK, Trim
<1>6. TidyOK
  BY DEF TidyOK, Tidy, Settled
<1>7. Counts
  BY DEF Counts
<1>8. ReqOK
  <2>1. \A k \in Send : req[k] \in ReqType(k) /\ req[k].gen = 0 /\ req[k].ctl = 0 /\ req[k].pc = "none"
    BY NoReqType
  <2> QED
    BY <2>1 DEF ReqOK, Live
<1>9. SourceOK
  BY DEF SourceOK
<1> QED
  BY <1>2, <1>3, <1>4, <1>5, <1>6, <1>7, <1>8, <1>9 DEF IInv, PageSide, ReqSide

\* Trimming a conversation keeps it tidy.
LEMMA TrimKeeps ==
  ASSUME NEW S, NEW l \in Seq(S)
  PROVE  /\ Trim(l) \in Seq(S) /\ Len(Trim(l)) <= MaxStored
         /\ Tidy(l) => Tidy(Trim(l))
         /\ Trim(Trim(l)) = Trim(l)
<1> USE MaxStoredAssumption
<1>1. CASE Len(l) <= MaxStored
  BY <1>1 DEF Trim
<1>2. CASE Len(l) > MaxStored
  <2> DEFINE d == Len(l) - MaxStored
             t == SubSeq(l, d + 1, Len(l))
  <2>1. Trim(l) = t
    BY <1>2 DEF Trim
  <2>2. t \in Seq(S) /\ Len(t) = MaxStored /\ DOMAIN t = 1..MaxStored
        /\ \A i \in 1..MaxStored : t[i] = l[i + d]
    BY <1>2
  <2>3. Tidy(l) => Tidy(t)
    BY <1>2, <2>2 DEF Tidy
  <2> HIDE DEF t
  <2>4. Trim(t) = t
    BY <2>2 DEF Trim
  <2> QED
    BY <2>1, <2>2, <2>3, <2>4
<1> QED
  BY <1>1, <1>2

\* An empty buffer.
LEMMA NoTextPending ==
  ASSUME NEW g \in Nat, NEW k
  PROVE  /\ [gen |-> g, text |-> NoText] \in [gen: Nat, text: OwnText(k)]
         /\ ~HasText([gen |-> g, text |-> NoText].text)
<1>1. NoText \in OwnText(k) /\ ~HasText(NoText)
  BY NoTextOwn
<1> HIDE DEF NoText
<1> QED
  BY <1>1

\* A timer that is not set.
LEMMA NoTimerType ==
  NoTimer \in [gen: Nat, armed: BOOLEAN] /\ ~NoTimer.armed
  BY DEF NoTimer

\* Closing the active source leaves no connection, and keeps everything else.
LEMMA CloseSourceKeeps ==
  ASSUME ReqOK, NEW k \in Send
  PROVE  /\ ReqKeeps(req[k], CloseSource(source)[k], k)
         /\ CloseSource(source)[k].pc # "open"
         /\ DOMAIN CloseSource(source) = Send
         /\ CloseSource(source)[k].pc \in {"headers", "posted"} => CloseSource(source)[k].pc = req[k].pc
<1>1. req[k] \in ReqType(k) /\ (req[k].pc = "open" => source = k)
  BY DEF ReqOK
<1>2. "closed" \in Pcs
  BY DEF Pcs
<1>3. ReqKeeps(req[k], [req[k] EXCEPT !.pc = "closed"], k) /\ [req[k] EXCEPT !.pc = "closed"].pc = "closed"
  BY <1>1, <1>2, SetPc
<1>4. ReqKeeps(req[k], req[k], k)
  BY <1>1 DEF ReqKeeps
<1>5. CloseSource(source)[k] = IF k = source /\ req[k].pc = "open"
                               THEN [req[k] EXCEPT !.pc = "closed"] ELSE req[k]
  BY DEF CloseSource
<1>6. DOMAIN CloseSource(source) = Send
  BY DEF CloseSource
<1> QED
  BY <1>1, <1>3, <1>4, <1>5, <1>6

\* A send: list is the conversation with the new, empty answer at its end.
LEMMA AskStep ==
  ASSUME IInv, mounted, NEW list \in Answered(sends + 1, overwritten), Ask(list),
         UNCHANGED <<stored, refused, mounted, overwritten, acts>>,
         editing' = NoKey \/ editing' = editing
  PROVE  IInv'
<1> USE MaxSendsAssumption
<1>1. PICK pc \in {"headers", "posted"}, script \in Scripts : SendChat(list, pc, script)
  BY DEF Ask
<1>2. /\ sends < MaxSends /\ sends' = sends + 1 /\ gen' = gen + 1 /\ ctl' = ctl + 1
      /\ source' = 0 /\ requesting' = TRUE /\ streaming' = FALSE
      /\ pending' = [gen |-> gen + 1, text |-> NoText] /\ timer' = NoTimer
  BY <1>1 DEF SendChat, DiscardPending
<1>3. /\ messages' = list /\ queue' = <<>> /\ latest' = list /\ saveTimer' = TRUE
      /\ shown' = (requesting' \/ streaming')
  BY DEF Ask, Rendered
<1>4. list \in Seq(OwnMessage) /\ EndsIn(list, sends + 1) /\ (overwritten \/ Tidy(list))
  BY DEF Answered
<1>5. shown' = TRUE
  BY <1>2, <1>3
<1>6. Counts /\ Flags /\ Lists /\ ReqOK
  BY DEF IInv, PageSide, ReqSide
<1>7. gen \in Nat /\ ctl = gen /\ sends \in Nat /\ sends + 1 \in Send
  BY <1>2, <1>6 DEF Counts, Send
<1>8. Lists'
  BY <1>3, <1>4, <1>6 DEF Lists
<1>9. Flags'
  BY <1>2, <1>3, <1>5, <1>6 DEF Flags
<1>10. TimerOK'
  BY <1>2, NoTimerType, <1>6 DEF TimerOK, Flags
<1>11. PendingOK'
  <2>1. /\ pending' \in [gen: Nat, text: OwnText(sends')] /\ ~HasText(pending'.text)
        /\ pending'.gen = gen'
    BY <1>2, <1>7, NoTextPending
  <2> QED
    BY <2>1 DEF PendingOK
<1>12. QueueOK'
  BY <1>3, EmptyText DEF QueueOK
<1>13. PageOK'
  BY <1>2, <1>3, <1>5 DEF PageOK
<1>14. SaveOK'
  BY <1>3 DEF SaveOK
<1>15. TidyOK'
  <2>1. ~overwritten => Tidy(stored)
    BY DEF IInv, PageSide, TidyOK
  <2> QED
    BY <1>3, <1>4, <1>5, <2>1 DEF TidyOK
<1>16. Counts'
  BY <1>2, <1>6, <1>7 DEF Counts
<1>17. ReqOK'
  <2> DEFINE n == sends + 1
             r == [NoReq EXCEPT !.pc = pc, !.gen = gen + 1, !.ctl = ctl + 1,
                                !.script = script, !.answer = FullText(n, script)]
  <2>1. req' = [CloseSource(source) EXCEPT ![n] = r]
    BY <1>1 DEF SendChat
  <2>2. r \in ReqType(n) /\ r.gen = gen + 1 /\ r.ctl = gen + 1 /\ r.pc = pc
    <3>1. script \in Seq(Chunk)
      BY ScriptsAssumption
    <3>2. FullText(n, script) \in OwnText(n)
      BY <1>7, <3>1, FullTextOwn
    <3>3. NoReq \in ReqType(n) /\ pc \in Pcs
      BY NoReqType DEF Pcs
    <3>4. gen + 1 \in Nat /\ ctl + 1 \in Nat /\ ctl + 1 = gen + 1
      BY <1>7
    <3> HIDE DEF n
    <3>5. IsNew(r, n, pc, gen + 1, ctl + 1)
      BY <3>1, <3>2, <3>3, <3>4, NewReq
    <3> HIDE DEF r
    <3> QED
      BY <3>4, <3>5 DEF IsNew
  <2> HIDE DEF r
  <2>3. DOMAIN CloseSource(source) = Send
    BY <1>6, <1>7, CloseSourceKeeps
  <2>4. ASSUME NEW k \in Send, k # n
        PROVE  /\ req'[k] \in ReqType(k) /\ req'[k].gen = req'[k].ctl /\ req'[k].gen <= gen
               /\ req'[k].pc # "open"
    <3>1. req'[k] = CloseSource(source)[k]
      BY <2>1, <2>3, <2>4
    <3>2. req[k].gen = req[k].ctl /\ req[k].gen <= gen
      BY <1>6 DEF ReqOK
    <3> QED
      BY <1>6, <3>1, <3>2, CloseSourceKeeps DEF ReqKeeps
  <2>5. DOMAIN req' = Send /\ req'[n] = r
    BY <1>7, <2>1, <2>3
  <2>6. ASSUME NEW k \in Send
        PROVE  /\ req'[k] \in ReqType(k) /\ req'[k].gen = req'[k].ctl /\ req'[k].gen <= gen'
               /\ Live(k)' => k = n
               /\ req'[k].pc # "open"
    <3>1. CASE k = n
      BY <1>1, <1>2, <1>7, <2>2, <2>5, <3>1
    <3>2. CASE k # n
      <4>1. req'[k].gen \in Nat /\ req'[k].gen # gen + 1
        BY <1>7, <2>4, <3>2 DEF ReqType
      <4> QED
        BY <1>2, <1>7, <2>4, <3>2, <4>1 DEF Live
    <3> QED
      BY <3>1, <3>2
  <2> QED
    BY <1>2, <2>5, <2>6 DEF ReqOK
<1>18. SourceOK'
  BY <1>2 DEF SourceOK
<1> QED
  BY <1>8, <1>9, <1>10, <1>11, <1>12, <1>13, <1>14, <1>15, <1>16, <1>17, <1>18
     DEF IInv, PageSide, ReqSide

\* The two messages that a send adds.
LEMMA NewMessages ==
  ASSUME NEW k \in Send
  PROVE  /\ User(k) \in OwnMessage /\ ~IsPending(User(k))
         /\ Loading(k) \in OwnMessage /\ Loading(k).from = "assistant" /\ Loading(k).k = k
<1> DEFINE u == <<UserToken>>
<1>1. u \in Seq(Tok(k)) /\ <<>> \in Seq(Tok(k))
  BY FreeTokens, OneText, EmptyText
<1>2. u \in Text /\ <<>> \in Text
  BY <1>1, TokIsToken
<1> DEFINE U == [from |-> "user", k |-> k, status |-> "complete",
                 content |-> u, reasoning |-> <<>>, whole |-> FALSE]
<1>3. User(k) = U
  BY DEF User
<1> HIDE DEF u
<1>4. U \in OwnMessage /\ ~IsPending(U)
  BY <1>1, <1>2 DEF OwnMessage, Message, IsPending
<1>5. Loading(k) \in OwnMessage /\ Loading(k).from = "assistant" /\ Loading(k).k = k
  BY <1>1, <1>2 DEF Loading, OwnMessage, Message, IsPending
<1> HIDE DEF U
<1> QED
  BY <1>3, <1>4, <1>5

\* A settled conversation may get a new answer at its end.
LEMMA AddAnswer ==
  ASSUME NEW l \in Seq(OwnMessage), NEW k \in Send, NEW ow \in BOOLEAN, ow \/ Settled(l)
  PROVE  l \o <<Loading(k)>> \in Answered(k, ow)
<1> DEFINE m == Loading(k)
           r == l \o <<m>>
<1>1. m \in OwnMessage /\ m.from = "assistant" /\ m.k = k
  BY NewMessages
<1> HIDE DEF m
<1>2. /\ r \in Seq(OwnMessage) /\ Len(r) = Len(l) + 1 /\ r[Len(r)] = m /\ r # <<>>
      /\ \A i \in 1..Len(l) : r[i] = l[i]
  BY <1>1
<1> HIDE DEF r
<1>3. EndsIn(r, k)
  BY <1>1, <1>2 DEF EndsIn
<1>4. ow \/ Tidy(r)
  <2> SUFFICES ASSUME Settled(l), NEW i \in DOMAIN r, i # Len(r) PROVE ~IsPending(r[i])
    BY DEF Tidy
  <2>1. i \in DOMAIN l /\ r[i] = l[i]
    BY <1>2
  <2> QED
    BY <2>1 DEF Settled
<1> QED
  BY <1>2, <1>3, <1>4 DEF Answered, r, m

\* A part of the conversation, from its start.
LEMMA Start ==
  ASSUME NEW S, NEW l \in Seq(S), NEW n \in 0..Len(l)
  PROVE  /\ SubSeq(l, 1, n) \in Seq(S) /\ Len(SubSeq(l, 1, n)) = n
         /\ DOMAIN SubSeq(l, 1, n) = 1..n
         /\ \A i \in 1..n : SubSeq(l, 1, n)[i] = l[i]
  OBVIOUS

\* Adding two messages is adding one after the other.
LEMMA AddTwo ==
  ASSUME NEW S, NEW s \in Seq(S), NEW a \in S, NEW b \in S
  PROVE  s \o <<a, b>> = (s \o <<a>>) \o <<b>>
<1> DEFINE x == s \o <<a, b>>
           t == s \o <<a>>
           y == t \o <<b>>
<1>1. /\ x \in Seq(S) /\ Len(x) = Len(s) + 2 /\ x[Len(s) + 1] = a /\ x[Len(s) + 2] = b
      /\ \A i \in 1..Len(s) : x[i] = s[i]
  OBVIOUS
<1>2. /\ t \in Seq(S) /\ Len(t) = Len(s) + 1 /\ t[Len(s) + 1] = a
      /\ \A i \in 1..Len(s) : t[i] = s[i]
  OBVIOUS
<1> HIDE DEF x, t
<1>3. /\ y \in Seq(S) /\ Len(y) = Len(t) + 1 /\ y[Len(t) + 1] = b
      /\ \A i \in 1..Len(t) : y[i] = t[i]
  BY <1>2
<1> HIDE DEF y
<1>4. Len(x) = Len(y) /\ Len(s) \in Nat
  BY <1>1, <1>2, <1>3
<1>5. \A i \in 1..Len(x) : x[i] = y[i]
  BY <1>1, <1>2, <1>3, <1>4
<1>6. x = y
  BY <1>1, <1>3, <1>4, <1>5, SeqEqual
<1> QED
  BY <1>6 DEF x, y, t

\* handleSendMessage: nothing is being answered, so everything before is settled.
LEMMA SendStep ==
  ASSUME IInv, HandleSendMessage
  PROVE  IInv'
<1>1. /\ mounted /\ ~shown /\ Ask(messages \o <<User(sends + 1), Loading(sends + 1)>>)
      /\ UNCHANGED <<editing, stored, refused, mounted, overwritten, acts>>
  BY DEF HandleSendMessage
<1>2. /\ messages \in Seq(OwnMessage) /\ overwritten \in BOOLEAN /\ sends \in 0..MaxSends
      /\ overwritten \/ Settled(messages)
  BY <1>1 DEF IInv, PageSide, ReqSide, Lists, Flags, Counts, TidyOK
<1>3. sends + 1 \in Send
  BY <1>1, <1>2, MaxSendsAssumption DEF Ask, SendChat, Send
<1> DEFINE u == User(sends + 1)
           a == Loading(sends + 1)
           l == messages \o <<u>>
           r == messages \o <<u, a>>
<1>4. u \in OwnMessage /\ ~IsPending(u) /\ a \in OwnMessage
  BY <1>3, NewMessages
<1> HIDE DEF u, a
<1>5. /\ l \in Seq(OwnMessage) /\ Len(l) = Len(messages) + 1 /\ l[Len(l)] = u
      /\ \A i \in 1..Len(messages) : l[i] = messages[i]
  BY <1>2, <1>4
<1>5a. r = l \o <<a>>
  BY <1>2, <1>4, AddTwo
<1> HIDE DEF l, r
<1>6. overwritten \/ Settled(l)
  <2> SUFFICES ASSUME Settled(messages), NEW i \in DOMAIN l PROVE ~IsPending(l[i])
    BY <1>2 DEF Settled
  <2>1. i = Len(l) \/ (i \in DOMAIN messages /\ l[i] = messages[i])
    BY <1>2, <1>5
  <2> QED
    BY <1>4, <1>5, <2>1 DEF Settled
<1>7. l \o <<a>> \in Answered(sends + 1, overwritten)
  BY <1>2, <1>3, <1>5, <1>6, AddAnswer DEF a
<1>8. r \in Answered(sends + 1, overwritten) /\ Ask(r)
  BY <1>1, <1>5a, <1>7 DEF r, u, a
<1> HIDE DEF Ask
<1> QED
  BY <1>1, <1>8, AskStep

\* handleRegenerateMessage, for the same reason.
LEMMA RegenerateStep ==
  ASSUME IInv, NEW i \in DOMAIN messages, HandleRegenerateMessage(i)
  PROVE  IInv'
<1> DEFINE n == IF messages[i].from = "user" THEN i ELSE i - 1
           l == SubSeq(messages, 1, n)
           r == l \o <<Loading(sends + 1)>>
<1>1. /\ mounted /\ ~shown /\ Ask(r)
      /\ UNCHANGED <<editing, stored, refused, mounted, overwritten, acts>>
  BY DEF HandleRegenerateMessage
<1>2. /\ messages \in Seq(OwnMessage) /\ overwritten \in BOOLEAN /\ sends \in 0..MaxSends
      /\ overwritten \/ Settled(messages)
  BY <1>1 DEF IInv, PageSide, ReqSide, Lists, Flags, Counts, TidyOK
<1>3. sends + 1 \in Send
  BY <1>1, <1>2, MaxSendsAssumption DEF Ask, SendChat, Send
<1>4. n \in 0..Len(messages) /\ DOMAIN messages = 1..Len(messages)
  BY <1>2
<1> HIDE DEF n
<1>5. l \in Seq(OwnMessage) /\ DOMAIN l = 1..n /\ \A j \in 1..n : l[j] = messages[j]
  BY <1>2, <1>4, Start
<1> HIDE DEF l
<1>6. overwritten \/ Settled(l)
  BY <1>2, <1>4, <1>5 DEF Settled
<1>7. r \in Answered(sends + 1, overwritten)
  BY <1>2, <1>3, <1>5, <1>6, AddAnswer
<1> HIDE DEF r, Ask
<1> QED
  BY <1>1, <1>7, AskStep

\* Submitting an edit: a message of the user is never pending, and no message before
\* the last one is.
LEMMA SubmitStep ==
  ASSUME IInv, NEW i \in DOMAIN messages, SubmitEdit(i)
  PROVE  IInv'
<1> DEFINE l == SubSeq(messages, 1, i)
           r == l \o <<Loading(sends + 1)>>
<1>1. /\ mounted /\ Ask(r) /\ messages[i].from = "user" /\ editing' = NoKey
      /\ UNCHANGED <<stored, refused, mounted, overwritten, acts>>
  BY DEF SubmitEdit
<1>2. /\ messages \in Seq(OwnMessage) /\ overwritten \in BOOLEAN /\ sends \in 0..MaxSends
      /\ overwritten \/ Tidy(messages)
  BY DEF IInv, PageSide, ReqSide, Lists, Flags, Counts, TidyOK
<1>3. sends + 1 \in Send
  BY <1>1, <1>2, MaxSendsAssumption DEF Ask, SendChat, Send
<1>4. i \in 0..Len(messages) /\ DOMAIN messages = 1..Len(messages) /\ i \in Nat
  BY <1>2
<1>5. l \in Seq(OwnMessage) /\ DOMAIN l = 1..i /\ \A j \in 1..i : l[j] = messages[j]
  BY <1>2, <1>4, Start
<1> HIDE DEF l
<1>6. overwritten \/ Settled(l)
  <2> SUFFICES ASSUME Tidy(messages), NEW j \in DOMAIN l PROVE ~IsPending(l[j])
    BY <1>2 DEF Settled
  <2>1. j \in DOMAIN messages /\ l[j] = messages[j] /\ messages[j] \in OwnMessage
    BY <1>2, <1>4, <1>5
  <2>2. CASE j = i
    BY <1>1, <2>1, <2>2 DEF OwnMessage
  <2>3. CASE j # i
    <3>1. j # Len(messages)
      BY <1>2, <1>4, <1>5, <2>3
    <3> QED
      BY <2>1, <3>1 DEF Tidy
  <2> QED
    BY <2>2, <2>3
<1>7. r \in Answered(sends + 1, overwritten)
  BY <1>2, <1>3, <1>5, <1>6, AddAnswer
<1> HIDE DEF r, Ask
<1> QED
  BY <1>1, <1>7, AskStep

\* The bounded actions stay within their bound.
LEMMA SpendType ==
  ASSUME Spend, acts \in 0..MaxActs
  PROVE  acts' \in 0..MaxActs
  BY MaxActsAssumption DEF Spend

\* Nothing of the requests changes.
LEMMA ReqSideKept ==
  ASSUME ReqSide, UNCHANGED chatVars, UNCHANGED mounted, acts' \in 0..MaxActs
  PROVE  ReqSide'
<1>1. Counts'
  BY DEF ReqSide, Counts, chatVars
<1>2. ReqOK'
  BY DEF ReqSide, ReqOK, Live, chatVars
<1>3. SourceOK'
  BY DEF ReqSide, SourceOK, chatVars
<1> QED
  BY <1>1, <1>2, <1>3 DEF ReqSide

\* Nothing of the buffer and its timer changes.
LEMMA TextsKept ==
  ASSUME PageSide, UNCHANGED <<timer, pending, gen, sends, source, mounted>>
  PROVE  TimerOK' /\ PendingOK'
  BY DEF PageSide, TimerOK, PendingOK

\* A click that renders list while nothing is being answered.
LEMMA QuietStep ==
  ASSUME IInv, mounted, ~shown, NEW list \in Seq(OwnMessage), overwritten \/ Settled(list),
         UNCHANGED chatVars, Rendered(list), UNCHANGED <<stored, refused, mounted, overwritten>>,
         acts' \in 0..MaxActs, editing' = NoKey \/ editing' = editing
  PROVE  IInv'
<1>1. /\ messages' = list /\ queue' = <<>> /\ latest' = list /\ saveTimer' = TRUE
      /\ shown' = (requesting' \/ streaming')
  BY DEF Rendered
<1>2. ~requesting /\ ~streaming /\ requesting' = requesting /\ streaming' = streaming
  BY DEF IInv, PageSide, ReqSide, PageOK, SourceOK, chatVars
<1>3. ~shown' /\ shown' \in BOOLEAN
  BY <1>1, <1>2
<1>4. Lists'
  BY <1>1 DEF IInv, PageSide, Lists
<1>5. Flags'
  BY <1>1, <1>2, <1>3 DEF IInv, PageSide, Flags
<1>6. TimerOK' /\ PendingOK'
  BY TextsKept DEF IInv, chatVars
<1>7. QueueOK'
  BY <1>1, EmptyText DEF QueueOK
<1>8. PageOK'
  BY <1>2, <1>3 DEF PageOK
<1>9. SaveOK'
  BY <1>1 DEF SaveOK
<1>10. TidyOK'
  <2>1. Settled(list) => Tidy(list)
    BY DEF Settled, Tidy
  <2> QED
    BY <1>1, <2>1 DEF IInv, PageSide, TidyOK
<1>11. ReqSide'
  BY ReqSideKept DEF IInv
<1> QED
  BY <1>4, <1>5, <1>6, <1>7, <1>8, <1>9, <1>10, <1>11 DEF IInv, PageSide

\* The count of the bounded actions.
LEMMA ActsType ==
  ASSUME IInv
  PROVE  acts \in 0..MaxActs
  BY DEF IInv, ReqSide, Counts

\* handleDeleteMessage drops settled messages only.
LEMMA DeleteStep ==
  ASSUME IInv, NEW i \in DOMAIN messages, HandleDeleteMessage(i)
  PROVE  IInv'
<1> DEFINE key == KeyOf(messages[i])
           list == Without(Drain(queue, gen), key)
           S == {m \in OwnMessage : overwritten \/ ~IsPending(m)}
<1>1. /\ mounted /\ ~shown /\ Spend /\ UNCHANGED chatVars /\ Rendered(list)
      /\ UNCHANGED <<editing, stored, refused, mounted, overwritten>>
  BY DEF HandleDeleteMessage
<1>2. queue = <<>>
  BY <1>1 DEF IInv, PageSide, QueueOK
<1>3. Drain(queue, gen) = messages
  BY <1>2, DrainNothing
<1>4. messages \in Seq(OwnMessage) /\ (overwritten \/ Settled(messages))
  BY <1>1 DEF IInv, PageSide, Lists, TidyOK
<1>5. messages \in Seq(S)
  <2>1. \A j \in 1..Len(messages) : messages[j] \in S
    BY <1>4 DEF Settled
  <2> HIDE DEF S
  <2> QED
    BY <1>4, <2>1, IsASeq
<1> HIDE DEF key, S
<1>6. list \in Seq(S)
  BY <1>3, <1>5, WithoutType
<1> HIDE DEF list
<1>7. list \in Seq(OwnMessage) /\ (overwritten \/ Settled(list))
  BY <1>6 DEF S, Settled
<1>8. acts' \in 0..MaxActs
  BY <1>1, SpendType, ActsType
<1> QED
  BY <1>1, <1>7, <1>8, QuietStep

\* handleClearMessages.
LEMMA ClearStep ==
  ASSUME IInv, HandleClearMessages
  PROVE  IInv'
<1> DEFINE list == <<>>
<1>1. /\ mounted /\ ~shown /\ Spend /\ UNCHANGED chatVars /\ Rendered(list) /\ editing' = NoKey
      /\ UNCHANGED <<stored, refused, mounted, overwritten>>
  BY DEF HandleClearMessages
<1>2. list \in Seq(OwnMessage) /\ Settled(list)
  BY DEF Settled
<1> HIDE DEF list
<1>3. acts' \in 0..MaxActs
  BY <1>1, SpendType, ActsType
<1> QED
  BY <1>1, <1>2, <1>3, QuietStep

\* Opening the editor.
LEMMA EditStep ==
  ASSUME IInv, NEW i \in DOMAIN messages, HandleEditMessage(i)
  PROVE  IInv'
<1>1. /\ editing' = KeyOf(messages[i]) /\ Spend
      /\ UNCHANGED <<messages, queue, shown, chatVars, saveVars, mounted, overwritten>>
  BY DEF HandleEditMessage
<1>2. KeyOf(messages[i]) \in {"user", "assistant"} \X Send
  <2>1. messages[i] \in OwnMessage
    BY DEF IInv, PageSide, Lists
  <2> QED
    BY <2>1, OwnFields DEF KeyOf
<1>3. Lists'
  BY <1>1, <1>2 DEF IInv, PageSide, Lists, saveVars
<1>4. Flags' /\ QueueOK' /\ PageOK' /\ SaveOK' /\ TidyOK'
  BY <1>1 DEF IInv, PageSide, Flags, QueueOK, PageOK, SaveOK, TidyOK, saveVars, chatVars
<1>5. TimerOK' /\ PendingOK'
  BY <1>1, TextsKept DEF IInv, chatVars
<1>6. ReqSide'
  BY <1>1, SpendType, ActsType, ReqSideKept DEF IInv
<1> QED
  BY <1>3, <1>4, <1>5, <1>6 DEF IInv, PageSide

\* Saving an edit keeps the status of the message; over a queue that is not empty
\* it sets overwritten.
LEMMA SaveEditStep ==
  ASSUME IInv, NEW i \in DOMAIN messages, SaveEdit(i)
  PROVE  IInv'
<1> DEFINE m == messages[i]
           e == [m EXCEPT !.content = <<UserToken>>, !.whole = FALSE]
           list == ReplaceAt(messages, i, e)
<1>1. /\ mounted /\ editing' = NoKey /\ UNCHANGED chatVars /\ Rendered(list)
      /\ overwritten' = (overwritten \/ queue # <<>>) /\ UNCHANGED <<stored, refused, mounted, acts>>
  BY DEF SaveEdit
<1>2. messages \in Seq(OwnMessage) /\ m \in OwnMessage
  BY DEF IInv, PageSide, Lists
<1>3. Heir(m, e) /\ e.status = m.status
  <2> DEFINE u == <<UserToken>>
             a == [m EXCEPT !.content = u]
  <2>1. u \in Seq(Tok(m.k))
    BY <1>2, OwnFields, FreeTokens, OneText
  <2> HIDE DEF m
  <2>2. m \in Message
    BY <1>2 DEF OwnMessage
  <2>3. e = [a EXCEPT !.whole = FALSE]
    OBVIOUS
  <2> HIDE DEF u, e
  <2>4. Heir(m, a) /\ a.status = m.status
    BY <1>2, <2>1, SetContent
  <2> HIDE DEF a
  <2>5. a \in OwnMessage
    BY <2>4 DEF Heir
  <2>6. Heir(a, e) /\ e.status = a.status
    BY <2>3, <2>5, SetWhole
  <2> QED
    BY <2>4, <2>6, HeirTrans
<1> HIDE DEF e
<1>4. e \in OwnMessage /\ e.from = m.from /\ e.k = m.k /\ (IsPending(e) <=> IsPending(m))
  BY <1>3 DEF Heir, IsPending
<1>5. /\ list \in Seq(OwnMessage) /\ Len(list) = Len(messages) /\ DOMAIN list = DOMAIN messages
      /\ list[i] = e /\ \A j \in DOMAIN messages : j # i => list[j] = messages[j]
  BY <1>2, <1>4, ReplaceLast
<1> HIDE DEF list
<1>6. /\ Settled(messages) => Settled(list)
      /\ Tidy(messages) => Tidy(list)
      /\ \A k : EndsIn(messages, k) => EndsIn(list, k)
  <2>1. \A j \in DOMAIN list : (IsPending(list[j]) <=> IsPending(messages[j]))
                               /\ list[j].from = messages[j].from /\ list[j].k = messages[j].k
    BY <1>4, <1>5
  <2>2. Settled(messages) => Settled(list)
    BY <1>5, <2>1 DEF Settled
  <2>3. Tidy(messages) => Tidy(list)
    BY <1>5, <2>1 DEF Tidy
  <2>4. ASSUME NEW k, EndsIn(messages, k) PROVE EndsIn(list, k)
    <3>1. messages # <<>> /\ Len(messages) \in DOMAIN messages /\ list # <<>>
      BY <1>2, <1>5, <2>4, LastIsLast DEF EndsIn
    <3> QED
      BY <1>5, <2>1, <2>4, <3>1 DEF EndsIn
  <2> QED
    BY <2>2, <2>3, <2>4
<1> HIDE DEF m
<1>7. /\ messages' = list /\ queue' = <<>> /\ latest' = list /\ saveTimer' = TRUE
      /\ shown' = (requesting' \/ streaming') /\ requesting' = requesting /\ streaming' = streaming
  BY <1>1 DEF Rendered, chatVars
<1>8. Flags
  BY DEF IInv, PageSide
<1>9. shown' = requesting /\ shown' \in BOOLEAN /\ (requesting => shown)
  <2>1. streaming => requesting
    BY DEF IInv, ReqSide, SourceOK
  <2> QED
    BY <1>7, <1>8, <2>1 DEF Flags, IInv, PageSide, PageOK
<1>10. overwritten' \in BOOLEAN /\ (overwritten' <=> overwritten \/ queue # <<>>)
  BY <1>1, <1>8 DEF Flags
<1>11. Lists'
  BY <1>1, <1>5, <1>7 DEF IInv, PageSide, Lists
<1>12. Flags'
  BY <1>1, <1>7, <1>8, <1>9, <1>10 DEF Flags
<1>13. TimerOK' /\ PendingOK'
  BY <1>1, TextsKept DEF IInv, chatVars
<1>14. QueueOK'
  BY <1>7, EmptyText DEF QueueOK
<1>15. PageOK'
  <2>1. ASSUME requesting PROVE list \in Answered(sends, overwritten')
    <3>1. messages \in Answered(sends, overwritten)
      BY <2>1 DEF IInv, PageSide, PageOK
    <3> QED
      BY <1>5, <1>6, <1>10, <3>1 DEF Answered
  <2>2. sends' = sends /\ gen' = gen
    BY <1>1 DEF chatVars
  <2> QED
    BY <1>1, <1>7, <1>9, <2>1, <2>2 DEF PageOK
<1>16. SaveOK'
  BY <1>7 DEF SaveOK
<1>17. TidyOK'
  <2> SUFFICES ASSUME ~overwritten'
               PROVE  Tidy(list) /\ Tidy(stored) /\ (~shown' => Settled(list))
    BY <1>1, <1>7 DEF TidyOK
  <2>1. queue = <<>> /\ Tidy(messages) /\ Tidy(stored) /\ (~shown => Settled(messages))
    BY <1>1, <1>10 DEF IInv, PageSide, TidyOK
  <2>2. shown => requesting
    BY <2>1 DEF IInv, PageSide, PageOK
  <2> QED
    BY <1>6, <1>9, <2>1, <2>2
<1>18. ReqSide'
  BY <1>1, ActsType, ReqSideKept DEF IInv
<1> QED
  BY <1>11, <1>12, <1>13, <1>14, <1>15, <1>16, <1>17, <1>18 DEF IInv, PageSide

\* A new generation without a request: what was running can write no more.
LEMMA CancelStep ==
  ASSUME ReqSide, req' = CloseSource(source), gen' = gen + 1, ctl' = ctl + 1, source' = 0,
         streaming' = FALSE, sends' = sends, acts' \in 0..MaxActs
  PROVE  ReqSide'
<1>1. gen \in Nat /\ ctl = gen /\ ReqOK
  BY DEF ReqSide, Counts
<1>2. Counts'
  BY <1>1 DEF ReqSide, Counts
<1>3. DOMAIN req' = Send
  BY DEF CloseSource
<1>4. ASSUME NEW k \in Send
      PROVE  /\ req'[k] \in ReqType(k) /\ req'[k].gen = req'[k].ctl /\ req'[k].gen <= gen
             /\ req'[k].pc # "open"
  <2>1. req[k].gen = req[k].ctl /\ req[k].gen <= gen
    BY <1>1 DEF ReqOK
  <2> QED
    BY <1>1, <2>1, CloseSourceKeeps DEF ReqKeeps
<1>5. ASSUME NEW k \in Send PROVE req'[k].gen <= gen' /\ ~Live(k)'
  <2>1. req'[k].gen \in Nat
    BY <1>4 DEF ReqType
  <2> QED
    BY <1>1, <1>4, <2>1 DEF Live
<1>6. ReqOK'
  BY <1>3, <1>4, <1>5 DEF ReqOK
<1>7. SourceOK'
  BY DEF SourceOK
<1> QED
  BY <1>2, <1>6, <1>7 DEF ReqSide

\* stopGeneration: the update it appends closes the answer, whatever was queued.
LEMMA StopStep ==
  ASSUME IInv, StopGeneration
  PROVE  IInv'
<1>1. /\ mounted /\ shown /\ Spend /\ gen' = gen + 1 /\ ctl' = ctl + 1 /\ source' = 0
      /\ req' = CloseSource(source) /\ requesting' = FALSE /\ streaming' = FALSE
      /\ pending' = [gen |-> gen + 1, text |-> NoText] /\ timer' = NoTimer
      /\ UNCHANGED <<sends, editing, stored, refused, mounted, overwritten>>
  BY DEF StopGeneration, DiscardPending
<1> DEFINE u == Update("stop", gen + 1, NoText)
<1>2. PICK q \in FlushQueues(gen) : Rendered(Drain(Append(q, u), gen + 1))
  BY DEF StopGeneration
<1> DEFINE p == Append(q, u)
           list == Drain(p, gen + 1)
<1>3. /\ gen \in Nat /\ overwritten \in BOOLEAN /\ queue \in Seq(Queued(gen, sends, overwritten))
      /\ messages \in Answered(sends, overwritten) /\ pending \in [gen: Nat, text: OwnText(sends)]
  BY <1>1 DEF IInv, PageSide, ReqSide, Counts, Flags, QueueOK, PageOK, PendingOK
<1>4. q \in Seq(Queued(gen, sends, overwritten))
  BY <1>3, FlushQueued
<1>5. u \in Upd(sends, overwritten) /\ Terminal(u, gen + 1)
  <2>1. "stop" \in Kinds \ {"value"} /\ "stop" \in Closing /\ gen + 1 \in Nat
    BY <1>3 DEF Kinds, Closing
  <2>2. NoText \in OwnText(sends)
    BY NoTextOwn
  <2> QED
    BY <2>1, <2>2, UpdateUpd
<1> HIDE DEF u
<1>6. p \in Seq(Upd(sends, overwritten)) /\ p # <<>> /\ p[Len(p)] = u
  <2> DEFINE S == Upd(sends, overwritten)
  <2>1. Queued(gen, sends, overwritten) \subseteq S
    BY DEF Queued
  <2>2. u \in S
    BY <1>5
  <2> HIDE DEF S
  <2>3. q \in Seq(S)
    BY <1>4, <2>1, SeqMonotonic
  <2>4. p \in Seq(S) /\ p # <<>> /\ p[Len(p)] = u
    BY <2>2, <2>3
  <2> QED
    BY <2>4 DEF S
<1> HIDE DEF p
<1>7. list \in Answered(sends, overwritten) /\ (overwritten \/ Settled(list))
  <2>1. gen + 1 \in Nat
    BY <1>3
  <2> QED
    BY <1>3, <1>5, <1>6, <2>1, DrainAnswered
<1>8. Rendered(list)
  BY <1>2 DEF p
<1> HIDE DEF list
<1>9. /\ messages' = list /\ queue' = <<>> /\ latest' = list /\ saveTimer' = TRUE
      /\ shown' = (requesting' \/ streaming')
  BY <1>8 DEF Rendered
<1>10. shown' = FALSE
  BY <1>1, <1>9
<1>11. list \in Seq(OwnMessage) /\ (overwritten \/ Tidy(list))
  BY <1>7 DEF Answered
<1>12. Lists'
  BY <1>1, <1>9, <1>11 DEF IInv, PageSide, Lists
<1>13. Flags'
  BY <1>1, <1>9, <1>10 DEF IInv, PageSide, Flags
<1>14. TimerOK'
  BY <1>1, NoTimerType DEF TimerOK
<1>15. PendingOK'
  <2>1. gen + 1 \in Nat
    BY <1>3
  <2>2. pending' \in [gen: Nat, text: OwnText(sends')] /\ ~HasText(pending'.text) /\ pending'.gen = gen'
    BY <1>1, <2>1, NoTextPending
  <2> QED
    BY <2>2 DEF PendingOK
<1>16. QueueOK'
  BY <1>9, EmptyText DEF QueueOK
<1>17. PageOK'
  BY <1>1, <1>10 DEF PageOK
<1>18. SaveOK'
  BY <1>9 DEF SaveOK
<1>19. TidyOK'
  BY <1>1, <1>7, <1>9, <1>11 DEF IInv, PageSide, TidyOK
<1>20. ReqSide'
  BY <1>1, SpendType, ActsType, CancelStep DEF IInv
<1> QED
  BY <1>12, <1>13, <1>14, <1>15, <1>16, <1>17, <1>18, <1>19, <1>20 DEF IInv, PageSide

-----------------------------------------------------------------------------
(* The steps of the answer.                                                *)

\* Updates are queued for the answer on the page, and saved early or not.
LEMMA QueueStep ==
  ASSUME IInv, shown, queue' \in Seq(Queued(gen, sends, overwritten)), queue' # <<>>,
         Persist(queue'), UNCHANGED pageVars, UNCHANGED <<gen, sends>>
  PROVE  /\ Lists' /\ QueueOK' /\ SaveOK' /\ TidyOK' /\ saveTimer' \in BOOLEAN
         /\ UNCHANGED <<messages, shown, editing, stored, refused, mounted, overwritten>>
<1>1. UNCHANGED <<messages, shown, editing, stored, refused, mounted, overwritten>>
  BY DEF pageVars
<1>2. Lists /\ Flags /\ TidyOK
  BY DEF IInv, PageSide
<1>3. \/ latest' = latest /\ saveTimer' = saveTimer
      \/ queue'[1].kind = "value" /\ latest' = queue'[1].list /\ saveTimer' = TRUE
  BY DEF Persist
<1>4. queue'[1] \in Queued(gen, sends, overwritten)
  <2> DEFINE S == Queued(gen, sends, overwritten)
  <2>1. queue' \in Seq(S) /\ queue' # <<>>
    OBVIOUS
  <2> HIDE DEF S
  <2>2. queue'[1] \in S
    BY <2>1
  <2> QED
    BY <2>2 DEF S
<1>5. queue'[1].kind = "value" =>
        queue'[1].list \in Seq(OwnMessage) /\ (overwritten \/ Tidy(queue'[1].list))
  BY <1>4 DEF Queued, Upd, Answered
<1>6. Lists'
  BY <1>1, <1>2, <1>3, <1>5 DEF Lists
<1>7. QueueOK'
  BY <1>1 DEF QueueOK
<1>8. SaveOK'
  BY DEF SaveOK
<1>9. TidyOK'
  BY <1>1, <1>2, <1>3, <1>5 DEF TidyOK
<1>10. saveTimer' \in BOOLEAN
  BY <1>2, <1>3 DEF Flags
<1> QED
  BY <1>1, <1>6, <1>7, <1>8, <1>9, <1>10

\* handleStreamComplete and handleStreamError of the request that is on the page.
LEMMA FinishStep ==
  ASSUME IInv, requesting, mounted, NEW kind \in {"complete", "error"}, Finish(gen, kind),
         UNCHANGED pageVars, UNCHANGED <<gen, sends>>, streaming' \in BOOLEAN
  PROVE  PageSide' /\ ~requesting'
<1>1. /\ timer' = NoTimer /\ pending' = [pending EXCEPT !.text = NoText] /\ requesting' = FALSE
  BY DEF Finish
<1>2. PICK q \in FlushQueues(gen) : queue' \in Enqueue(q, Update(kind, gen, NoText)) /\ Persist(queue')
  BY DEF Finish
<1>3. /\ shown /\ messages \in Answered(sends, overwritten)
      /\ gen \in Nat /\ overwritten \in BOOLEAN /\ queue \in Seq(Queued(gen, sends, overwritten))
      /\ pending \in [gen: Nat, text: OwnText(sends)] /\ pending.gen = gen
  BY DEF IInv, PageSide, ReqSide, Counts, Flags, QueueOK, PageOK, PendingOK
<1>4. q \in Seq(Queued(gen, sends, overwritten))
  BY <1>3, FlushQueued
<1>5. /\ queue' \in Seq(Queued(gen, sends, overwritten)) /\ queue' # <<>>
      /\ Terminal(queue'[Len(queue')], gen)
  <2> DEFINE u == Update(kind, gen, NoText)
  <2>1. NoText \in OwnText(sends)
    BY NoTextOwn
  <2>2. kind \in Kinds \ {"value"} /\ kind # "stop" /\ kind \in Closing
    BY DEF Kinds, Closing
  <2>3. u \in Queued(gen, sends, overwritten) /\ Terminal(u, gen)
    BY <1>3, <2>1, <2>2, UpdateUpd
  <2>4. queue' \in Enqueue(q, u)
    BY <1>2
  <2> HIDE DEF u
  <2> QED
    BY <1>3, <1>4, <2>3, <2>4, EnqueueQueued
<1>6. /\ Lists' /\ QueueOK' /\ SaveOK' /\ TidyOK' /\ saveTimer' \in BOOLEAN
      /\ UNCHANGED <<messages, shown, editing, stored, refused, mounted, overwritten>>
  BY <1>2, <1>3, <1>5, QueueStep
<1>7. Flags'
  BY <1>1, <1>6 DEF IInv, PageSide, Flags
<1>8. TimerOK'
  BY <1>1, NoTimerType DEF TimerOK
<1>9. PendingOK'
  <2>1. NoText \in OwnText(sends) /\ ~HasText(NoText)
    BY NoTextOwn
  <2> HIDE DEF NoText
  <2>2. pending' \in [gen: Nat, text: OwnText(sends)] /\ ~HasText(pending'.text) /\ pending'.gen = gen
    BY <1>1, <1>3, <2>1
  <2> QED
    BY <2>2 DEF PendingOK
<1>10. PageOK'
  BY <1>1, <1>3, <1>5, <1>6 DEF PageOK
<1> QED
  BY <1>1, <1>6, <1>7, <1>8, <1>9, <1>10 DEF PageSide

\* One request, k, becomes r; the others stay.
Moves(k, r) == /\ DOMAIN req' = Send /\ req'[k] = r
               /\ \A j \in Send : j # k => req'[j] = req[j]
               /\ ReqKeeps(req[k], r, k)

\* What a request keeps when one of them moves.
LEMMA MovesReq ==
  ASSUME ReqSide, NEW k \in Send, NEW r, Moves(k, r), UNCHANGED gen
  PROVE  /\ DOMAIN req' = Send
         /\ \A j \in Send : /\ req'[j] \in ReqType(j) /\ req'[j].gen = req'[j].ctl
                            /\ req'[j].gen <= gen' /\ req'[j].gen = req[j].gen
<1>1. ReqOK
  BY DEF ReqSide
<1>2. req[k].gen = req[k].ctl /\ req[k].gen <= gen
  BY <1>1 DEF ReqOK
<1>3. r \in ReqType(k) /\ r.gen = req[k].gen /\ r.ctl = req[k].ctl
  BY DEF Moves, ReqKeeps
<1>4. ASSUME NEW j \in Send
      PROVE  /\ req'[j] \in ReqType(j) /\ req'[j].gen = req'[j].ctl
             /\ req'[j].gen <= gen' /\ req'[j].gen = req[j].gen
  <2>1. CASE j = k
    BY <1>2, <1>3, <2>1 DEF Moves
  <2>2. CASE j # k
    BY <1>1, <2>2 DEF ReqOK, Moves
  <2> QED
    BY <2>1, <2>2
<1> QED
  BY <1>4 DEF Moves

\* A request moves on and nothing else of the controller changes.
LEMMA MoveStep ==
  ASSUME ReqSide, NEW k \in Send, NEW r, Moves(k, r),
         \/ r.pc = req[k].pc
         \/ r.pc = "closed" /\ req[k].pc \in {"open", "closed"}
         \/ r.pc = "over" /\ req[k].pc \in {"headers", "posted"},
         UNCHANGED <<gen, ctl, sends, mounted, requesting, source, streaming>>,
         acts' \in 0..MaxActs
  PROVE  ReqSide'
<1>1. Counts'
  BY DEF ReqSide, Counts
<1>2. Counts /\ ReqOK /\ SourceOK
  BY DEF ReqSide
<1>3. /\ DOMAIN req' = Send
      /\ \A j \in Send : /\ req'[j] \in ReqType(j) /\ req'[j].gen = req'[j].ctl
                         /\ req'[j].gen <= gen' /\ req'[j].gen = req[j].gen
  BY MovesReq
<1>4. ASSUME NEW j \in Send
      PROVE  /\ req'[j].pc \in {"headers", "posted"} => req[j].pc = req'[j].pc
             /\ req'[j].pc = "open" => req[j].pc = "open"
             /\ req[j].pc \in {"open", "closed"} => req'[j].pc \in {"open", "closed"}
  BY DEF Moves
<1>5. ReqOK'
  <2> SUFFICES ASSUME NEW j \in Send
               PROVE  /\ Live(j)' => j = sends /\ requesting /\ mounted /\ source = 0
                      /\ req'[j].pc = "open" => source = j
    BY <1>3 DEF ReqOK
  <2>1. Live(j)' => Live(j)
    BY <1>3, <1>4 DEF Live
  <2> QED
    BY <1>2, <1>4, <2>1 DEF ReqOK
<1>6. SourceOK'
  <2>1. ASSUME source # 0
        PROVE  /\ source = sends /\ mounted /\ requesting
               /\ req'[source].gen = gen /\ req'[source].pc \in {"open", "closed"}
    <3>1. source \in Send
      BY <1>2, <2>1 DEF Counts
    <3> QED
      BY <1>2, <1>3, <1>4, <2>1, <3>1 DEF SourceOK
  <2> QED
    BY <1>2, <2>1 DEF SourceOK
<1> QED
  BY <1>1, <1>5, <1>6 DEF ReqSide

\* The last send ends.
LEMMA EndStep ==
  ASSUME ReqSide, NEW k \in Send, NEW r, Moves(k, r), k = sends, r.pc \in {"closed", "over"},
         source \in {0, k}, source' = 0, ~streaming',
         UNCHANGED <<gen, ctl, sends, mounted>>, acts' \in 0..MaxActs
  PROVE  ReqSide'
<1>1. Counts'
  BY DEF ReqSide, Counts
<1>2. Counts /\ ReqOK /\ SourceOK
  BY DEF ReqSide
<1>3. /\ DOMAIN req' = Send
      /\ \A j \in Send : /\ req'[j] \in ReqType(j) /\ req'[j].gen = req'[j].ctl
                         /\ req'[j].gen <= gen' /\ req'[j].gen = req[j].gen
  BY MovesReq
<1>4. ASSUME NEW j \in Send PROVE ~Live(j)' /\ req'[j].pc # "open"
  <2>1. CASE j = k
    BY <2>1 DEF Moves, Live
  <2>2. CASE j # k
    <3>1. req'[j] = req[j]
      BY <2>2 DEF Moves
    <3>2. ~Live(j) /\ req[j].pc # "open"
      BY <1>2, <2>2 DEF ReqOK, Send
    <3> QED
      BY <3>1, <3>2 DEF Live
  <2> QED
    BY <2>1, <2>2
<1>5. ReqOK'
  BY <1>3, <1>4 DEF ReqOK
<1>6. SourceOK'
  BY DEF SourceOK
<1> QED
  BY <1>1, <1>5, <1>6 DEF ReqSide

\* Nothing that the page shows changes.
LEMMA PageKept ==
  ASSUME IInv, UNCHANGED <<pageVars, queue, requesting, gen, pending, timer, sends,
                           latest, saveTimer>>,
         streaming' \in BOOLEAN, source # 0 => source' # 0
  PROVE  PageSide'
<1>1. Lists' /\ Flags' /\ QueueOK' /\ PageOK' /\ SaveOK' /\ TidyOK'
  BY DEF IInv, PageSide, Lists, Flags, QueueOK, PageOK, SaveOK, TidyOK, pageVars
<1>2. TimerOK' /\ PendingOK'
  BY DEF IInv, PageSide, TimerOK, PendingOK, pageVars
<1> QED
  BY <1>1, <1>2 DEF PageSide

\* The requests have their type.
LEMMA ReqTyped ==
  ASSUME IInv, NEW k \in Send
  PROVE  /\ req[k] \in ReqType(k) /\ DOMAIN req = Send
         /\ "closed" \in Pcs /\ "over" \in Pcs /\ "open" \in Pcs
  BY DEF IInv, ReqSide, ReqOK, Pcs

\* A request whose headers are ready or whose answer is there.
LEMMA OverMoves ==
  ASSUME IInv, NEW k \in Send, req' = [req EXCEPT ![k].pc = "over"]
  PROVE  \E r : Moves(k, r) /\ r.pc = "over"
<1> DEFINE r == [req[k] EXCEPT !.pc = "over"]
<1>1. ReqKeeps(req[k], r, k) /\ r.pc = "over"
  BY ReqTyped, SetPc
<1>2. DOMAIN req' = Send /\ req'[k] = r /\ \A j \in Send : j # k => req'[j] = req[j]
  BY ReqTyped
<1> HIDE DEF r
<1>3. Moves(k, r)
  BY <1>1, <1>2 DEF Moves
<1> QED
  BY <1>1, <1>3

\* A stream that is closed, by an event or by the connection.
LEMMA ClosedMoves ==
  ASSUME IInv, NEW k \in Send,
         req' = [req EXCEPT ![k].pc = "closed", ![k].completed = TRUE]
           \/ req' = [req EXCEPT ![k].pc = "closed", ![k].cut = TRUE]
  PROVE  \E r : Moves(k, r) /\ r.pc = "closed"
<1> DEFINE x == req[k]
           r == [x EXCEPT !.pc = "closed", !.completed = TRUE]
           s == [x EXCEPT !.pc = "closed", !.cut = TRUE]
<1>0. x \in ReqType(k)
  BY ReqTyped
<1> HIDE DEF x
<1>1. ReqKeeps(x, r, k) /\ r.pc = "closed"
  BY <1>0 DEF ReqType, ReqKeeps, Pcs
<1>2. ReqKeeps(x, s, k) /\ s.pc = "closed"
  BY <1>0 DEF ReqType, ReqKeeps, Pcs
<1>3. CASE req' = [req EXCEPT ![k].pc = "closed", ![k].completed = TRUE]
  <2>1. DOMAIN req' = Send /\ req'[k] = r /\ \A j \in Send : j # k => req'[j] = req[j]
    BY <1>3, ReqTyped DEF x
  <2> HIDE DEF r
  <2>2. Moves(k, r)
    BY <1>1, <2>1 DEF Moves, x
  <2> QED
    BY <1>1, <2>2
<1>4. CASE req' = [req EXCEPT ![k].pc = "closed", ![k].cut = TRUE]
  <2>1. DOMAIN req' = Send /\ req'[k] = s /\ \A j \in Send : j # k => req'[j] = req[j]
    BY <1>4, ReqTyped DEF x
  <2> HIDE DEF s
  <2>2. Moves(k, s)
    BY <1>2, <2>1 DEF Moves, x
  <2> QED
    BY <1>2, <2>2
<1> QED
  BY <1>3, <1>4

\* The parts of the invariant.
LEMMA Unpacked ==
  ASSUME IInv
  PROVE  ReqSide /\ Counts /\ ReqOK /\ SourceOK /\ PageSide /\ Flags
  BY DEF IInv, ReqSide, PageSide

\* The headers arrive: only the last send may open its stream.
LEMMA HeadersReadyStep ==
  ASSUME IInv, NEW k \in Send, HeadersReady(k)
  PROVE  IInv'
<1>1. /\ req[k].pc = "headers"
      /\ UNCHANGED <<pageVars, queue, requesting, gen, pending, timer, ctl, sends,
                     latest, saveTimer, acts>>
  BY DEF HeadersReady
<1>2. UNCHANGED mounted /\ acts' \in 0..MaxActs
  BY <1>1, ActsType DEF pageVars
<1>3. CASE req[k].ctl # ctl
  <2>1. req' = [req EXCEPT ![k].pc = "over"] /\ UNCHANGED <<source, streaming>>
    BY <1>3 DEF HeadersReady
  <2>2. PICK r : Moves(k, r) /\ r.pc = "over"
    BY <2>1, OverMoves
  <2>3. ReqSide'
    BY <1>1, <1>2, <2>1, <2>2, Unpacked, MoveStep
  <2>4. PageSide'
    BY <1>1, <2>1, Unpacked, PageKept DEF Flags
  <2> QED
    BY <2>3, <2>4 DEF IInv
<1>4. CASE req[k].ctl = ctl
  <2> DEFINE r == [req[k] EXCEPT !.pc = "open"]
  <2>1. source' = k /\ streaming' = TRUE /\ req' = [req EXCEPT ![k].pc = "open"]
    BY <1>4 DEF HeadersReady
  <2>2. Counts /\ ReqOK /\ SourceOK
    BY Unpacked
  <2>3. Live(k) /\ k = sends /\ requesting /\ mounted /\ source = 0
    BY <1>1, <1>4, <2>2 DEF ReqOK, Live, Counts
  <2>4. ReqKeeps(req[k], r, k) /\ r.pc = "open"
    BY ReqTyped, SetPc
  <2>5. DOMAIN req' = Send /\ req'[k] = r /\ \A j \in Send : j # k => req'[j] = req[j]
    BY <2>1, ReqTyped
  <2> HIDE DEF r
  <2>6. Moves(k, r)
    BY <2>4, <2>5 DEF Moves
  <2>7. /\ DOMAIN req' = Send
        /\ \A j \in Send : /\ req'[j] \in ReqType(j) /\ req'[j].gen = req'[j].ctl
                           /\ req'[j].gen <= gen' /\ req'[j].gen = req[j].gen
    BY <1>1, <2>6, Unpacked, MovesReq
  <2>8. ASSUME NEW j \in Send PROVE ~Live(j)' /\ (req'[j].pc = "open" => j = k)
    <3>1. CASE j = k
      BY <2>4, <2>5, <3>1 DEF Live
    <3>2. CASE j # k
      <4>1. req'[j] = req[j] /\ ~Live(j) /\ req[j].pc # "open"
        BY <2>2, <2>3, <2>5, <3>2 DEF ReqOK, Send
      <4> QED
        BY <1>1, <4>1 DEF Live
    <3> QED
      BY <3>1, <3>2
  <2>9. ReqOK'
    BY <2>1, <2>7, <2>8 DEF ReqOK
  <2>10. SourceOK'
    <3>1. req'[k].gen = gen' /\ req'[k].pc = "open"
      BY <1>1, <2>3, <2>4, <2>5, <2>7 DEF Live
    <3>2. k # 0
      BY DEF Send
    <3> QED
      BY <1>1, <1>2, <2>1, <2>3, <3>1, <3>2 DEF SourceOK
  <2>11. Counts'
    BY <1>1, <2>1, <2>2 DEF Counts
  <2>12. PageSide'
    <3>1. k # 0
      BY DEF Send
    <3> QED
      BY <1>1, <2>1, <3>1, PageKept
  <2> QED
    BY <2>9, <2>10, <2>11, <2>12 DEF IInv, ReqSide
<1> QED
  BY <1>3, <1>4

\* The request on the page: its generation is the one that runs.
LEMMA LiveRequest ==
  ASSUME IInv, NEW k \in Send,
         \/ req[k].pc \in {"headers", "posted"} /\ (req[k].ctl = ctl \/ req[k].gen = gen)
         \/ source = k
  PROVE  req[k].gen = gen /\ k = sends /\ requesting /\ mounted /\ source \in {0, k}
<1>1. Counts /\ ReqOK /\ SourceOK
  BY Unpacked
<1>2. CASE req[k].pc \in {"headers", "posted"} /\ (req[k].ctl = ctl \/ req[k].gen = gen)
  BY <1>1, <1>2 DEF Counts, ReqOK, Live
<1>3. CASE source = k
  BY <1>1, <1>3 DEF SourceOK, Send
<1> QED
  BY <1>2, <1>3

\* The headers cannot be fetched.
LEMMA HeadersFailedStep ==
  ASSUME IInv, NEW k \in Send, HeadersFailed(k)
  PROVE  IInv'
<1>1. /\ req[k].pc = "headers" /\ req' = [req EXCEPT ![k].pc = "over"] /\ Spend
      /\ UNCHANGED <<pageVars, streaming, gen, ctl, source, sends>>
  BY DEF HeadersFailed
<1>2. UNCHANGED mounted /\ acts' \in 0..MaxActs
  BY <1>1, ActsType, SpendType DEF pageVars
<1>3. PICK r : Moves(k, r) /\ r.pc = "over"
  BY <1>1, OverMoves
<1>4. CASE req[k].ctl # ctl
  <2>1. UNCHANGED <<pending, timer, queue, requesting, latest, saveTimer>>
    BY <1>4 DEF HeadersFailed
  <2>2. ReqSide'
    BY <1>1, <1>2, <1>3, <2>1, Unpacked, MoveStep
  <2>3. PageSide'
    BY <1>1, <2>1, Unpacked, PageKept DEF Flags
  <2> QED
    BY <2>2, <2>3 DEF IInv
<1>5. CASE req[k].ctl = ctl
  <2>1. req[k].gen = gen /\ k = sends /\ requesting /\ mounted
    BY <1>1, <1>5, LiveRequest
  <2>2. source = 0 /\ ~streaming
    BY <1>1, <2>1, Unpacked DEF ReqOK, Live, SourceOK
  <2>3. Finish(gen, "error")
    BY <1>5, <2>1 DEF HeadersFailed
  <2>4. PageSide'
    BY <1>1, <2>1, <2>3, Unpacked, FinishStep DEF Flags
  <2>5. ReqSide'
    BY <1>1, <1>2, <1>3, <2>1, <2>2, Unpacked, EndStep
  <2> QED
    BY <2>4, <2>5 DEF IInv
<1> QED
  BY <1>4, <1>5

\* [DONE], or an error of the stream.
LEMMA EndsStep ==
  ASSUME IInv, NEW k \in Send, NEW kind \in {"complete", "error"}, StreamEnds(k, kind),
         Listening(k), acts' \in 0..MaxActs
  PROVE  IInv'
<1>1. UNCHANGED <<pageVars, gen, ctl, sends>> /\ UNCHANGED mounted
  BY DEF StreamEnds, pageVars
<1>2. req' = [req EXCEPT ![k].pc = "closed", ![k].completed = TRUE]
  BY DEF StreamEnds, CloseActiveSource
<1>3. PICK r : Moves(k, r) /\ r.pc = "closed"
  BY <1>2, ClosedMoves
<1>4. CASE Handled(k)
  <2>1. source = k /\ CloseActiveSource(k) /\ Finish(req[k].gen, kind)
    BY <1>4 DEF StreamEnds, Handled
  <2>2. req[k].gen = gen /\ k = sends /\ requesting /\ mounted
    BY <2>1, LiveRequest
  <2>3. source' = 0 /\ streaming' = FALSE
    BY <2>1 DEF CloseActiveSource
  <2>4. PageSide'
    BY <1>1, <2>1, <2>2, <2>3, FinishStep
  <2>5. ReqSide'
    BY <1>1, <1>3, <2>1, <2>2, <2>3, Unpacked, EndStep
  <2> QED
    BY <2>4, <2>5 DEF IInv
<1>5. CASE ~Handled(k)
  <2>1. UNCHANGED <<source, streaming, pending, timer, queue, requesting, latest, saveTimer>>
    BY <1>5 DEF StreamEnds
  <2>2. req[k].pc \in {"open", "closed"}
    BY DEF Listening
  <2>3. ReqSide'
    BY <1>1, <1>3, <2>1, <2>2, Unpacked, MoveStep
  <2>4. PageSide'
    BY <1>1, <2>1, Unpacked, PageKept DEF Flags
  <2> QED
    BY <2>3, <2>4 DEF IInv
<1> QED
  BY <1>4, <1>5

\* The [DONE] message.
LEMMA StreamDoneStep ==
  ASSUME IInv, NEW k \in Send, StreamDone(k)
  PROVE  IInv'
<1>1. StreamEnds(k, "complete") /\ Listening(k) /\ acts' \in 0..MaxActs
  BY ActsType DEF StreamDone
<1> QED
  BY <1>1, EndsStep

\* An error event.
LEMMA StreamFailedStep ==
  ASSUME IInv, NEW k \in Send, StreamFailed(k)
  PROVE  IInv'
<1>1. StreamEnds(k, "error") /\ Listening(k) /\ Spend
  BY DEF StreamFailed
<1> QED
  BY <1>1, ActsType, SpendType, EndsStep

\* The connection ends before [DONE].
LEMMA StreamCutStep ==
  ASSUME IInv, NEW k \in Send, StreamCut(k)
  PROVE  IInv'
<1>1. /\ req[k].pc = "open" /\ req' = [req EXCEPT ![k].pc = "closed", ![k].cut = TRUE] /\ Spend
      /\ UNCHANGED <<pageVars, queue, requesting, streaming, gen, pending, timer, ctl,
                     source, sends, latest, saveTimer>>
  BY DEF StreamCut
<1>2. UNCHANGED mounted /\ acts' \in 0..MaxActs
  BY <1>1, ActsType, SpendType DEF pageVars
<1>3. PICK r : Moves(k, r) /\ r.pc = "closed"
  BY <1>1, ClosedMoves
<1>4. ReqSide'
  BY <1>1, <1>2, <1>3, Unpacked, MoveStep
<1>5. PageSide'
  BY <1>1, Unpacked, PageKept DEF Flags
<1> QED
  BY <1>4, <1>5 DEF IInv

\* A chunk is buffered only for the stream that is open, which is the last send's.
LEMMA StreamChunkStep ==
  ASSUME IInv, NEW k \in Send, StreamChunk(k)
  PROVE  IInv'
<1> DEFINE c == req[k].script[req[k].sent + 1]
<1>1. /\ Listening(k) /\ req[k].sent < Len(req[k].script)
      /\ req' = [req EXCEPT ![k].sent = @ + 1]
      /\ UNCHANGED <<pageVars, queue, requesting, streaming, gen, ctl, source, sends,
                     latest, saveTimer, acts>>
  BY DEF StreamChunk
<1>2. UNCHANGED mounted /\ acts' \in 0..MaxActs
  BY <1>1, ActsType DEF pageVars
<1>3. \E r : Moves(k, r) /\ r.pc = req[k].pc
  <2> DEFINE r == [req[k] EXCEPT !.sent = @ + 1]
  <2>1. ReqKeeps(req[k], r, k) /\ r.pc = req[k].pc
    BY ReqTyped, AddSent
  <2>2. DOMAIN req' = Send /\ req'[k] = r /\ \A j \in Send : j # k => req'[j] = req[j]
    BY <1>1, ReqTyped
  <2> HIDE DEF r
  <2>3. Moves(k, r)
    BY <2>1, <2>2 DEF Moves
  <2> QED
    BY <2>1, <2>3
<1>4. ReqSide'
  <2>1. PICK r : Moves(k, r) /\ r.pc = req[k].pc
    BY <1>3
  <2> QED
    BY <1>1, <1>2, <2>1, Unpacked, MoveStep
<1>5. CASE ~(Handled(k) /\ req[k].gen = gen /\ pending.gen = gen)
  <2>1. UNCHANGED <<pending, timer>>
    BY <1>5 DEF StreamChunk
  <2>2. PageSide'
    BY <1>1, <2>1, Unpacked, PageKept DEF Flags
  <2> QED
    BY <1>4, <2>2 DEF IInv
<1>6. CASE Handled(k) /\ req[k].gen = gen /\ pending.gen = gen
  <2>1. /\ pending' = [pending EXCEPT !.text[c.type] = MergePendingStreamChunk(@, Tokens(k, c.text))]
        /\ timer' = IF timer.gen = 0 THEN [gen |-> gen, armed |-> TRUE] ELSE timer
    BY <1>6 DEF StreamChunk
  <2>2. source = k /\ source # 0
    BY <1>6 DEF Handled, Send
  <2>3. k = sends /\ mounted /\ requesting
    BY <2>2, LiveRequest
  <2>4. c \in Chunk
    <3>1. req[k].script \in Seq(Chunk) /\ req[k].sent \in Nat
      BY ReqTyped DEF ReqType
    <3> QED
      BY <1>1, <3>1
  <2> HIDE DEF c
  <2>5. c.type \in {"content", "reasoning"} /\ c.text \in Seq(Alphabet)
    BY <2>4 DEF Chunk
  <2>6. Tokens(k, c.text) \in Seq(Tok(k))
    BY <2>5, TokensOwn
  <2>7. pending' \in [gen: Nat, text: OwnText(sends)] /\ pending'.gen = pending.gen
    <3> DEFINE t == Tokens(k, c.text)
               S == Tok(k)
               type == c.type
    <3>1. pending \in [gen: Nat, text: [content: Seq(S), reasoning: Seq(S)]]
      BY <2>3, Unpacked DEF PageSide, PendingOK, OwnText
    <3>2. t \in Seq(S) /\ type \in {"content", "reasoning"}
      BY <2>5, <2>6
    <3> HIDE DEF S, t, type
    <3>3. pending.text[type] \in Seq(S)
      BY <3>1, <3>2
    <3>4. MergePendingStreamChunk(pending.text[type], t) \in Seq(S)
      BY <3>2, <3>3, MergeType
    <3> DEFINE v == MergePendingStreamChunk(pending.text[type], t)
    <3>5. pending' = [pending EXCEPT !.text[type] = v]
      BY <2>1 DEF t, type
    <3> HIDE DEF v
    <3>6. pending' \in [gen: Nat, text: [content: Seq(S), reasoning: Seq(S)]] /\ pending'.gen = pending.gen
      BY <3>1, <3>2, <3>4, <3>5 DEF v
    <3> QED
      BY <2>3, <3>6 DEF OwnText, S
  <2>8. PendingOK'
    BY <1>1, <1>6, <2>2, <2>7 DEF PendingOK
  <2>9. TimerOK'
    <3>1. timer \in [gen: Nat, armed: BOOLEAN] /\ gen \in Nat
      BY Unpacked DEF PageSide, TimerOK, Counts
    <3>2. timer' \in [gen: Nat, armed: BOOLEAN]
      BY <2>1, <3>1
    <3> QED
      BY <1>2, <2>3, <3>2 DEF TimerOK
  <2>10. Lists' /\ Flags' /\ QueueOK' /\ PageOK' /\ SaveOK' /\ TidyOK'
    BY <1>1 DEF IInv, PageSide, Lists, Flags, QueueOK, PageOK, SaveOK, TidyOK, pageVars
  <2> QED
    BY <1>4, <2>8, <2>9, <2>10 DEF IInv, PageSide
<1> QED
  BY <1>5, <1>6

\* The response of a request without a stream.
LEMMA ResponseStep ==
  ASSUME IInv, NEW k \in Send, NEW kind \in {"response", "error"}, Response(k, kind),
         acts' \in 0..MaxActs
  PROVE  IInv'
<1>1. /\ req[k].pc = "posted" /\ req' = [req EXCEPT ![k].pc = "over"]
      /\ UNCHANGED <<pageVars, streaming, gen, ctl, source, sends>>
  BY DEF Response
<1>2. UNCHANGED <<messages, shown, editing, stored, refused, mounted, overwritten>>
  BY <1>1 DEF pageVars
<1>3. PICK r : Moves(k, r) /\ r.pc = "over"
  BY <1>1, OverMoves
<1>4. CASE req[k].gen # gen
  <2>1. UNCHANGED <<pending, timer, queue, requesting, latest, saveTimer>>
    BY <1>4 DEF Response
  <2>2. ReqSide'
    BY <1>1, <1>2, <1>3, <2>1, Unpacked, MoveStep
  <2>3. PageSide'
    BY <1>1, <2>1, Unpacked, PageKept DEF Flags
  <2> QED
    BY <2>2, <2>3 DEF IInv
<1>5. CASE req[k].gen = gen
  <2>1. k = sends /\ requesting /\ mounted
    BY <1>1, <1>5, LiveRequest
  <2>2. source = 0 /\ ~streaming
    BY <1>1, <1>5, Unpacked DEF ReqOK, Live, SourceOK
  <2>3. ReqSide'
    BY <1>1, <1>2, <1>3, <2>1, <2>2, Unpacked, EndStep
  <2>4. CASE kind = "error"
    <3>1. Finish(gen, "error")
      BY <1>5, <2>4 DEF Response
    <3>2. PageSide'
      BY <1>1, <2>1, <3>1, Unpacked, FinishStep DEF Flags
    <3> QED
      BY <2>3, <3>2 DEF IInv
  <2>5. CASE kind = "response"
    <3> DEFINE u == Update("response", gen, req[k].answer)
    <3>1. /\ queue' \in Enqueue(queue, u) /\ Persist(queue') /\ requesting' = FALSE
          /\ UNCHANGED <<pending, timer>>
      BY <1>5, <2>5 DEF Response
    <3>2. /\ shown /\ messages \in Answered(sends, overwritten)
          /\ gen \in Nat /\ overwritten \in BOOLEAN /\ queue \in Seq(Queued(gen, sends, overwritten))
      BY <2>1 DEF IInv, PageSide, ReqSide, Counts, Flags, QueueOK, PageOK
    <3>3. u \in Queued(gen, sends, overwritten) /\ Terminal(u, gen)
      <4>1. req[k].answer \in OwnText(sends)
        BY <2>1, ReqTyped DEF ReqType
      <4>2. "response" \in Kinds \ {"value"} /\ "response" \in Closing /\ "response" # "stop"
        BY DEF Kinds, Closing
      <4> QED
        BY <3>2, <4>1, <4>2, UpdateUpd
    <3> HIDE DEF u
    <3>4. /\ queue' \in Seq(Queued(gen, sends, overwritten)) /\ queue' # <<>>
          /\ Terminal(queue'[Len(queue')], gen)
      BY <3>1, <3>2, <3>3, EnqueueQueued
    <3>5. Lists' /\ QueueOK' /\ SaveOK' /\ TidyOK' /\ saveTimer' \in BOOLEAN
      BY <1>1, <3>1, <3>2, <3>4, QueueStep
    <3>6. Flags'
      BY <1>1, <1>2, <3>1, <3>5 DEF IInv, PageSide, Flags
    <3>7. TimerOK' /\ PendingOK'
      BY <1>1, <1>2, <3>1, Unpacked, TextsKept
    <3>8. PageOK'
      BY <1>1, <1>2, <2>1, <3>1, <3>2, <3>4 DEF PageOK
    <3> QED
      BY <2>3, <3>5, <3>6, <3>7, <3>8 DEF IInv, PageSide
  <2> QED
    BY <2>4, <2>5
<1> QED
  BY <1>4, <1>5

-----------------------------------------------------------------------------
(* Timers, rendering and the life of the page.                             *)

\* The flush timer fires: a buffer with text belongs to the open stream.
LEMMA FlushTimerStep ==
  ASSUME IInv, FlushTimer
  PROVE  IInv'
<1>1. /\ timer.armed
      /\ UNCHANGED <<pageVars, requesting, streaming, gen, ctl, source, req, sends, acts>>
  BY DEF FlushTimer
<1>2. UNCHANGED <<messages, shown, editing, stored, refused, mounted, overwritten>>
  BY <1>1 DEF pageVars
<1>3. Counts /\ ReqOK /\ SourceOK /\ Flags
  BY Unpacked
<1>4. ReqSide'
  <2>1. Counts'
    BY <1>1, <1>3 DEF Counts
  <2>2. ReqOK'
    BY <1>1, <1>2, <1>3 DEF ReqOK, Live
  <2>3. SourceOK'
    BY <1>1, <1>2, <1>3 DEF SourceOK
  <2> QED
    BY <2>1, <2>2, <2>3 DEF ReqSide
<1>5. /\ timer \in [gen: Nat, armed: BOOLEAN] /\ mounted
      /\ pending \in [gen: Nat, text: OwnText(sends)] /\ pending.gen = gen
      /\ HasText(pending.text) => source # 0
  BY <1>1 DEF IInv, PageSide, TimerOK, PendingOK
<1>6. CASE timer.gen # gen
  <2>1. timer' = [timer EXCEPT !.armed = FALSE] /\ UNCHANGED <<pending, queue, latest, saveTimer>>
    BY <1>6 DEF FlushTimer
  <2>2. TimerOK'
    BY <1>5, <2>1 DEF TimerOK
  <2>3. Lists' /\ Flags' /\ QueueOK' /\ PageOK' /\ SaveOK' /\ TidyOK' /\ PendingOK'
    BY <1>1, <1>2, <2>1 DEF IInv, PageSide, Lists, Flags, QueueOK, PageOK, SaveOK, TidyOK, PendingOK
  <2> QED
    BY <1>4, <2>2, <2>3 DEF IInv, PageSide
<1>7. CASE timer.gen = gen
  <2>1. /\ timer' = NoTimer /\ pending' = [pending EXCEPT !.text = NoText]
        /\ queue' \in FlushQueues(gen) /\ Persist(queue')
    BY <1>5, <1>7 DEF FlushTimer, FlushStreamUpdates
  <2>2. TimerOK'
    BY <2>1, NoTimerType DEF TimerOK
  <2>3. PendingOK'
    <3>1. NoText \in OwnText(sends) /\ ~HasText(NoText)
      BY NoTextOwn
    <3> HIDE DEF NoText
    <3>2. pending' \in [gen: Nat, text: OwnText(sends)] /\ ~HasText(pending'.text) /\ pending'.gen = gen
      BY <1>5, <2>1, <3>1
    <3> QED
      BY <1>1, <3>2 DEF PendingOK
  <2>4. HasText(pending.text) => requesting /\ shown /\ messages \in Answered(sends, overwritten)
    BY <1>3, <1>5 DEF IInv, PageSide, PageOK, SourceOK
  <2>5. /\ queue' \in Seq(Queued(gen, sends, overwritten))
        /\ queue' = queue \/ (HasText(pending.text) /\ queue' # <<>>)
    <3>1. queue \in Seq(Queued(gen, sends, overwritten)) /\ gen \in Nat /\ overwritten \in BOOLEAN
      BY <1>3 DEF IInv, PageSide, QueueOK, Counts, Flags
    <3> QED
      BY <1>5, <2>1, <2>4, <3>1, FlushQueued
  <2>6. CASE queue' = queue
    <3>1. UNCHANGED <<latest, saveTimer>>
      BY <2>1, <2>6 DEF Persist
    <3>2. Lists' /\ Flags' /\ QueueOK' /\ PageOK' /\ SaveOK' /\ TidyOK'
      BY <1>1, <1>2, <2>6, <3>1 DEF IInv, PageSide, Lists, Flags, QueueOK, PageOK, SaveOK, TidyOK
    <3> QED
      BY <1>4, <2>2, <2>3, <3>2 DEF IInv, PageSide
  <2>7. CASE HasText(pending.text) /\ queue' # <<>>
    <3>1. Lists' /\ QueueOK' /\ SaveOK' /\ TidyOK' /\ saveTimer' \in BOOLEAN
      BY <1>1, <2>1, <2>4, <2>5, <2>7, QueueStep
    <3>2. Flags'
      BY <1>1, <1>2, <1>3, <3>1 DEF Flags
    <3>3. PageOK'
      BY <1>1, <1>2, <1>5, <2>4, <2>7 DEF PageOK
    <3> QED
      BY <1>4, <2>2, <2>3, <3>1, <3>2, <3>3 DEF IInv, PageSide
  <2> QED
    BY <2>5, <2>6, <2>7
<1> QED
  BY <1>6, <1>7

\* Rendering: a request that is over has a terminal update last in the queue.
LEMMA RenderStep ==
  ASSUME IInv, Render
  PROVE  IInv'
<1>1. /\ mounted /\ messages' = Drain(queue, gen) /\ queue' = <<>>
      /\ shown' = (requesting \/ streaming)
      /\ IF queue = <<>> THEN UNCHANGED <<latest, saveTimer>>
         ELSE latest' = messages' /\ saveTimer' = TRUE
      /\ UNCHANGED <<chatVars, editing, stored, refused, mounted, overwritten, acts>>
  BY DEF Render
<1>2. Flags /\ Counts /\ Lists /\ TidyOK /\ PageOK /\ SaveOK /\ QueueOK /\ SourceOK
  BY DEF IInv, PageSide, ReqSide
<1>3. UNCHANGED <<requesting, streaming, gen, pending, timer, ctl, source, req, sends>>
  BY <1>1 DEF chatVars
<1>4. shown' = requesting /\ shown' \in BOOLEAN
  BY <1>1, <1>2 DEF Flags, SourceOK
<1>5. /\ messages' \in Seq(OwnMessage)
      /\ shown' => messages' \in Answered(sends, overwritten)
      /\ ~overwritten => Tidy(messages') /\ (~shown' => Settled(messages'))
      /\ queue = <<>> => messages' = messages
  <2>1. CASE queue = <<>>
    <3>1. messages' = messages
      BY <1>1, <2>1, DrainNothing
    <3>2. shown => requesting
      BY <1>2, <2>1 DEF PageOK
    <3> QED
      BY <1>1, <1>2, <1>4, <3>1, <3>2 DEF Lists, TidyOK, PageOK
  <2>2. CASE queue # <<>>
    <3>1. /\ shown /\ messages \in Answered(sends, overwritten) /\ gen \in Nat /\ overwritten \in BOOLEAN
          /\ queue \in Seq(Queued(gen, sends, overwritten))
      BY <1>2, <2>2 DEF QueueOK, PageOK, Counts, Flags
    <3>2. queue \in Seq(Upd(sends, overwritten))
      <4>1. Queued(gen, sends, overwritten) \subseteq Upd(sends, overwritten)
        BY DEF Queued
      <4> QED
        BY <3>1, <4>1, SeqMonotonic
    <3>3. /\ Drain(queue, gen) \in Answered(sends, overwritten)
          /\ Terminal(queue[Len(queue)], gen) => overwritten \/ Settled(Drain(queue, gen))
      BY <2>2, <3>1, <3>2, DrainAnswered
    <3>4. ~requesting => Terminal(queue[Len(queue)], gen)
      BY <1>2, <3>1 DEF PageOK
    <3> QED
      BY <1>1, <1>4, <2>2, <3>3, <3>4 DEF Answered
  <2> QED
    BY <2>1, <2>2
<1>6. Lists'
  BY <1>1, <1>2, <1>5 DEF Lists
<1>7. Flags'
  BY <1>1, <1>2, <1>3, <1>4 DEF Flags
<1>8. TimerOK' /\ PendingOK'
  BY <1>1, <1>3, Unpacked, TextsKept
<1>9. QueueOK'
  BY <1>1, EmptyText DEF QueueOK
<1>10. PageOK'
  BY <1>1, <1>3, <1>4, <1>5 DEF PageOK
<1>11. SaveOK'
  BY <1>1, <1>2, <1>5 DEF SaveOK
<1>12. TidyOK'
  BY <1>1, <1>2, <1>5 DEF TidyOK
<1>13. ReqSide'
  BY <1>1, Unpacked, ActsType, ReqSideKept
<1> QED
  BY <1>6, <1>7, <1>8, <1>9, <1>10, <1>11, <1>12, <1>13 DEF IInv, PageSide

\* saveMessages leaves a well-formed conversation, the new one or the one before.
LEMMA SaveKeeps ==
  ASSUME IInv, NEW list \in Seq(OwnMessage), ~overwritten => Tidy(list), SaveMessages(list)
  PROVE  /\ stored' \in Seq(OwnMessage) /\ (~overwritten => Tidy(stored'))
         /\ refused' \in BOOLEAN /\ (~refused' => stored' = Trim(list))
<1>1. stored \in Seq(OwnMessage) /\ (~overwritten => Tidy(stored))
  BY DEF IInv, PageSide, Lists, TidyOK
<1>2. Trim(list) \in Seq(OwnMessage) /\ (Tidy(list) => Tidy(Trim(list)))
  BY TrimKeeps
<1>3. CASE stored' = Trim(list) /\ refused' = FALSE
  BY <1>2, <1>3
<1>4. CASE stored' = stored /\ refused' = TRUE
  BY <1>1, <1>4
<1> QED
  BY <1>3, <1>4 DEF SaveMessages

\* The debounced save.
LEMMA SaveTimerStep ==
  ASSUME IInv, SaveTimer
  PROVE  IInv'
<1>1. /\ saveTimer' = FALSE /\ SaveMessages(latest)
      /\ UNCHANGED <<messages, queue, shown, chatVars, editing, latest, mounted, overwritten>>
  BY DEF SaveTimer
<1>2. latest \in Seq(OwnMessage) /\ (~overwritten => Tidy(latest))
  BY DEF IInv, PageSide, Lists, TidyOK
<1>3. /\ stored' \in Seq(OwnMessage) /\ (~overwritten => Tidy(stored'))
      /\ refused' \in BOOLEAN /\ (~refused' => stored' = Trim(latest))
  BY <1>1, <1>2, SaveKeeps
<1>4. Lists' /\ TidyOK'
  BY <1>1, <1>3 DEF IInv, PageSide, Lists, TidyOK
<1>5. Flags' /\ QueueOK' /\ PageOK'
  BY <1>1, <1>3 DEF IInv, PageSide, Flags, QueueOK, PageOK, chatVars
<1>6. SaveOK'
  BY <1>1, <1>3 DEF IInv, PageSide, SaveOK
<1>7. TimerOK' /\ PendingOK'
  BY <1>1, Unpacked, TextsKept DEF chatVars
<1>8. ReqSide'
  <2>1. acts' \in 0..MaxActs
    BY ActsType, SpendType DEF SaveTimer
  <2> QED
    BY <1>1, <2>1, Unpacked, ReqSideKept
<1> QED
  BY <1>4, <1>5, <1>6, <1>7, <1>8 DEF IInv, PageSide

\* The page without the playground.
LEMMA UnshownStep ==
  ASSUME IInv, Unshown, mounted' = FALSE, saveTimer' = FALSE, overwritten' = overwritten,
         refused' \in BOOLEAN,
         stored' \in Seq(OwnMessage), ~overwritten => Tidy(stored'),
         TimerOK', pending' \in [gen: Nat, text: OwnText(sends')]
  PROVE  PageSide'
<1>1. /\ messages' = <<>> /\ latest' = <<>> /\ queue' = <<>> /\ editing' = NoKey
      /\ shown' = FALSE /\ requesting' = FALSE /\ streaming' = FALSE
  BY DEF Unshown
<1>2. \A S : <<>> \in Seq(S)
  BY EmptyText
<1>3. Lists' /\ QueueOK'
  BY <1>1, <1>2 DEF Lists, QueueOK
<1>4. Flags'
  BY <1>1 DEF IInv, PageSide, Flags
<1>5. PendingOK' /\ PageOK' /\ SaveOK'
  BY <1>1 DEF PendingOK, PageOK, SaveOK
<1>6. TidyOK'
  BY <1>1 DEF TidyOK, Tidy
<1> QED
  BY <1>3, <1>4, <1>5, <1>6 DEF PageSide

\* Leaving the playground.
LEMMA UnmountStep ==
  ASSUME IInv, Unmount
  PROVE  IInv'
<1>1. /\ mounted /\ Spend /\ mounted' = FALSE /\ Unshown
      /\ gen' = gen + 1 /\ timer' = [timer EXCEPT !.armed = FALSE]
      /\ ctl' = ctl + 1 /\ source' = 0 /\ req' = CloseSource(source)
      /\ IF saveTimer THEN SaveMessages(latest) ELSE UNCHANGED <<stored, refused>>
      /\ saveTimer' = FALSE /\ UNCHANGED <<pending, sends, overwritten>>
  BY DEF Unmount
<1>2. /\ latest \in Seq(OwnMessage) /\ stored \in Seq(OwnMessage)
      /\ ~overwritten => Tidy(latest) /\ Tidy(stored)
      /\ timer \in [gen: Nat, armed: BOOLEAN] /\ pending \in [gen: Nat, text: OwnText(sends)]
  BY DEF IInv, PageSide, Lists, TidyOK, TimerOK, PendingOK
<1>3. /\ stored' \in Seq(OwnMessage) /\ (~overwritten => Tidy(stored'))
      /\ refused' \in BOOLEAN
  <2>1. CASE saveTimer
    BY <1>1, <1>2, <2>1, SaveKeeps
  <2>2. CASE ~saveTimer
    BY <1>1, <1>2, <2>2 DEF IInv, PageSide, Flags
  <2> QED
    BY <2>1, <2>2
<1>4. TimerOK'
  BY <1>1, <1>2 DEF TimerOK
<1>5. PageSide'
  BY <1>1, <1>2, <1>3, <1>4, UnshownStep
<1>6. ReqSide'
  BY <1>1, SpendType, ActsType, Unpacked, CancelStep DEF Unshown
<1> QED
  BY <1>5, <1>6 DEF IInv

\* No request, in a page that is closed or has just been opened.
LEMMA FreshStep ==
  ASSUME IInv, req' = [k \in Send |-> NoReq], source' = 0, gen' = 0, ctl' = 0,
         sends' = sends, streaming' = FALSE, acts' \in 0..MaxActs
  PROVE  ReqSide'
<1>1. \A k \in Send : req'[k] \in ReqType(k) /\ req'[k].gen = 0 /\ req'[k].ctl = 0 /\ req'[k].pc = "none"
  BY NoReqType
<1>2. DOMAIN req' = Send
  OBVIOUS
<1>3. ReqOK'
  BY <1>1, <1>2 DEF ReqOK, Live
<1>4. Counts' /\ SourceOK'
  BY Unpacked DEF Counts, SourceOK
<1> QED
  BY <1>3, <1>4 DEF ReqSide

\* Closing or reloading the page.
LEMMA PageClosedStep ==
  ASSUME IInv, PageClosed
  PROVE  IInv'
<1>1. /\ Spend /\ mounted' = FALSE /\ Unshown /\ req' = [k \in Send |-> NoReq] /\ source' = 0
      /\ gen' = 0 /\ ctl' = 0 /\ timer' = NoTimer /\ pending' = [gen |-> 0, text |-> NoText]
      /\ saveTimer' = FALSE /\ UNCHANGED <<stored, refused, sends, overwritten>>
  BY DEF PageClosed
<1>2. /\ stored' \in Seq(OwnMessage) /\ (~overwritten => Tidy(stored'))
      /\ refused' \in BOOLEAN
  BY <1>1 DEF IInv, PageSide, Lists, TidyOK, Flags
<1>3. TimerOK'
  BY <1>1, NoTimerType DEF TimerOK
<1>4. pending' \in [gen: Nat, text: OwnText(sends')]
  BY <1>1, NoTextPending
<1>5. PageSide'
  BY <1>1, <1>2, <1>3, <1>4, UnshownStep
<1>6. ReqSide'
  BY <1>1, SpendType, ActsType, FreshStep DEF Unshown
<1> QED
  BY <1>5, <1>6 DEF IInv

\* loadMessages completes or fails what was pending, so nothing is any more; it
\* turns messages only into heirs of theirs.
LEMMA LoadSettles ==
  ASSUME NEW S, S \subseteq OwnMessage, \A m \in S : \A n : Heir(m, n) => n \in S, NEW l \in Seq(S)
  PROVE  /\ LoadMessages(l) \in Seq(S) /\ Len(LoadMessages(l)) <= MaxStored
         /\ Tidy(l) => Settled(LoadMessages(l))
<1> DEFINE n == [i \in DOMAIN l |-> NormalizeStored(l[i])]
           t == Trim(n)
           left == {i \in DOMAIN t : IsPending(t[i])}
<1>1. ASSUME NEW m \in S
      PROVE  NormalizeStored(m) \in S /\ (IsPending(NormalizeStored(m)) => IsPending(m))
  <2>1. CASE IsPending(m) /\ HasText(m)
    <3>1. Heir(m, CompleteAssistantMessage(m)) /\ CompleteAssistantMessage(m).status = "complete"
      BY CompleteOwn
    <3> QED
      BY <2>1, <3>1 DEF NormalizeStored
  <2>2. CASE ~(IsPending(m) /\ HasText(m))
    BY <2>2 DEF NormalizeStored
  <2> QED
    BY <2>1, <2>2
<1>2. DOMAIN l = 1..Len(l) /\ Len(l) \in Nat /\ \A i \in DOMAIN l : l[i] \in S
  OBVIOUS
<1>3. n \in Seq(S) /\ DOMAIN n = DOMAIN l /\ Len(n) = Len(l)
  <2>1. n \in [1..Len(l) -> S]
    BY <1>1, <1>2
  <2> QED
    BY <1>2, <2>1
<1>4. Tidy(l) => Tidy(n)
  BY <1>1, <1>2, <1>3 DEF Tidy
<1> HIDE DEF n
<1>5. t \in Seq(S) /\ Len(t) <= MaxStored /\ (Tidy(n) => Tidy(t))
  BY <1>3, TrimKeeps
<1>6. LoadMessages(l) = SanitizeMessagesOnLoad(t)
  BY DEF LoadMessages, n
<1> HIDE DEF t
<1>7. CASE left = {}
  <2>1. SanitizeMessagesOnLoad(t) = t
    BY <1>7 DEF SanitizeMessagesOnLoad
  <2>2. Settled(t)
    BY <1>7 DEF Settled
  <2> QED
    BY <1>5, <1>6, <2>1, <2>2
<1>8. CASE left # {}
  <2> DEFINE i == CHOOSE j \in left : \A x \in left : x <= j
             m == FinalizeMessage(t[i], <<>>)
             e == IF HasText(m) THEN [m EXCEPT !.status = "complete"] ELSE ErrorMessage(m)
             r == ReplaceAt(t, i, e)
  <2>1. SanitizeMessagesOnLoad(t) = r
    BY <1>8 DEF SanitizeMessagesOnLoad
  <2>2. i \in left
    <3>1. left \in SUBSET (1..Len(t)) /\ Len(t) \in Nat
      BY <1>5
    <3>2. Max(left) \in left /\ \A x \in left : x <= Max(left)
      BY <1>8, <3>1, MaxIn
    <3> QED
      BY <3>2
  <2> HIDE DEF i
  <2>3. i \in DOMAIN t /\ t[i] \in S /\ t[i] \in OwnMessage
    BY <1>5, <2>2
  <2>4. m \in S /\ m \in OwnMessage
    BY <2>3, FinalizeOwn, EmptyText
  <2> HIDE DEF m
  <2>5. e \in S /\ ~IsPending(e)
    <3>1. Heir(m, [m EXCEPT !.status = "complete"]) /\ [m EXCEPT !.status = "complete"].status = "complete"
      BY <2>4, SetStatus DEF Statuses
    <3>2. Heir(m, ErrorMessage(m)) /\ ErrorMessage(m).status = "error"
      BY <2>4, ErrorOwn
    <3> QED
      BY <2>4, <3>1, <3>2 DEF IsPending
  <2> HIDE DEF e
  <2>6. /\ r \in Seq(S) /\ Len(r) = Len(t) /\ DOMAIN r = DOMAIN t /\ r[i] = e
        /\ \A j \in DOMAIN t : j # i => r[j] = t[j]
    BY <1>5, <2>3, <2>5, ReplaceLast
  <2>7. IsPending(t[i])
    BY <2>2
  <2> HIDE DEF r
  <2>8. Tidy(t) => Settled(r)
    BY <2>3, <2>5, <2>6, <2>7 DEF Tidy, Settled
  <2> QED
    BY <1>4, <1>5, <1>6, <2>1, <2>6, <2>8
<1> QED
  BY <1>7, <1>8

\* Showing the playground again.
LEMMA MountStep ==
  ASSUME IInv, Mount
  PROVE  IInv'
<1>1. /\ messages' = LoadMessages(stored) /\ latest' = messages'
      /\ IF messages' = stored THEN stored' = stored /\ refused' = FALSE
         ELSE SaveMessages(messages')
      /\ queue' = <<>> /\ shown' = FALSE /\ requesting' = FALSE /\ streaming' = FALSE
      /\ gen' = 0 /\ pending' = [gen |-> 0, text |-> NoText] /\ timer' = NoTimer
      /\ ctl' = 0 /\ source' = 0 /\ req' = [k \in Send |-> NoReq]
      /\ editing' = NoKey /\ saveTimer' = FALSE /\ mounted' = TRUE
      /\ UNCHANGED <<sends, overwritten, acts>>
  BY DEF Mount
<1>2. stored \in Seq(OwnMessage) /\ (~overwritten => Tidy(stored))
  BY DEF IInv, PageSide, Lists, TidyOK
<1>3. /\ messages' \in Seq(OwnMessage) /\ Len(messages') <= MaxStored
      /\ ~overwritten => Settled(messages')
  <2>1. \A m \in OwnMessage : \A n : Heir(m, n) => n \in OwnMessage
    BY DEF Heir
  <2> QED
    BY <1>1, <1>2, <2>1, LoadSettles
<1>4. /\ stored' \in Seq(OwnMessage) /\ (~overwritten => Tidy(stored'))
      /\ refused' \in BOOLEAN /\ (~refused' => stored' = Trim(messages'))
  <2>1. ~overwritten => Tidy(messages')
    BY <1>3 DEF Settled, Tidy
  <2>2. Trim(messages') = messages'
    BY <1>3 DEF Trim
  <2>3. CASE messages' = stored
    BY <1>1, <1>2, <2>2, <2>3
  <2>4. CASE messages' # stored
    BY <1>1, <1>3, <2>1, <2>4, SaveKeeps
  <2> QED
    BY <2>3, <2>4
<1>5. Lists' /\ Flags'
  BY <1>1, <1>3, <1>4 DEF IInv, PageSide, Lists, Flags
<1>6. TimerOK'
  BY <1>1, NoTimerType DEF TimerOK
<1>7. PendingOK'
  <2>1. pending' \in [gen: Nat, text: OwnText(sends')] /\ ~HasText(pending'.text) /\ pending'.gen = gen'
    BY <1>1, NoTextPending
  <2> QED
    BY <2>1 DEF PendingOK
<1>8. QueueOK' /\ PageOK'
  BY <1>1, EmptyText DEF QueueOK, PageOK
<1>9. SaveOK'
  BY <1>1, <1>4 DEF SaveOK
<1>10. TidyOK'
  <2>1. Settled(messages') => Tidy(messages')
    BY DEF Settled, Tidy
  <2> QED
    BY <1>1, <1>3, <1>4, <2>1 DEF TidyOK
<1>11. ReqSide'
  BY <1>1, ActsType, FreshStep
<1> QED
  BY <1>5, <1>6, <1>7, <1>8, <1>9, <1>10, <1>11 DEF IInv, PageSide

\* A step that changes nothing.
LEMMA StutterStep ==
  ASSUME IInv, UNCHANGED vars
  PROVE  IInv'
<1>1. ReqSide'
  BY ActsType, Unpacked, ReqSideKept DEF vars, chatVars
<1>2. PageSide'
  BY Unpacked, PageKept DEF vars, pageVars, Flags
<1> QED
  BY <1>1, <1>2 DEF IInv

-----------------------------------------------------------------------------
(* The theorems.                                                           *)

\* Every step preserves the invariant.
LEMMA NextIInv ==
  ASSUME IInv, [Next]_vars
  PROVE  IInv'
<1>1. ASSUME UserStep PROVE IInv'
  <2>1. CASE HandleSendMessage
    BY <2>1, SendStep
  <2>2. CASE HandleClearMessages
    BY <2>2, ClearStep
  <2>3. CASE StopGeneration
    BY <2>3, StopStep
  <2>4. ASSUME NEW i \in DOMAIN messages,
               \/ HandleRegenerateMessage(i) \/ HandleDeleteMessage(i) \/ HandleEditMessage(i)
               \/ SaveEdit(i) \/ SubmitEdit(i)
        PROVE  IInv'
    BY <2>4, RegenerateStep, DeleteStep, EditStep, SaveEditStep, SubmitStep
  <2> QED
    BY <1>1, <2>1, <2>2, <2>3, <2>4 DEF UserStep
<1>2. ASSUME NEW k \in Send, ServerStep(k) PROVE IInv'
  <2>1. CASE HeadersReady(k) \/ HeadersFailed(k) \/ StreamChunk(k)
    BY <2>1, HeadersReadyStep, HeadersFailedStep, StreamChunkStep
  <2>2. CASE StreamDone(k) \/ StreamFailed(k) \/ StreamCut(k)
    BY <2>2, StreamDoneStep, StreamFailedStep, StreamCutStep
  <2>3. CASE ResponseOk(k)
    BY <2>3, ActsType, ResponseStep DEF ResponseOk
  <2>4. CASE ResponseFailed(k)
    BY <2>4, ActsType, SpendType, ResponseStep DEF ResponseFailed
  <2> QED
    BY <1>2, <2>1, <2>2, <2>3, <2>4 DEF ServerStep
<1>3. CASE FlushTimer
  BY <1>3, FlushTimerStep
<1>4. CASE Render
  BY <1>4, RenderStep
<1>5. CASE SaveTimer
  BY <1>5, SaveTimerStep
<1>6. CASE Unmount
  BY <1>6, UnmountStep
<1>7. CASE PageClosed
  BY <1>7, PageClosedStep
<1>8. CASE Mount
  BY <1>8, MountStep
<1>9. CASE UNCHANGED vars
  BY <1>9, StutterStep
<1> QED
  BY <1>1, <1>2, <1>3, <1>4, <1>5, <1>6, <1>7, <1>8, <1>9 DEF Next

\* Conversations of own messages are conversations.
LEMMA OwnIsMessage ==
  ASSUME NEW l \in Seq(OwnMessage)
  PROVE  l \in Seq(Message)
<1>1. OwnMessage \subseteq Message
  BY DEF OwnMessage
<1> QED
  BY <1>1, SeqMonotonic

\* Texts of a send are texts.
LEMMA OwnTextIsText ==
  ASSUME NEW k \in Send \cup {0}, NEW t \in OwnText(k)
  PROVE  t \in [content: Text, reasoning: Text]
<1>1. Seq(Tok(k)) \subseteq Text
  BY TokIsToken
<1> QED
  BY <1>1 DEF OwnText

\* The invariant contains the types.
LEMMA IInvTypeOK ==
  ASSUME IInv
  PROVE  TypeOK
<1>1. Lists /\ Flags /\ Counts /\ TimerOK /\ PendingOK /\ QueueOK /\ ReqOK
  BY DEF IInv, PageSide, ReqSide
<1>2. messages \in Seq(Message) /\ latest \in Seq(Message) /\ stored \in Seq(Message)
  BY <1>1, OwnIsMessage DEF Lists
<1>3. sends \in Send \cup {0}
  BY <1>1, MaxSendsAssumption DEF Counts, Send
<1>4. ASSUME NEW i \in DOMAIN queue
      PROVE  /\ queue[i].kind \in {"flush", "complete", "error", "response", "value"}
             /\ queue[i].gen \in Nat /\ queue[i].list \in Seq(Message)
             /\ queue[i].text \in [content: Text, reasoning: Text]
  <2>1. queue[i] \in Queued(gen, sends, overwritten)
    BY <1>1 DEF QueueOK
  <2>2. /\ queue[i].kind \in Kinds /\ queue[i].kind # "stop" /\ queue[i].gen \in Nat
        /\ queue[i].list \in Seq(OwnMessage) /\ queue[i].text \in OwnText(sends)
    BY <2>1 DEF Queued, Upd
  <2> QED
    BY <1>3, <2>2, OwnIsMessage, OwnTextIsText DEF Kinds
<1>5. pending \in [gen: Nat, text: [content: Text, reasoning: Text]]
  <2>1. pending \in [gen: Nat, text: OwnText(sends)]
    BY <1>1 DEF PendingOK
  <2>2. OwnText(sends) \subseteq [content: Text, reasoning: Text]
    BY <1>3, OwnTextIsText
  <2> QED
    BY <2>1, <2>2
<1>6. \A k \in Send : req[k].pc \in {"none", "headers", "open", "closed", "posted", "over"}
  BY <1>1 DEF ReqOK, ReqType, Pcs
<1>7. {shown, requesting, streaming, saveTimer, refused, mounted, overwritten} \subseteq BOOLEAN
  BY <1>1, Zenon DEF Flags
<1> QED
  BY <1>1, <1>2, <1>4, <1>5, <1>6, <1>7 DEF TypeOK, Lists, Counts, TimerOK

\* The invariant holds of every reachable state.
LEMMA Invariant == Spec => []IInv
<1>1. Init => IInv
  BY InitIInv
<1>2. IInv /\ [Next]_vars => IInv'
  BY NextIInv
<1> QED
  BY <1>1, <1>2, PTL DEF Spec

\* The refs, the queue, the requests and localStorage have their types, whatever the
\* server streams and however many requests, actions and messages there are.
THEOREM TypeCorrect == Spec => []TypeOK
<1>1. IInv => TypeOK
  BY IInvTypeOK
<1> QED
  BY <1>1, Invariant, PTL

\* A message of own text is not foreign.
LEMMA OwnIsNotForeign ==
  ASSUME NEW m \in OwnMessage
  PROVE  ~Foreign(m)
<1> DEFINE t == m.content \o m.reasoning
           S == Tok(m.k)
<1>1. m.content \in Seq(S) /\ m.reasoning \in Seq(S)
  BY OwnFields
<1> HIDE DEF S
<1>2. t \in Seq(S)
  BY <1>1
<1> HIDE DEF t
<1>3. ASSUME NEW i \in DOMAIN t PROVE t[i].k \in {0, m.k}
  <2>1. t[i] \in S
    BY <1>2
  <2> QED
    BY <2>1 DEF S, Tok
<1> QED
  BY <1>3 DEF Foreign, t

\* No message ever holds text of another request: neither late chunks, late timers
\* nor updates that React evaluates late reach the answer to a newer request.
THEOREM TextIsOwn == Spec => []NoForeignText
<1>1. IInv => NoForeignText
  <2> SUFFICES ASSUME IInv, NEW list \in {messages, latest, stored}, NEW i \in DOMAIN list
               PROVE  ~Foreign(list[i])
    BY DEF NoForeignText
  <2>1. list \in Seq(OwnMessage)
    BY DEF IInv, PageSide, Lists
  <2>2. list[i] \in OwnMessage
    BY <2>1
  <2> QED
    BY <2>2, OwnIsNotForeign
<1> QED
  BY <1>1, Invariant, PTL

\* Only the controller's active source is connected, and none when the page is left.
THEOREM StreamsDoNotLeak == Spec => []NoLeakedStream
<1>1. IInv => NoLeakedStream
  <2> SUFFICES ASSUME IInv, NEW k \in Send, req[k].pc = "open" PROVE mounted /\ source = k
    BY DEF NoLeakedStream
  <2>1. source = k /\ k # 0
    BY DEF IInv, ReqSide, ReqOK, Send
  <2> QED
    BY <2>1 DEF IInv, ReqSide, SourceOK
<1> QED
  BY <1>1, Invariant, PTL

\* No message stays pending that the page does not offer to stop.
THEOREM NothingStaysPending == Spec => []NoStuckMessage
<1>1. IInv => NoStuckMessage
  BY DEF IInv, PageSide, TidyOK, NoStuckMessage, Tidy, Settled
<1> QED
  BY <1>1, Invariant, PTL

\* Leaving the playground when everything is rendered leaves what was shown in
\* localStorage, unless the last write was refused, there or before.
THEOREM LeavingLosesNothing == Spec => LeavingSaves
<1>1. IInv /\ [Next]_vars => [Unmount /\ queue = <<>> => refused' \/ stored' = Trim(messages)]_vars
  <2> SUFFICES ASSUME IInv, Unmount, queue = <<>>, ~refused' PROVE stored' = Trim(messages)
    OBVIOUS
  <2>1. mounted /\ IF saveTimer THEN SaveMessages(latest) ELSE UNCHANGED <<stored, refused>>
    BY DEF Unmount
  <2>2. latest = messages /\ (~saveTimer /\ ~refused => stored = Trim(latest))
    BY <2>1 DEF IInv, PageSide, SaveOK
  <2> QED
    BY <2>1, <2>2 DEF SaveMessages
<1> QED
  BY <1>1, Invariant, PTL DEF Spec, LeavingSaves

-----------------------------------------------------------------------------
(* What a stream adds up to.                                               *)

\* The chunks of one type put together, step by step.
LEMMA JoinedSteps ==
  ASSUME NEW script \in Seq(Chunk), NEW type
  PROVE  /\ Joined(script, type) \in [0..Len(script) -> Seq(Alphabet)]
         /\ Joined(script, type)[0] = <<>>
         /\ \A i \in 1..Len(script) :
              Joined(script, type)[i] = IF script[i].type = type
                                        THEN Joined(script, type)[i - 1] \o script[i].text
                                        ELSE Joined(script, type)[i - 1]
<1> DEFINE n == Len(script)
           V == Seq(Alphabet)
           base == <<>>
           Step(v, i) == IF script[i].type = type THEN v \o script[i].text ELSE v
           Eq(f) == f = [i \in 0..n |-> IF i = 0 THEN base
                                        ELSE IF script[i].type = type THEN f[i - 1] \o script[i].text
                                        ELSE f[i - 1]]
           j == CHOOSE f : Eq(f)
           F == [x \in (1..n) \X V |-> Step(x[2], x[1])]
<1>0. n \in Nat /\ base \in V
  OBVIOUS
<1>1. ASSUME NEW v \in V, NEW i \in 1..n PROVE Step(v, i) \in V
  <2>1. script[i] \in Chunk
    OBVIOUS
  <2>2. script[i].text \in Seq(Alphabet)
    BY <2>1 DEF Chunk
  <2> QED
    BY <2>2
<1>2. Joined(script, type) = j
  BY DEF Joined
<1> HIDE DEF n, V, base
<1>3. F \in [(1..n) \X V -> V]
  <2> HIDE DEF Step
  <2> QED
    BY <1>1
<1>4. PICK p : Traces(p, n, V, base, F)
  <2> HIDE DEF F
  <2> QED
    BY <1>0, <1>3, TraceExists
<1>5. ASSUME NEW i \in 1..n PROVE p[i] = Step(p[i - 1], i) /\ i # 0
  <2>1. i - 1 \in 0..n
    BY <1>0
  <2>2. p[i - 1] \in V /\ i # 0
    BY <1>0, <1>4, <2>1 DEF Traces
  <2> HIDE DEF Step
  <2> QED
    BY <1>4, <2>2 DEF Traces
<1>6. Eq(p)
  <2>1. \A i \in 0..n : i = 0 \/ i \in 1..n
    BY <1>0
  <2> QED
    BY <1>4, <1>5, <2>1 DEF Traces
<1>7. Eq(j)
  <2> HIDE DEF Eq
  <2> QED
    BY <1>6
<1> HIDE DEF j
<1>8. j[0] = base
  BY <1>0, <1>7
<1>9. ASSUME NEW i \in 1..n PROVE j[i] = Step(j[i - 1], i)
  <2>1. i \in 0..n /\ i # 0
    BY <1>0
  <2> QED
    BY <1>7, <2>1
<1>10. \A i \in 0..n : j[i] \in V
  <2> DEFINE C == {i \in 0..n : j[i] \in V}
  <2>1. 0 \in C
    BY <1>0, <1>8
  <2>2. ASSUME NEW i \in 1..n, i - 1 \in C PROVE i \in C
    <3>1. i \in 0..n
      BY <1>0
    <3> HIDE DEF Step
    <3> QED
      BY <1>1, <1>9, <2>2, <3>1
  <2>3. \A i \in 0..n : i \in C
    <3> HIDE DEF C
    <3> QED
      BY <1>0, <2>1, <2>2, UpTo
  <2> QED
    BY <2>3
<1>11. j \in [0..n -> V]
  BY <1>7, <1>10
<1> QED
  BY <1>2, <1>8, <1>9, <1>11 DEF n, V, base

\* Each is a text.
LEMMA JoinedAt ==
  ASSUME NEW script \in Seq(Chunk), NEW type, NEW i \in 0..Len(script)
  PROVE  Joined(script, type)[i] \in Seq(Alphabet)
<1>1. Joined(script, type) \in [0..Len(script) -> Seq(Alphabet)]
  BY JoinedSteps, Zenon
<1> QED
  BY <1>1, Zenon

\* Texts with the same tokens are the same.
LEMMA SameText ==
  ASSUME NEW S, NEW a \in Seq(S), NEW b \in Seq(S), Len(a) = Len(b),
         \A i \in 1..Len(a) : a[i] = b[i]
  PROVE  a = b
  OBVIOUS

\* A function on a segment is a text.
LEMMA TextOf ==
  ASSUME NEW S, NEW n \in Nat, NEW f \in [1..n -> S]
  PROVE  f \in Seq(S) /\ Len(f) = n
  OBVIOUS

\* Prefixes of texts.
LEMMA PrefixOf ==
  ASSUME NEW S, NEW a \in Seq(S), NEW b \in Seq(S)
  PROVE  IsPrefix(a, b) <=> Len(a) <= Len(b) /\ \A i \in 1..Len(a) : a[i] = b[i]
<1>1. ASSUME Len(a) <= Len(b), \A i \in 1..Len(a) : a[i] = b[i]
      PROVE  SubSeq(a, 1, Len(a)) = SubSeq(b, 1, Len(a))
  BY <1>1
<1>2. ASSUME Len(a) <= Len(b), SubSeq(a, 1, Len(a)) = SubSeq(b, 1, Len(a)), NEW i \in 1..Len(a)
      PROVE  a[i] = b[i]
  <2>1. SubSeq(a, 1, Len(a))[i] = a[i] /\ SubSeq(b, 1, Len(a))[i] = b[i]
    BY <1>2
  <2> QED
    BY <1>2, <2>1
<1> QED
  BY <1>1, <1>2 DEF IsPrefix

\* Prefixes compose.
LEMMA PrefixTrans ==
  ASSUME NEW S, NEW a \in Seq(S), NEW b \in Seq(S), NEW c \in Seq(S),
         IsPrefix(a, b), IsPrefix(b, c)
  PROVE  IsPrefix(a, c)
<1>1. Len(a) <= Len(b) /\ (\A i \in 1..Len(a) : a[i] = b[i])
  BY PrefixOf
<1>2. Len(b) <= Len(c) /\ (\A i \in 1..Len(b) : b[i] = c[i])
  BY PrefixOf
<1>3. Len(a) \in Nat /\ Len(b) \in Nat /\ Len(c) \in Nat
  OBVIOUS
<1>4. Len(a) <= Len(c) /\ (\A i \in 1..Len(a) : a[i] = c[i])
  BY <1>1, <1>2, <1>3
<1> QED
  BY <1>4, PrefixOf

\* A text starts with itself and with nothing, and a join starts with its first part.
LEMMA PrefixJoin ==
  ASSUME NEW S, NEW a \in Seq(S), NEW b \in Seq(S)
  PROVE  IsPrefix(a, a) /\ IsPrefix(a, a \o b) /\ IsPrefix(<<>>, a) /\ a \o b \in Seq(S)
         /\ (IsPrefix(a, <<>>) => a = <<>>)
<1> DEFINE ab == a \o b
           e == <<>>
<1>1. /\ ab \in Seq(S) /\ Len(ab) = Len(a) + Len(b) /\ (\A i \in 1..Len(a) : ab[i] = a[i])
      /\ Len(a) \in Nat /\ Len(b) \in Nat
  OBVIOUS
<1>2. e \in Seq(S) /\ Len(e) = 0 /\ (Len(a) = 0 => a = e)
  OBVIOUS
<1> HIDE DEF ab, e
<1>3. IsPrefix(a, ab)
  <2>1. Len(a) <= Len(ab)
    BY <1>1
  <2> QED
    BY <1>1, <2>1, PrefixOf
<1>4. IsPrefix(a, a)
  BY PrefixOf
<1>5. IsPrefix(e, a)
  <2>1. Len(e) <= Len(a) /\ \A i \in 1..Len(e) : e[i] = a[i]
    BY <1>1, <1>2
  <2> QED
    BY <1>2, <2>1, PrefixOf
<1>6. IsPrefix(a, e) => a = e
  <2>1. IsPrefix(a, e) => Len(a) <= Len(e)
    BY <1>2, PrefixOf
  <2> QED
    BY <1>1, <1>2, <2>1
<1> QED
  BY <1>1, <1>3, <1>4, <1>5, <1>6 DEF ab, e

\* Putting texts together is associative.
LEMMA JoinAssoc ==
  ASSUME NEW S, NEW a \in Seq(S), NEW b \in Seq(S), NEW c \in Seq(S)
  PROVE  (a \o b) \o c = a \o (b \o c) /\ a \o <<>> = a /\ <<>> \o a = a
  OBVIOUS

\* What follows a beginning of a text.
LEMMA Rest ==
  ASSUME NEW S, NEW a \in Seq(S), NEW b \in Seq(S)
  PROVE  /\ b = SubSeq(a \o b, Len(a) + 1, Len(a \o b))
         /\ IsPrefix(a, b) => a \o SubSeq(b, Len(a) + 1, Len(b)) = b
<1>1. b = SubSeq(a \o b, Len(a) + 1, Len(a \o b))
  OBVIOUS
<1>2. ASSUME IsPrefix(a, b) PROVE a \o SubSeq(b, Len(a) + 1, Len(b)) = b
  <2>1. Len(a) <= Len(b) /\ \A i \in 1..Len(a) : a[i] = b[i]
    BY <1>2, PrefixOf
  <2> DEFINE c == SubSeq(b, Len(a) + 1, Len(b))
  <2>2. c \in Seq(S) /\ Len(c) = Len(b) - Len(a) /\ \A i \in 1..Len(c) : c[i] = b[Len(a) + i]
    BY <2>1
  <2> HIDE DEF c
  <2>3. a \o c \in Seq(S) /\ Len(a \o c) = Len(b)
    BY <2>1, <2>2
  <2>4. ASSUME NEW i \in 1..Len(b) PROVE (a \o c)[i] = b[i]
    <3>0. i \in Nat /\ Len(a) \in Nat
      OBVIOUS
    <3>1. CASE i <= Len(a)
      BY <2>1, <2>2, <3>1
    <3>2. CASE ~(i <= Len(a))
      <4>1. i - Len(a) \in 1..Len(c) /\ Len(a) + (i - Len(a)) = i
        BY <2>1, <2>2, <3>0, <3>2
      <4>2. (a \o c)[i] = c[i - Len(a)]
        BY <2>1, <2>2, <3>2
      <4> QED
        BY <2>2, <4>1, <4>2
    <3> QED
      BY <3>1, <3>2
  <2>5. a \o c = b
    BY <2>3, <2>4, SameText
  <2> QED
    BY <2>5 DEF c
<1> QED
  BY <1>1, <1>2

\* What the appendable part of a chunk makes of a text: the chunk when it starts
\* with the text, and the two together otherwise.
LEMMA Appended ==
  ASSUME NEW S, NEW a \in Seq(S), NEW b \in Seq(S)
  PROVE  a \o GetAppendableChunk(a, b) = IF a # <<>> /\ IsPrefix(a, b) THEN b ELSE a \o b
  BY Rest DEF GetAppendableChunk

\* Tokens keep the order and the equality of letters.
LEMMA TokensAt ==
  ASSUME NEW k, NEW a \in Seq(Alphabet)
  PROVE  /\ Tokens(k, a) \in Seq([k: {k}, c: Alphabet]) /\ Len(Tokens(k, a)) = Len(a)
         /\ \A i \in 1..Len(a) : Tokens(k, a)[i] = [k |-> k, c |-> a[i]]
<1>1. DOMAIN a = 1..Len(a) /\ Len(a) \in Nat
  OBVIOUS
<1>2. \A i \in 1..Len(a) : Tokens(k, a)[i] = [k |-> k, c |-> a[i]]
  BY <1>1 DEF Tokens
<1> DEFINE S == [k: {k}, c: Alphabet]
           t == Tokens(k, a)
<1>3. t \in [1..Len(a) -> S]
  BY <1>1 DEF Tokens
<1> HIDE DEF S, t
<1>4. t \in Seq(S) /\ Len(t) = Len(a)
  BY <1>1, <1>3, TextOf
<1> QED
  BY <1>2, <1>4 DEF S, t

\* The tokens of a text start with those of another if the texts do.
LEMMA TokensPrefix ==
  ASSUME NEW k, NEW a \in Seq(Alphabet), NEW b \in Seq(Alphabet)
  PROVE  /\ IsPrefix(Tokens(k, a), Tokens(k, b)) <=> IsPrefix(a, b)
         /\ (Tokens(k, a) = <<>>) <=> (a = <<>>)
<1> DEFINE S == [k: {k}, c: Alphabet]
           x == Tokens(k, a)
           y == Tokens(k, b)
<1>1. /\ x \in Seq(S) /\ Len(x) = Len(a) /\ (\A i \in 1..Len(a) : x[i] = [k |-> k, c |-> a[i]])
      /\ y \in Seq(S) /\ Len(y) = Len(b) /\ (\A i \in 1..Len(b) : y[i] = [k |-> k, c |-> b[i]])
  BY TokensAt
<1> HIDE DEF S, x, y
<1>2. IsPrefix(x, y) <=> Len(x) <= Len(y) /\ \A i \in 1..Len(x) : x[i] = y[i]
  BY <1>1, PrefixOf
<1>3. IsPrefix(a, b) <=> Len(a) <= Len(b) /\ \A i \in 1..Len(a) : a[i] = b[i]
  BY PrefixOf
<1>4. ASSUME Len(a) <= Len(b), NEW i \in 1..Len(a) PROVE (x[i] = y[i]) <=> (a[i] = b[i])
  <2>1. i \in 1..Len(b)
    BY <1>4
  <2>2. x[i] = [k |-> k, c |-> a[i]] /\ y[i] = [k |-> k, c |-> b[i]]
    BY <1>1, <2>1
  <2> QED
    BY <2>2
<1>5. IsPrefix(x, y) <=> IsPrefix(a, b)
  BY <1>1, <1>2, <1>3, <1>4
<1>6. (x = <<>>) <=> (a = <<>>)
  BY <1>1
<1> QED
  BY <1>5, <1>6 DEF x, y

\* The tokens of two texts together.
LEMMA TokensJoin ==
  ASSUME NEW k, NEW a \in Seq(Alphabet), NEW b \in Seq(Alphabet)
  PROVE  Tokens(k, a \o b) = Tokens(k, a) \o Tokens(k, b)
<1> DEFINE S == [k: {k}, c: Alphabet]
           x == Tokens(k, a)
           y == Tokens(k, b)
           ab == a \o b
           z == Tokens(k, ab)
<1>0. ab \in Seq(Alphabet) /\ Len(ab) = Len(a) + Len(b)
      /\ (\A i \in 1..Len(ab) : ab[i] = IF i <= Len(a) THEN a[i] ELSE b[i - Len(a)])
  OBVIOUS
<1> HIDE DEF ab
<1>1. /\ x \in Seq(S) /\ Len(x) = Len(a) /\ (\A i \in 1..Len(a) : x[i] = [k |-> k, c |-> a[i]])
      /\ y \in Seq(S) /\ Len(y) = Len(b) /\ (\A i \in 1..Len(b) : y[i] = [k |-> k, c |-> b[i]])
      /\ z \in Seq(S) /\ Len(z) = Len(ab) /\ (\A i \in 1..Len(ab) : z[i] = [k |-> k, c |-> ab[i]])
  <2>1. x \in Seq(S) /\ Len(x) = Len(a) /\ \A i \in 1..Len(a) : x[i] = [k |-> k, c |-> a[i]]
    BY TokensAt
  <2>2. y \in Seq(S) /\ Len(y) = Len(b) /\ \A i \in 1..Len(b) : y[i] = [k |-> k, c |-> b[i]]
    BY TokensAt
  <2>3. z \in Seq(S) /\ Len(z) = Len(ab) /\ \A i \in 1..Len(ab) : z[i] = [k |-> k, c |-> ab[i]]
    BY <1>0, TokensAt
  <2> QED
    BY <2>1, <2>2, <2>3, Zenon
<1> HIDE DEF S, x, y, z
<1>2. x \o y \in Seq(S) /\ Len(x \o y) = Len(z)
      /\ (\A i \in 1..Len(z) : (x \o y)[i] = IF i <= Len(a) THEN x[i] ELSE y[i - Len(a)])
  <2>1. /\ x \o y \in Seq(S) /\ Len(x \o y) = Len(x) + Len(y)
        /\ \A i \in 1..(Len(x) + Len(y)) :
             (x \o y)[i] = IF i <= Len(x) THEN x[i] ELSE y[i - Len(x)]
    <3>1. x \in Seq(S) /\ y \in Seq(S)
      BY <1>1, Zenon
    <3> QED
      BY <3>1, ConcatProperties, SMTT(30)
  <2>2. Len(x) = Len(a) /\ Len(x) + Len(y) = Len(z)
    BY <1>0, <1>1
  <2> QED
    BY <2>1, <2>2, Zenon
<1>3. ASSUME NEW i \in 1..Len(z) PROVE (x \o y)[i] = z[i]
  <2>0. i \in Nat /\ Len(a) \in Nat
    BY <1>1
  <2>1. CASE i <= Len(a)
    BY <1>0, <1>1, <1>2, <2>1
  <2>2. CASE ~(i <= Len(a))
    <3>1. i - Len(a) \in 1..Len(b)
      BY <1>0, <1>1, <2>0, <2>2
    <3>2. (x \o y)[i] = y[i - Len(a)] /\ ab[i] = b[i - Len(a)]
      BY <1>0, <1>1, <1>2, <2>2
    <3> QED
      BY <1>1, <3>1, <3>2
  <2> QED
    BY <2>1, <2>2
<1>4. x \o y = z
  <2> DEFINE xy == x \o y
  <2>1. xy \in Seq(S) /\ Len(xy) = Len(z) /\ \A i \in 1..Len(xy) : xy[i] = z[i]
    BY <1>2, <1>3
  <2> HIDE DEF xy
  <2>2. xy = z
    BY <1>1, <2>1, SameText
  <2> QED
    BY <2>2 DEF xy
<1> QED
  BY <1>4 DEF x, y, z, ab

\* Merging and appending tokens merges and appends their letters.
LEMMA TokensMerge ==
  ASSUME NEW k, NEW a \in Seq(Alphabet), NEW b \in Seq(Alphabet)
  PROVE  /\ MergePendingStreamChunk(Tokens(k, a), Tokens(k, b)) = Tokens(k, MergePendingStreamChunk(a, b))
         /\ Tokens(k, a) \o GetAppendableChunk(Tokens(k, a), Tokens(k, b))
              = Tokens(k, a \o GetAppendableChunk(a, b))
<1> DEFINE x == Tokens(k, a)
           y == Tokens(k, b)
           S == [k: {k}, c: Alphabet]
<1>1. x \in Seq(S) /\ y \in Seq(S)
  BY TokensAt
<1>2. (IsPrefix(x, y) <=> IsPrefix(a, b)) /\ ((x = <<>>) <=> (a = <<>>))
  BY TokensPrefix
<1>3. Tokens(k, a \o b) = x \o y
  BY TokensJoin
<1>4. a \o GetAppendableChunk(a, b) = IF a # <<>> /\ IsPrefix(a, b) THEN b ELSE a \o b
  BY Appended
<1> HIDE DEF S, x, y
<1>5. x \o GetAppendableChunk(x, y) = IF x # <<>> /\ IsPrefix(x, y) THEN y ELSE x \o y
  BY <1>1, Appended
<1>6. x \o GetAppendableChunk(x, y) = Tokens(k, a \o GetAppendableChunk(a, b))
  BY <1>2, <1>3, <1>4, <1>5 DEF y
<1>7. MergePendingStreamChunk(x, y) = Tokens(k, MergePendingStreamChunk(a, b))
  BY <1>2, <1>3 DEF MergePendingStreamChunk, y
<1> QED
  BY <1>6, <1>7 DEF x, y

\* The chunks of a script carry letters.
LEMMA ChunkAt ==
  ASSUME NEW script \in Seq(Chunk), NEW i \in 1..Len(script)
  PROVE  script[i] \in Chunk /\ script[i].text \in Seq(Alphabet)
<1>1. script[i] \in Chunk
  OBVIOUS
<1> QED
  BY <1>1 DEF Chunk

\* The chunks put together only grow.
LEMMA JoinedGrows ==
  ASSUME NEW script \in Seq(Chunk), NEW type, NEW b \in 0..Len(script)
  PROVE  \A a \in 0..b : IsPrefix(Joined(script, type)[a], Joined(script, type)[b])
<1> DEFINE J == Joined(script, type)
           n == Len(script)
           C == {i \in 0..n : \A a \in 0..i : IsPrefix(J[a], J[i])}
<1>1. /\ J \in [0..n -> Seq(Alphabet)] /\ J[0] = <<>> /\ n \in Nat
      /\ \A i \in 1..n : J[i] = IF script[i].type = type THEN J[i - 1] \o script[i].text ELSE J[i - 1]
  BY JoinedSteps
<1>a. \A i \in 1..n : script[i].text \in Seq(Alphabet)
  BY ChunkAt
<1> HIDE DEF J, n
<1>2. \A i \in 0..n : J[i] \in Seq(Alphabet)
  BY <1>1
<1>3. 0 \in C
  <2>1. IsPrefix(J[0], J[0]) /\ 0 \in 0..n
    BY <1>1, <1>2, PrefixJoin
  <2> QED
    BY <2>1
<1>4. ASSUME NEW i \in 1..n, i - 1 \in C PROVE i \in C
  <2>1. i \in 0..n /\ i - 1 \in 0..n /\ J[i] \in Seq(Alphabet) /\ J[i - 1] \in Seq(Alphabet)
    BY <1>1, <1>2
  <2>2. IsPrefix(J[i - 1], J[i])
    <3>1. CASE script[i].type = type
      <4>1. J[i] = J[i - 1] \o script[i].text /\ script[i].text \in Seq(Alphabet)
        BY <1>1, <1>a, <3>1
      <4> QED
        BY <2>1, <4>1, PrefixJoin
    <3>2. CASE script[i].type # type
      <4>1. J[i] = J[i - 1]
        BY <1>1, <3>2
      <4> QED
        BY <2>1, <4>1, PrefixJoin
    <3> QED
      BY <3>1, <3>2
  <2>3. ASSUME NEW a \in 0..i PROVE IsPrefix(J[a], J[i])
    <3>1. CASE a = i
      BY <2>1, <3>1, PrefixJoin
    <3>2. CASE a # i
      <4>1. a \in 0..(i - 1) /\ a \in 0..n
        BY <1>1, <3>2
      <4>2. IsPrefix(J[a], J[i - 1]) /\ J[a] \in Seq(Alphabet)
        BY <1>2, <1>4, <4>1
      <4> QED
        BY <2>1, <2>2, <4>2, PrefixTrans
    <3> QED
      BY <3>1, <3>2
  <2> QED
    BY <2>1, <2>3
<1>5. \A i \in 0..n : i \in C
  <2> HIDE DEF C
  <2> QED
    BY <1>1, <1>3, <1>4, UpTo
<1>6. b \in 0..n
  BY DEF n
<1> QED
  BY <1>5, <1>6 DEF J

\* The last chunk of a type.
LEMMA LatestSteps ==
  ASSUME NEW script \in Seq(Chunk), NEW type
  PROVE  /\ Latest(script, type, 0) = <<>>
         /\ \A n \in 0..Len(script) : Latest(script, type, n) \in Seq(Alphabet)
         /\ \A n \in 1..Len(script) :
              Latest(script, type, n) = IF script[n].type = type THEN script[n].text
                                        ELSE Latest(script, type, n - 1)
<1> DEFINE Of(n) == {i \in 1..n : script[i].type = type}
<1>0. Len(script) \in Nat
  OBVIOUS
<1>1. \A n : Latest(script, type, n) = IF Of(n) = {} THEN <<>> ELSE script[Max(Of(n))].text
  BY DEF Latest
<1>2. ASSUME NEW n \in 0..Len(script), Of(n) # {}
      PROVE  Max(Of(n)) \in 1..n /\ Max(Of(n)) \in Of(n) /\ \A x \in Of(n) : x <= Max(Of(n))
  <2>1. n \in Nat /\ Of(n) \in SUBSET (1..n)
    OBVIOUS
  <2> HIDE DEF Of
  <2> QED
    BY <1>2, <2>1, MaxIn
<1>3. Latest(script, type, 0) = <<>>
  <2>1. Of(0) = {}
    OBVIOUS
  <2> QED
    BY <1>1, <2>1
<1>4. ASSUME NEW n \in 0..Len(script) PROVE Latest(script, type, n) \in Seq(Alphabet)
  <2>1. CASE Of(n) = {}
    BY <1>1, <2>1, EmptyText
  <2>2. CASE Of(n) # {}
    <3> DEFINE x == Max(Of(n))
    <3>1. x \in 1..n
      BY <1>2, <2>2
    <3>2. Latest(script, type, n) = script[x].text
      BY <1>1, <2>2
    <3> HIDE DEF x
    <3>3. x \in 1..Len(script)
      BY <1>0, <3>1
    <3> QED
      BY <3>2, <3>3, ChunkAt
  <2> QED
    BY <2>1, <2>2
<1>5. ASSUME NEW n \in 1..Len(script)
      PROVE  Latest(script, type, n) = IF script[n].type = type THEN script[n].text
                                       ELSE Latest(script, type, n - 1)
  <2>1. CASE script[n].type = type
    <3>1. n \in Of(n) /\ n \in 0..Len(script)
      BY <2>1
    <3> DEFINE x == Max(Of(n))
    <3>2. x \in 1..n /\ n <= x
      <4>1. Of(n) # {}
        BY <3>1
      <4> HIDE DEF Of
      <4> QED
        BY <1>2, <3>1, <4>1
    <3>3. Latest(script, type, n) = script[x].text
      BY <1>1, <3>1
    <3> HIDE DEF x
    <3>4. x = n
      BY <3>2
    <3> QED
      BY <2>1, <3>3, <3>4
  <2>2. CASE script[n].type # type
    <3>1. Of(n) = Of(n - 1)
      BY <2>2
    <3> HIDE DEF Of
    <3> QED
      BY <1>1, <2>2, <3>1
  <2> QED
    BY <2>1, <2>2
<1> QED
  BY <1>3, <1>4, <1>5

\* Snapshots: every chunk starts with the one before it of its type.
LEMMA LatestGrows ==
  ASSUME NEW script \in Seq(Chunk), NEW type, IsSnapshots(script, type),
         NEW n \in 1..Len(script), script[n].type = type
  PROVE  IsPrefix(Latest(script, type, n - 1), script[n].text)
<1> DEFINE of == {i \in 1..(n - 1) : script[i].type = type}
<1>0. script[n].text \in Seq(Alphabet) /\ Len(script) \in Nat /\ DOMAIN script = 1..Len(script)
  BY ChunkAt
<1>1. Latest(script, type, n - 1) = IF of = {} THEN <<>> ELSE script[Max(of)].text
  BY DEF Latest
<1>2. CASE of = {}
  BY <1>0, <1>1, <1>2, PrefixJoin
<1>3. CASE of # {}
  <2> DEFINE x == Max(of)
  <2>1. n - 1 \in Nat /\ of \in SUBSET (1..(n - 1))
    OBVIOUS
  <2>2. x \in of
    <3> HIDE DEF of
    <3> QED
      BY <1>3, <2>1, MaxIn
  <2>3. Latest(script, type, n - 1) = script[x].text
    BY <1>1, <1>3
  <2> HIDE DEF x
  <2>4. x \in DOMAIN script /\ n \in DOMAIN script /\ x < n /\ script[x].type = type
    BY <1>0, <2>2
  <2> QED
    BY <2>3, <2>4 DEF IsSnapshots
<1> QED
  BY <1>2, <1>3

\* What the server has said is a text that only grows, chunk by chunk.
LEMMA SaidGrows ==
  ASSUME NEW script \in Seq(Chunk), NEW type
  PROVE  /\ \A n \in 0..Len(script) : Said(script, type, n) \in Seq(Alphabet)
         /\ \A n \in 0..Len(script) : IsPrefix(Said(script, type, n), WholeText(script, type))
<1> DEFINE N == Len(script)
           T(n) == Said(script, type, n)
           C == {i \in 0..N : \A a \in 0..i : IsPrefix(T(a), T(i))}
<1>0. N \in Nat
  OBVIOUS
<1>1. CASE ~IsSnapshots(script, type)
  <2>1. \A n : T(n) = Joined(script, type)[n]
    BY <1>1 DEF Said
  <2>2. Joined(script, type) \in [0..N -> Seq(Alphabet)]
    BY JoinedSteps
  <2>3. N \in 0..N /\ WholeText(script, type) = T(N)
    BY <1>0 DEF WholeText
  <2>4. \A a \in 0..N : IsPrefix(Joined(script, type)[a], Joined(script, type)[N])
    BY <2>3, JoinedGrows
  <2> HIDE DEF T, N
  <2>5. \A n \in 0..N : T(n) \in Seq(Alphabet) /\ IsPrefix(T(n), T(N))
    BY <2>1, <2>2, <2>4
  <2> QED
    BY <2>3, <2>5 DEF T, N
<1>2. CASE IsSnapshots(script, type)
  <2>1. \A n : T(n) = Latest(script, type, n)
    BY <1>2 DEF Said
  <2>a. /\ \A n \in 0..N : Latest(script, type, n) \in Seq(Alphabet)
        /\ \A n \in 1..N : Latest(script, type, n) = IF script[n].type = type THEN script[n].text
                                                     ELSE Latest(script, type, n - 1)
    BY LatestSteps
  <2>2. \A n \in 0..N : T(n) \in Seq(Alphabet)
    BY <2>1, <2>a
  <2>3. ASSUME NEW n \in 1..N PROVE IsPrefix(T(n - 1), T(n))
    <3>1. n - 1 \in 0..N /\ n \in 0..N
      BY <1>0
    <3>2. T(n) = IF script[n].type = type THEN script[n].text ELSE T(n - 1)
      BY <2>1, <2>a
    <3>3. script[n].type = type => IsPrefix(T(n - 1), script[n].text)
      BY <1>2, <2>1, LatestGrows
    <3>4. IsPrefix(T(n - 1), T(n - 1))
      <4>1. T(n - 1) \in Seq(Alphabet)
        BY <2>2, <3>1
      <4> HIDE DEF T
      <4> QED
        BY <4>1, PrefixJoin
    <3> HIDE DEF T
    <3> QED
      BY <3>2, <3>3, <3>4
  <2>4. WholeText(script, type) = T(N)
    BY DEF WholeText
  <2> HIDE DEF T, N
  <2>5. 0 \in C
    <3>1. T(0) \in Seq(Alphabet)
      BY <1>0, <2>2
    <3>2. IsPrefix(T(0), T(0))
      BY <3>1, PrefixJoin
    <3> QED
      BY <1>0, <3>2
  <2>6. ASSUME NEW i \in 1..N, i - 1 \in C PROVE i \in C
    <3>1. i \in 0..N /\ i - 1 \in 0..N
      BY <1>0
    <3>2. T(i) \in Seq(Alphabet) /\ T(i - 1) \in Seq(Alphabet) /\ IsPrefix(T(i - 1), T(i))
      BY <2>2, <2>3, <3>1
    <3>3. ASSUME NEW a \in 0..i PROVE IsPrefix(T(a), T(i))
      <4>1. CASE a = i
        BY <3>2, <4>1, PrefixJoin
      <4>2. CASE a # i
        <5>1. a \in 0..(i - 1) /\ a \in 0..N
          BY <1>0, <4>2
        <5>2. IsPrefix(T(a), T(i - 1)) /\ T(a) \in Seq(Alphabet)
          BY <2>2, <2>6, <5>1
        <5> QED
          BY <3>2, <5>2, PrefixTrans
      <4> QED
        BY <4>1, <4>2
    <3> QED
      BY <3>1, <3>3
  <2>7. \A i \in 0..N : i \in C
    <3> HIDE DEF C
    <3> QED
      BY <1>0, <2>5, <2>6, UpTo
  <2>8. N \in C
    BY <1>0, <2>7
  <2>9. \A n \in 0..N : T(n) \in Seq(Alphabet) /\ IsPrefix(T(n), T(N))
    BY <2>2, <2>8
  <2> QED
    BY <2>4, <2>9 DEF T, N
<1> QED
  BY <1>1, <1>2

-----------------------------------------------------------------------------
(* A message that grows with the stream.  However the chunks are merged,   *)
(* the message and what is pending make up what was said.                  *)

\* The message has x of one type and y is pending, after n chunks.
Grown(script, type, n, x, y) ==
  /\ IsSnapshots(script, type) =>
       \/ y = <<>> /\ x = Latest(script, type, n)
       \/ y = Latest(script, type, n) /\ IsPrefix(x, y)
  /\ ~IsSnapshots(script, type) /\ IsDelta(script, type) =>
       \E a \in 0..n : x = Joined(script, type)[a] /\ x \o y = Joined(script, type)[n]

\* So it starts.
LEMMA GrownStart ==
  ASSUME NEW script \in Seq(Chunk), NEW type
  PROVE  Grown(script, type, 0, <<>>, <<>>)
<1>1. Latest(script, type, 0) = <<>> /\ Joined(script, type)[0] = <<>>
  BY LatestSteps, JoinedSteps
<1>2. 0 \in 0..0 /\ <<>> \o <<>> = <<>>
  OBVIOUS
<1> QED
  BY <1>1, <1>2 DEF Grown

\* What two stretches of deltas say of each other.
LEMMA DeltaApart ==
  ASSUME NEW script \in Seq(Chunk), NEW type, IsDelta(script, type),
         NEW i \in 0..Len(script), NEW j \in 0..Len(script), NEW l \in 0..Len(script),
         i <= j, j <= l, i = 0 \/ l = j + 1,
         NEW x \in Seq(Alphabet), NEW y \in Seq(Alphabet), x # <<>>,
         Joined(script, type)[j] = Joined(script, type)[i] \o x,
         Joined(script, type)[l] = Joined(script, type)[j] \o y
  PROVE  ~IsPrefix(x, y)
<1> DEFINE J == Joined(script, type)
           a == J[i]
           b == J[j]
           c == J[l]
<1>1. a \in Seq(Alphabet) /\ b \in Seq(Alphabet) /\ c \in Seq(Alphabet)
  BY JoinedAt, Zenon
<1>2. b = a \o x /\ c = b \o y
  OBVIOUS
<1>3. Stretch(script, type, i, j) = SubSeq(b, Len(a) + 1, Len(b))
      /\ Stretch(script, type, j, l) = SubSeq(c, Len(b) + 1, Len(c))
  BY DEF Stretch
<1>4. i < j
  <2>1. CASE i = j
    <3>1. a = a \o x
      BY <1>2, <2>1
    <3> HIDE DEF a
    <3> QED
      BY <1>1, <3>1
  <2> QED
    BY <2>1
<1> HIDE DEF a, b, c
<1>5. Stretch(script, type, i, j) = x /\ Stretch(script, type, j, l) = y
  <2>1. x = SubSeq(a \o x, Len(a) + 1, Len(a \o x)) /\ y = SubSeq(b \o y, Len(b) + 1, Len(b \o y))
    BY <1>1, Rest
  <2> QED
    BY <1>2, <1>3, <2>1
<1> QED
  BY <1>4, <1>5 DEF IsDelta

\* One more chunk, merged into what is pending.
LEMMA ChunkGrown ==
  ASSUME NEW script \in Seq(Chunk), NEW type, NEW n \in Nat, n + 1 \in 1..Len(script),
         NEW x \in Seq(Alphabet), NEW y \in Seq(Alphabet), Grown(script, type, n, x, y)
  PROVE  Grown(script, type, n + 1, x,
               IF script[n + 1].type = type THEN MergePendingStreamChunk(y, script[n + 1].text) ELSE y)
<1> DEFINE t == script[n + 1].text
           L == Latest(script, type, n)
           M == Latest(script, type, n + 1)
           J == Joined(script, type)
           z == MergePendingStreamChunk(y, t)
<1>0. n \in 0..Len(script) /\ n + 1 \in 0..Len(script) /\ (n + 1) - 1 = n
  OBVIOUS
<1>1. t \in Seq(Alphabet)
  BY ChunkAt
<1>a. /\ \A i \in 0..Len(script) : Latest(script, type, i) \in Seq(Alphabet)
      /\ \A i \in 1..Len(script) : Latest(script, type, i) = IF script[i].type = type THEN script[i].text
                                                            ELSE Latest(script, type, i - 1)
  BY LatestSteps
<1>2. M = IF script[n + 1].type = type THEN t ELSE L
  BY <1>0, <1>a
<1>3. J[n + 1] = IF script[n + 1].type = type THEN J[n] \o t ELSE J[n]
  BY <1>0, JoinedSteps
<1>4. L \in Seq(Alphabet) /\ \A i \in 0..Len(script) : J[i] \in Seq(Alphabet)
  <2>1. \A i \in 0..Len(script) : J[i] \in Seq(Alphabet)
    BY JoinedSteps, SMTT(30)
  <2> QED
    BY <1>0, <1>a, <2>1
<1>5. CASE script[n + 1].type # type
  <2>1. L = M /\ J[n + 1] = J[n]
    BY <1>2, <1>3, <1>5
  <2>2. \A a \in 0..n : a \in 0..(n + 1)
    OBVIOUS
  <2> QED
    BY <1>5, <2>1, <2>2 DEF Grown
<1>6. CASE script[n + 1].type = type
  <2>1. M = t /\ J[n + 1] = J[n] \o t
    BY <1>2, <1>3, <1>6
  <2>2. ASSUME IsSnapshots(script, type) PROVE z = M /\ IsPrefix(x, z)
    <3>1. IsPrefix(L, t)
      BY <1>0, <1>6, <2>2, LatestGrows
    <3>2. CASE y = <<>> /\ x = L
      <4>1. z = t
        BY <1>1, <3>2, JoinAssoc DEF MergePendingStreamChunk
      <4> QED
        BY <2>1, <3>1, <3>2, <4>1
    <3>3. CASE y = L /\ IsPrefix(x, y)
      <4>1. z = t
        BY <1>1, <3>1, <3>3, JoinAssoc DEF MergePendingStreamChunk
      <4>2. IsPrefix(x, t)
        BY <1>1, <3>1, <3>3, PrefixTrans
      <4> QED
        BY <2>1, <4>1, <4>2
    <3> QED
      BY <2>2, <3>2, <3>3 DEF Grown
  <2>3. ASSUME ~IsSnapshots(script, type), IsDelta(script, type)
        PROVE  \E a \in 0..(n + 1) : x = J[a] /\ x \o z = J[n + 1]
    <3>1. PICK a \in 0..n : x = J[a] /\ x \o y = J[n]
      BY <2>3 DEF Grown
    <3>2. z = y \o t
      <4>1. CASE y = <<>>
        BY <4>1 DEF MergePendingStreamChunk
      <4>2. CASE y # <<>>
        <5>1. /\ a \in 0..Len(script) /\ n \in 0..Len(script) /\ n + 1 \in 0..Len(script)
              /\ a <= n /\ n <= n + 1 /\ n + 1 = n + 1
          BY <1>0
        <5>2. ~IsPrefix(y, t)
          <6>1. J[n] = J[a] \o y /\ J[n + 1] = J[n] \o t
            BY <2>1, <3>1, Zenon
          <6>2. y \in Seq(Alphabet) /\ t \in Seq(Alphabet)
            BY <1>1
          <6> HIDE DEF t
          <6> QED
            BY <2>3, <4>2, <5>1, <6>1, <6>2, DeltaApart, Zenon
        <5> QED
          BY <5>2 DEF MergePendingStreamChunk
      <4> QED
        BY <4>1, <4>2
    <3>3. x \o z = (x \o y) \o t
      <4>0. x \in Seq(Alphabet) /\ y \in Seq(Alphabet) /\ t \in Seq(Alphabet)
        BY <1>1, Zenon
      <4> HIDE DEF z, t
      <4>1. (x \o y) \o t = x \o (y \o t)
        BY <4>0, JoinAssoc, SMTT(30)
      <4> QED
        BY <3>2, <4>1
    <3>4. a \in 0..(n + 1)
      OBVIOUS
    <3> QED
      BY <2>1, <3>1, <3>3, <3>4
  <2> QED
    BY <1>6, <2>2, <2>3 DEF Grown
<1> QED
  BY <1>5, <1>6

\* A flush appends what is pending, except for what it repeats of the message.
LEMMA FlushGrown ==
  ASSUME NEW script \in Seq(Chunk), NEW type, NEW n \in 0..Len(script),
         NEW x \in Seq(Alphabet), NEW y \in Seq(Alphabet), Grown(script, type, n, x, y)
  PROVE  /\ Grown(script, type, n, x \o GetAppendableChunk(x, y), <<>>)
         /\ x \o GetAppendableChunk(x, y) \in Seq(Alphabet)
         /\ IsPrefix(x, x \o GetAppendableChunk(x, y))
<1> DEFINE z == x \o GetAppendableChunk(x, y)
           J == Joined(script, type)
           L == Latest(script, type, n)
<1>1. z = IF x # <<>> /\ IsPrefix(x, y) THEN y ELSE x \o y
  BY Appended
<1>2. z \in Seq(Alphabet) /\ IsPrefix(x, z)
  BY <1>1, PrefixJoin
<1>3. \A i \in 0..Len(script) : J[i] \in Seq(Alphabet)
  BY JoinedSteps
<1> HIDE DEF z
<1>4. ASSUME IsSnapshots(script, type) PROVE z = L
  <2>1. CASE y = <<>> /\ x = L
    <3>1. IsPrefix(x, y) => x = <<>>
      BY <2>1, PrefixJoin
    <3>2. x \o y = x
      BY <2>1, JoinAssoc
    <3> QED
      BY <1>1, <2>1, <3>1, <3>2
  <2>2. CASE y = L /\ IsPrefix(x, y)
    <3>1. <<>> \o y = y
      BY JoinAssoc
    <3> QED
      BY <1>1, <2>2, <3>1
  <2> QED
    BY <1>4, <2>1, <2>2 DEF Grown
<1>5. ASSUME ~IsSnapshots(script, type), IsDelta(script, type) PROVE z = J[n]
  <2>1. PICK a \in 0..n : x = J[a] /\ x \o y = J[n]
    BY <1>5 DEF Grown
  <2>2. CASE x = <<>>
    BY <1>1, <2>1, <2>2
  <2>3. CASE x # <<>>
    <3>1. a \in 0..Len(script) /\ 0 \in 0..Len(script) /\ 0 <= a /\ a <= n
      OBVIOUS
    <3>2. J[0] = <<>>
      BY JoinedSteps
    <3>3. J[a] = J[0] \o x
      BY <2>1, <3>2, JoinAssoc
    <3>4. ~IsPrefix(x, y)
      BY <1>5, <2>1, <2>3, <3>1, <3>3, DeltaApart
    <3> QED
      BY <1>1, <2>1, <3>4
  <2> QED
    BY <2>2, <2>3
<1>6. z \o <<>> = z /\ n \in 0..n
  BY <1>2, JoinAssoc
<1>7. Grown(script, type, n, z, <<>>)
  BY <1>4, <1>5, <1>6 DEF Grown
<1> QED
  BY <1>2, <1>7 DEF z

\* With nothing pending the message has what the server has said.
LEMMA GrownSaid ==
  ASSUME NEW script \in Seq(Chunk), NEW type, Plain(script, type), NEW n \in 0..Len(script),
         NEW x \in Seq(Alphabet), Grown(script, type, n, x, <<>>)
  PROVE  x = Said(script, type, n)
<1>1. CASE IsSnapshots(script, type)
  <2>1. IsPrefix(x, <<>>) => x = <<>>
    BY PrefixJoin
  <2> QED
    BY <1>1, <2>1 DEF Grown, Said
<1>2. CASE ~IsSnapshots(script, type)
  <2>1. x \o <<>> = x
    BY JoinAssoc
  <2> QED
    BY <1>2, <2>1 DEF Grown, Said, Plain
<1> QED
  BY <1>1, <1>2

\* All chunks merged are the whole text.
LEMMA MergedIsWhole ==
  ASSUME NEW script \in Seq(Chunk), NEW type, Plain(script, type),
         NEW p, MergeTrace(p, script, type)
  PROVE  p[Len(script)] = WholeText(script, type)
<1> DEFINE N == Len(script)
           C == {n \in 0..N : Grown(script, type, n, <<>>, p[n])}
           e == <<>>
<1>0. N \in Nat /\ e \in Seq(Alphabet)
  OBVIOUS
<1>1. /\ \A n \in 0..N : p[n] \in Seq(Alphabet)
      /\ p[0] = <<>>
      /\ \A i \in 1..N : p[i] = IF script[i].type = type
                                THEN MergePendingStreamChunk(p[i - 1], script[i].text) ELSE p[i - 1]
  BY DEF MergeTrace
<1>2. 0 \in C
  BY <1>0, <1>1, GrownStart
<1>3. ASSUME NEW i \in 1..N, i - 1 \in C PROVE i \in C
  <2> DEFINE n == i - 1
  <2>1. n \in Nat /\ n + 1 = i /\ n + 1 \in 1..Len(script) /\ n \in 0..N /\ i \in 0..N
    BY <1>0
  <2>2. Grown(script, type, n, <<>>, p[n]) /\ p[n] \in Seq(Alphabet)
    BY <1>1, <1>3, <2>1
  <2>3. p[i] = IF script[i].type = type THEN MergePendingStreamChunk(p[n], script[i].text) ELSE p[n]
    BY <1>1
  <2> HIDE DEF n
  <2>4. Grown(script, type, n + 1, <<>>, p[n + 1])
    BY <1>0, <2>1, <2>2, <2>3, ChunkGrown
  <2> QED
    BY <2>1, <2>4
<1>4. \A i \in 0..N : i \in C
  <2> HIDE DEF C
  <2> QED
    BY <1>0, <1>2, <1>3, UpTo
<1>5. N \in 0..N /\ Grown(script, type, N, e, p[N]) /\ p[N] \in Seq(Alphabet)
  BY <1>0, <1>1, <1>4
<1> DEFINE z == e \o GetAppendableChunk(e, p[N])
<1>6. z = p[N]
  <2>1. z = e \o p[N]
    BY <1>0, <1>5, Appended
  <2> QED
    BY <1>5, <2>1, JoinAssoc
<1>7. Grown(script, type, N, z, <<>>)
  <2> HIDE DEF e
  <2> QED
    BY <1>0, <1>5, FlushGrown
<1> HIDE DEF z
<1>8. z = Said(script, type, N)
  BY <1>5, <1>6, <1>7, GrownSaid
<1> QED
  BY <1>6, <1>8 DEF WholeText

\* When the server says nothing, every chunk is empty.
LEMMA NothingSaid ==
  ASSUME NEW script \in Seq(Chunk), NEW type, WholeText(script, type) = <<>>,
         NEW i \in 1..Len(script), script[i].type = type
  PROVE  script[i].text = <<>>
<1>0. i \in 0..Len(script) /\ script[i].text \in Seq(Alphabet)
  BY ChunkAt
<1>1. Said(script, type, i) \in Seq(Alphabet) /\ IsPrefix(Said(script, type, i), <<>>)
  BY <1>0, SaidGrows
<1>2. Said(script, type, i) = <<>>
  BY <1>1, PrefixJoin
<1>3. CASE IsSnapshots(script, type)
  <2>1. Latest(script, type, i) = script[i].text
    BY LatestSteps
  <2> QED
    BY <1>2, <1>3, <2>1 DEF Said
<1>4. CASE ~IsSnapshots(script, type)
  <2> DEFINE a == Joined(script, type)[i - 1]
             t == script[i].text
  <2>1. Joined(script, type)[i] = a \o t /\ a \in Seq(Alphabet)
    <3>1. i - 1 \in 0..Len(script)
      OBVIOUS
    <3> QED
      <4>1. a \in Seq(Alphabet)
        BY <3>1, JoinedAt
      <4>2. Joined(script, type)[i] = a \o t
        BY JoinedSteps
      <4> QED
        BY <4>1, <4>2
  <2>2. a \o t = <<>>
    BY <1>2, <1>4, <2>1 DEF Said
  <2>3. t \in Seq(Alphabet)
    BY <1>0
  <2> HIDE DEF a, t
  <2>4. t = <<>>
    BY <2>1, <2>2, <2>3
  <2> QED
    BY <2>4 DEF t
<1> QED
  BY <1>3, <1>4

\* parseThinkTags takes no reasoning back: of a text without reasoning, no
\* beginning has any.
LEMMA ParseBeginning ==
  ASSUME NEW S, NEW a \in Seq(S), NEW b \in Seq(S), IsPrefix(a, b),
         ParseThinkTags(b).reasoning = <<>>
  PROVE  ParseThinkTags(a).reasoning = <<>>
<1> DEFINE N == Len(b)
           M == Len(a)
<1>0. N \in Nat /\ M \in Nat /\ M <= N /\ \A i \in 1..M : a[i] = b[i]
  BY PrefixOf
<1>1. PICK p : ParseTrace(p, S, a)
  BY ParseTraces
<1>2. PICK q : ParseTrace(q, S, b)
  BY ParseTraces
<1>3. /\ p[0] = q[0] /\ (\A i \in 1..M : p[i] = ParseStep(p[i - 1], a[i])) /\ ParseThinkTags(a) = p[M]
      /\ (\A i \in 1..N : q[i] = ParseStep(q[i - 1], b[i])) /\ ParseThinkTags(b) = q[N]
      /\ (\A i \in 0..N : q[i] \in Parsed(S))
  BY <1>1, <1>2 DEF ParseTrace
<1> HIDE DEF N, M
<1>4. p[M] = q[M]
  <2>1. ASSUME NEW i \in 1..M, p[i - 1] = q[i - 1] PROVE p[i] = q[i]
    <3>1. i \in 1..N
      BY <1>0
    <3> QED
      BY <1>0, <1>3, <2>1, <3>1
  <2>2. \A i \in 0..M : p[i] = q[i]
    <3> DEFINE C == {i \in Nat : p[i] = q[i]}
    <3>1. 0 \in C /\ \A i \in 1..M : i - 1 \in C => i \in C
      BY <1>0, <1>3, <2>1
    <3>2. \A i \in 0..M : i \in C
      <4> HIDE DEF C
      <4> QED
        BY <1>0, <3>1, UpTo
    <3> QED
      BY <3>2
  <2> QED
    BY <1>0, <2>2
<1>5. ASSUME NEW i \in 1..N, q[i].reasoning = <<>> PROVE q[i - 1].reasoning = <<>>
  <2> DEFINE acc == q[i - 1]
  <2>1. acc \in Parsed(S)
    <3>1. i - 1 \in 0..N
      BY <1>0
    <3> QED
      BY <1>3, <3>1
  <2>2. q[i] = ParseStep(acc, b[i])
    BY <1>3
  <2> HIDE DEF acc
  <2>3. acc.reasoning \in Seq(S)
    BY <2>1 DEF Parsed
  <2>4. Append(acc.reasoning, b[i]) # <<>>
    BY <2>3
  <2>5. \/ ParseStep(acc, b[i]).reasoning = acc.reasoning
        \/ ParseStep(acc, b[i]).reasoning = Append(acc.reasoning, b[i])
    BY <2>1 DEF ParseStep, Parsed
  <2>6. acc.reasoning = <<>>
    BY <1>5, <2>2, <2>4, <2>5
  <2> QED
    BY <2>6 DEF acc
<1> DEFINE C == {d \in 0..N : q[N - d].reasoning = <<>>}
<1>6. 0 \in C
  BY <1>0, <1>3
<1>7. ASSUME NEW d \in 1..N, d - 1 \in C PROVE d \in C
  <2>1. N - (d - 1) \in 1..N /\ (N - (d - 1)) - 1 = N - d /\ d \in 0..N
    BY <1>0
  <2>2. q[N - (d - 1)].reasoning = <<>>
    BY <1>7
  <2>3. q[(N - (d - 1)) - 1].reasoning = <<>>
    BY <1>5, <2>1, <2>2
  <2> QED
    BY <2>1, <2>3
<1>8. \A d \in 0..N : d \in C
  <2> HIDE DEF C
  <2> QED
    BY <1>0, <1>6, <1>7, UpTo
<1>9. N - M \in 0..N /\ N - (N - M) = M
  BY <1>0
<1>10. q[M].reasoning = <<>>
  BY <1>8, <1>9
<1> QED
  BY <1>3, <1>4, <1>10

\* Without a tag there is no reasoning.
LEMMA NoTagNoReasoning ==
  ASSUME NEW S, NEW a \in Seq(S), ~HasThink(a)
  PROVE  ParseThinkTags(a).reasoning = <<>>
<1> DEFINE N == Len(a)
<1>0. N \in Nat /\ DOMAIN a = 1..N
  OBVIOUS
<1>1. PICK p : ParseTrace(p, S, a)
  BY ParseTraces
<1>2. /\ p[0] = Empty /\ (\A i \in 1..N : p[i] = ParseStep(p[i - 1], a[i])) /\ ParseThinkTags(a) = p[N]
      /\ (\A i \in 0..N : p[i] \in Parsed(S))
  BY <1>1 DEF ParseTrace
<1>3. \A i \in 1..N : a[i].c # Think
  BY <1>0 DEF HasThink
<1> HIDE DEF N
<1> DEFINE C == {i \in 0..N : p[i].reasoning = <<>> /\ p[i].open = FALSE}
<1>4. 0 \in C
  BY <1>0, <1>2 DEF Empty
<1>5. ASSUME NEW i \in 1..N, i - 1 \in C PROVE i \in C
  <2> DEFINE acc == p[i - 1]
  <2>1. i - 1 \in 0..N /\ i \in 0..N
    BY <1>0
  <2>2. acc \in Parsed(S) /\ acc.reasoning = <<>> /\ acc.open = FALSE
    BY <1>2, <1>5, <2>1
  <2>3. p[i] = ParseStep(acc, a[i]) /\ a[i].c # Think
    BY <1>2, <1>3
  <2> HIDE DEF acc
  <2>4. ParseStep(acc, a[i]) = [acc EXCEPT !.content = Append(@, a[i])]
    BY <2>2, <2>3 DEF ParseStep
  <2>5. p[i].reasoning = <<>> /\ p[i].open = FALSE
    BY <2>2, <2>3, <2>4 DEF Parsed
  <2> QED
    BY <2>1, <2>5
<1>6. \A i \in 0..N : i \in C
  <2> HIDE DEF C
  <2> QED
    BY <1>0, <1>4, <1>5, UpTo
<1>7. N \in 0..N
  BY <1>0
<1> QED
  BY <1>2, <1>6, <1>7

\* No text parses to nothing.
LEMMA ParseNothing == ParseThinkTags(<<>>).reasoning = <<>>
<1> DEFINE e == <<>>
           S == {}
<1>1. e \in Seq(S) /\ DOMAIN e = {}
  OBVIOUS
<1> HIDE DEF e, S
<1>2. ParseThinkTags(e).reasoning = <<>>
  BY <1>1, NoTagNoReasoning DEF HasThink
<1> QED
  BY <1>2 DEF e

-----------------------------------------------------------------------------
(* The message that the chunks fill.                                       *)

\* What a flush does to a message.
LEMMA ChunkFields ==
  ASSUME NEW m \in OwnMessage, m.from = "assistant", m.status # "error", NEW t \in OwnText(m.k)
  PROVE  LET e == ApplyStreamingChunk(m, t)
             x == m.content \o GetAppendableChunk(m.content, t.content)
             y == m.reasoning \o GetAppendableChunk(m.reasoning, t.reasoning)
         IN  /\ e.status = "streaming" /\ e.k = m.k /\ e.whole = m.whole
             /\ e.content = x
             /\ e.reasoning = IF t.content # <<>> /\ HasThink(x) /\ ParseThinkTags(x).reasoning # <<>>
                              THEN ParseThinkTags(x).reasoning ELSE y
<1> DEFINE x == m.content \o GetAppendableChunk(m.content, t.content)
           y == m.reasoning \o GetAppendableChunk(m.reasoning, t.reasoning)
           r == [m EXCEPT !.reasoning = y]
           z == IF HasThink(x) /\ ParseThinkTags(x).reasoning # <<>> THEN ParseThinkTags(x).reasoning ELSE y
           c == [r EXCEPT !.content = x, !.reasoning = z]
           b == IF t.content # <<>> THEN c ELSE r
           S == Tok(m.k)
<1>1. m.content \in Seq(S) /\ m.reasoning \in Seq(S) /\ t.content \in Seq(S)
  BY OwnFields DEF OwnText
<1>2. m \in Message
  BY DEF OwnMessage
<1>3. r.content = m.content /\ r.reasoning = y
  BY <1>2 DEF Message
<1>4. ApplyStreamingChunk(m, t) = [b EXCEPT !.status = "streaming"]
  BY <1>3 DEF ApplyStreamingChunk, ProcessStreamingContent
<1>5. t.content = <<>> => x = m.content
  <2> HIDE DEF S
  <2>1. ASSUME t.content = <<>> PROVE x = m.content
    <3>1. x = IF m.content # <<>> /\ IsPrefix(m.content, t.content) THEN t.content ELSE m.content \o t.content
      BY <1>1, Appended
    <3>2. IsPrefix(m.content, <<>>) => m.content = <<>>
      BY <1>1, PrefixJoin
    <3>3. m.content \o <<>> = m.content
      BY <1>1, JoinAssoc
    <3> QED
      BY <2>1, <3>1, <3>2, <3>3
  <2> QED
    BY <2>1
<1> HIDE DEF x, y, z
<1>6. b.content = x /\ b.reasoning = (IF t.content # <<>> THEN z ELSE y) /\ b.k = m.k /\ b.whole = m.whole
      /\ [b EXCEPT !.status = "streaming"].status = "streaming"
      /\ [b EXCEPT !.status = "streaming"].content = b.content
      /\ [b EXCEPT !.status = "streaming"].reasoning = b.reasoning
      /\ [b EXCEPT !.status = "streaming"].k = b.k
      /\ [b EXCEPT !.status = "streaming"].whole = b.whole
  <2>1. CASE t.content # <<>>
    <3>1. b = c
      BY <2>1
    <3> QED
      BY <1>2, <2>1, <3>1 DEF Message
  <2>2. CASE t.content = <<>>
    <3>1. b = r
      BY <2>2
    <3> QED
      BY <1>2, <1>5, <2>2, <3>1 DEF Message
  <2> QED
    BY <2>1, <2>2
<1> HIDE DEF b
<1> QED
  BY <1>4, <1>6 DEF x, y, z

\* What completing a message does to it.
LEMMA FinalFields ==
  ASSUME NEW m \in OwnMessage, NEW r
  PROVE  LET e == FinalizeMessage(m, r)
             p == ParseThinkTags(m.content)
         IN  /\ e.k = m.k /\ e.whole = m.whole /\ e.content = p.content
             /\ e.reasoning = IF r # <<>> THEN r
                              ELSE IF m.reasoning # <<>> THEN m.reasoning ELSE p.reasoning
<1>1. m \in Message
  BY DEF OwnMessage
<1> DEFINE p == ParseThinkTags(m.content)
           x == CASE r # <<>> -> r
                  [] r = <<>> /\ m.reasoning # <<>> -> m.reasoning
                  [] OTHER -> p.reasoning
<1>2. x = IF r # <<>> THEN r ELSE IF m.reasoning # <<>> THEN m.reasoning ELSE p.reasoning
  OBVIOUS
<1>3. FinalizeMessage(m, r) = [m EXCEPT !.content = p.content, !.reasoning = x]
  BY DEF FinalizeMessage
<1> HIDE DEF x, p
<1> QED
  BY <1>1, <1>2, <1>3 DEF Message, p

\* The message has the tokens X of one type and the tokens Y are pending.
GrownTokens(k, script, type, n, X, Y) ==
  \E x, y \in Seq(Alphabet) :
     X = Tokens(k, x) /\ Y = Tokens(k, y) /\ Grown(script, type, n, x, y)

\* The reasoning that the tags of the whole answer enclose.
Tagged(k, script) == ParseThinkTags(Tokens(k, WholeText(script, "content"))).reasoning

\* How far message m is after n chunks, with the text t pending.
Progress(k, script, n, m, t) ==
  Plain(script, "content") =>
    /\ GrownTokens(k, script, "content", n, m.content, t.content)
    /\ Plain(script, "reasoning") =>
         /\ Tagged(k, script) = <<>> => GrownTokens(k, script, "reasoning", n, m.reasoning, t.reasoning)
         /\ WholeText(script, "reasoning") = <<>> =>
               t.reasoning = <<>> /\ m.reasoning = ParseThinkTags(m.content).reasoning

\* No letters, no tokens.
LEMMA TokensNothing ==
  ASSUME NEW k
  PROVE  Tokens(k, <<>>) = <<>>
<1> DEFINE e == <<>>
<1>1. e \in Seq(Alphabet)
  OBVIOUS
<1> HIDE DEF e
<1>2. (Tokens(k, e) = <<>>) <=> (e = <<>>)
  BY <1>1, TokensPrefix
<1> QED
  BY <1>2 DEF e

\* Before the first chunk both are empty.
LEMMA StartTokens ==
  ASSUME NEW k, NEW script \in Seq(Chunk), NEW type
  PROVE  GrownTokens(k, script, type, 0, <<>>, <<>>)
<1> DEFINE e == <<>>
<1>1. e \in Seq(Alphabet) /\ e = Tokens(k, e) /\ Grown(script, type, 0, e, e)
  BY TokensNothing, GrownStart, EmptyText
<1> HIDE DEF e
<1>2. GrownTokens(k, script, type, 0, e, e)
  BY <1>1 DEF GrownTokens
<1> QED
  BY <1>2 DEF e

\* One more chunk, as handleStreamUpdate merges its tokens.
LEMMA ChunkTokens ==
  ASSUME NEW k, NEW script \in Seq(Chunk), NEW type, NEW n \in Nat, n + 1 \in 1..Len(script),
         NEW X, NEW Y, GrownTokens(k, script, type, n, X, Y)
  PROVE  GrownTokens(k, script, type, n + 1, X,
                     IF script[n + 1].type = type
                     THEN MergePendingStreamChunk(Y, Tokens(k, script[n + 1].text)) ELSE Y)
<1>1. PICK x \in Seq(Alphabet), y \in Seq(Alphabet) :
         X = Tokens(k, x) /\ Y = Tokens(k, y) /\ Grown(script, type, n, x, y)
  BY DEF GrownTokens
<1> DEFINE c == script[n + 1].text
           z == IF script[n + 1].type = type THEN MergePendingStreamChunk(y, c) ELSE y
           Z == IF script[n + 1].type = type THEN MergePendingStreamChunk(Y, Tokens(k, c)) ELSE Y
<1>2. c \in Seq(Alphabet)
  BY ChunkAt
<1>3. Grown(script, type, n + 1, x, z)
  BY <1>1, ChunkGrown
<1>4. z \in Seq(Alphabet)
  BY <1>2, MergeType
<1>5. Z = Tokens(k, z)
  BY <1>1, <1>2, TokensMerge
<1> HIDE DEF z, Z
<1>6. GrownTokens(k, script, type, n + 1, X, Z)
  BY <1>1, <1>3, <1>4, <1>5 DEF GrownTokens
<1> QED
  BY <1>6 DEF Z

\* A flush, as getAppendableChunk cuts its tokens.
LEMMA FlushTokens ==
  ASSUME NEW k, NEW script \in Seq(Chunk), NEW type, NEW n \in 0..Len(script),
         NEW X, NEW Y, GrownTokens(k, script, type, n, X, Y)
  PROVE  GrownTokens(k, script, type, n, X \o GetAppendableChunk(X, Y), <<>>)
<1>1. PICK x \in Seq(Alphabet), y \in Seq(Alphabet) :
         X = Tokens(k, x) /\ Y = Tokens(k, y) /\ Grown(script, type, n, x, y)
  BY DEF GrownTokens
<1> DEFINE z == x \o GetAppendableChunk(x, y)
           Z == X \o GetAppendableChunk(X, Y)
           e == <<>>
<1>2. Grown(script, type, n, z, e) /\ z \in Seq(Alphabet)
  BY <1>1, FlushGrown
<1>3. Z = Tokens(k, z)
  BY <1>1, TokensMerge
<1>4. e = Tokens(k, e) /\ e \in Seq(Alphabet)
  BY TokensNothing, EmptyText
<1> HIDE DEF z, Z, e
<1>5. GrownTokens(k, script, type, n, Z, e)
  BY <1>2, <1>3, <1>4 DEF GrownTokens
<1> QED
  BY <1>5 DEF Z, e

\* With nothing pending the message has what the server has said, which the whole
\* answer starts with.
LEMMA SaidTokens ==
  ASSUME NEW k, NEW script \in Seq(Chunk), NEW type, Plain(script, type), NEW n \in 0..Len(script),
         NEW X, GrownTokens(k, script, type, n, X, <<>>)
  PROVE  X = Tokens(k, Said(script, type, n))
<1>1. PICK x \in Seq(Alphabet), y \in Seq(Alphabet) :
         X = Tokens(k, x) /\ <<>> = Tokens(k, y) /\ Grown(script, type, n, x, y)
  BY DEF GrownTokens
<1>2. y = <<>>
  BY <1>1, TokensPrefix
<1>3. Grown(script, type, n, x, <<>>)
  BY <1>1, <1>2
<1>4. x = Said(script, type, n)
  BY <1>3, GrownSaid
<1> QED
  BY <1>1, <1>4

\* Before the first chunk.
LEMMA ProgressStart ==
  ASSUME NEW k, NEW script \in Seq(Chunk), NEW m, m.content = <<>>, m.reasoning = <<>>
  PROVE  Progress(k, script, 0, m, NoText)
<1>1. NoText.content = <<>> /\ NoText.reasoning = <<>>
  BY DEF NoText
<1>2. \A type : GrownTokens(k, script, type, 0, <<>>, <<>>)
  BY StartTokens
<1> QED
  BY <1>1, <1>2, ParseNothing DEF Progress

\* One more chunk is pending.
LEMMA ProgressChunk ==
  ASSUME NEW k, NEW script \in Seq(Chunk), NEW n \in Nat, n + 1 \in 1..Len(script),
         NEW m, NEW t, NEW s, Progress(k, script, n, m, t),
         \A type \in {"content", "reasoning"} :
            s[type] = IF script[n + 1].type = type
                      THEN MergePendingStreamChunk(t[type], Tokens(k, script[n + 1].text)) ELSE t[type]
  PROVE  Progress(k, script, n + 1, m, s)
<1> SUFFICES ASSUME Plain(script, "content")
    PROVE  /\ GrownTokens(k, script, "content", n + 1, m.content, s.content)
           /\ Plain(script, "reasoning") =>
               /\ Tagged(k, script) = <<>> => GrownTokens(k, script, "reasoning", n + 1, m.reasoning, s.reasoning)
               /\ WholeText(script, "reasoning") = <<>> =>
                     s.reasoning = <<>> /\ m.reasoning = ParseThinkTags(m.content).reasoning
  BY DEF Progress
<1>1. /\ s.content = IF script[n + 1].type = "content"
                     THEN MergePendingStreamChunk(t.content, Tokens(k, script[n + 1].text)) ELSE t.content
      /\ s.reasoning = IF script[n + 1].type = "reasoning"
                     THEN MergePendingStreamChunk(t.reasoning, Tokens(k, script[n + 1].text)) ELSE t.reasoning
  OBVIOUS
<1>2. GrownTokens(k, script, "content", n, m.content, t.content)
  BY DEF Progress
<1>3. GrownTokens(k, script, "content", n + 1, m.content, s.content)
  BY <1>1, <1>2, ChunkTokens
<1>4. ASSUME Plain(script, "reasoning"), Tagged(k, script) = <<>>
      PROVE  GrownTokens(k, script, "reasoning", n + 1, m.reasoning, s.reasoning)
  <2>1. GrownTokens(k, script, "reasoning", n, m.reasoning, t.reasoning)
    BY <1>4 DEF Progress
  <2> QED
    BY <1>1, <2>1, ChunkTokens
<1>5. ASSUME Plain(script, "reasoning"), WholeText(script, "reasoning") = <<>>
      PROVE  s.reasoning = <<>> /\ m.reasoning = ParseThinkTags(m.content).reasoning
  <2>1. t.reasoning = <<>> /\ m.reasoning = ParseThinkTags(m.content).reasoning
    BY <1>5 DEF Progress
  <2>2. CASE script[n + 1].type = "reasoning"
    <3>1. script[n + 1].text = <<>>
      BY <1>5, <2>2, NothingSaid
    <3>2. s.reasoning = MergePendingStreamChunk(<<>>, Tokens(k, <<>>))
      BY <1>1, <2>1, <2>2, <3>1
    <3>3. MergePendingStreamChunk(<<>>, <<>>) = <<>>
      BY DEF MergePendingStreamChunk
    <3> QED
      BY <2>1, <3>2, <3>3, TokensNothing
  <2>3. CASE script[n + 1].type # "reasoning"
    BY <1>1, <2>1, <2>3
  <2> QED
    BY <2>2, <2>3
<1> QED
  BY <1>3, <1>4, <1>5

\* What is pending is flushed.
LEMMA ProgressFlush ==
  ASSUME NEW m \in OwnMessage, m.from = "assistant", m.status # "error", NEW t \in OwnText(m.k),
         NEW script \in Seq(Chunk), NEW n \in 0..Len(script), Progress(m.k, script, n, m, t)
  PROVE  Progress(m.k, script, n, ApplyStreamingChunk(m, t), NoText)
<1> DEFINE k == m.k
           e == ApplyStreamingChunk(m, t)
           x == m.content \o GetAppendableChunk(m.content, t.content)
           y == m.reasoning \o GetAppendableChunk(m.reasoning, t.reasoning)
           S == Tok(m.k)
           W == Tokens(k, WholeText(script, "content"))
<1>0. NoText.content = <<>> /\ NoText.reasoning = <<>>
  BY DEF NoText
<1>1. /\ e.content = x
      /\ e.reasoning = IF t.content # <<>> /\ HasThink(x) /\ ParseThinkTags(x).reasoning # <<>>
                       THEN ParseThinkTags(x).reasoning ELSE y
  BY ChunkFields
<1>2. /\ m.content \in Seq(S) /\ m.reasoning \in Seq(S) /\ t.content \in Seq(S) /\ t.reasoning \in Seq(S)
      /\ k \in Send
  BY OwnFields DEF OwnText
<1>3. x \in Seq(S) /\ IsPrefix(m.content, x) /\ (t.content = <<>> => x = m.content)
  <2> HIDE DEF S
  <2>1. x = IF m.content # <<>> /\ IsPrefix(m.content, t.content) THEN t.content ELSE m.content \o t.content
    BY <1>2, Appended
  <2>2. IsPrefix(m.content, m.content \o t.content) /\ m.content \o t.content \in Seq(S)
        /\ (IsPrefix(m.content, <<>>) => m.content = <<>>)
    BY <1>2, PrefixJoin
  <2>3. m.content \o <<>> = m.content
    BY <1>2, JoinAssoc
  <2> HIDE DEF x
  <2> QED
    BY <1>2, <2>1, <2>2, <2>3
<1> HIDE DEF e
<1> SUFFICES ASSUME Plain(script, "content")
    PROVE  /\ GrownTokens(k, script, "content", n, e.content, <<>>)
           /\ Plain(script, "reasoning") =>
               /\ Tagged(k, script) = <<>> => GrownTokens(k, script, "reasoning", n, e.reasoning, <<>>)
               /\ WholeText(script, "reasoning") = <<>> =>
                     e.reasoning = ParseThinkTags(e.content).reasoning
  BY <1>0 DEF Progress, e
<1>4. GrownTokens(k, script, "content", n, x, <<>>)
  <2>1. GrownTokens(k, script, "content", n, m.content, t.content)
    BY DEF Progress
  <2> QED
    BY <2>1, FlushTokens
<1> HIDE DEF x
<1>5. ASSUME Plain(script, "reasoning"), Tagged(k, script) = <<>>
      PROVE  GrownTokens(k, script, "reasoning", n, e.reasoning, <<>>)
  <2>1. x = Tokens(k, Said(script, "content", n))
    BY <1>4, SaidTokens
  <2>2. /\ Said(script, "content", n) \in Seq(Alphabet) /\ WholeText(script, "content") \in Seq(Alphabet)
        /\ IsPrefix(Said(script, "content", n), WholeText(script, "content"))
    <3>1. Len(script) \in 0..Len(script)
      OBVIOUS
    <3> QED
      BY <3>1, SaidGrows DEF WholeText
  <2>3. IsPrefix(x, W)
    BY <2>1, <2>2, TokensPrefix
  <2>4. W \in Seq(S)
    BY <1>2, <2>2, TokensOwn
  <2>5. ParseThinkTags(W).reasoning = <<>>
    BY <1>5 DEF Tagged
  <2> HIDE DEF S, W
  <2>6. ParseThinkTags(x).reasoning = <<>>
    BY <1>3, <2>3, <2>4, <2>5, ParseBeginning
  <2>7. e.reasoning = y
    BY <1>1, <2>6
  <2>8. GrownTokens(k, script, "reasoning", n, m.reasoning, t.reasoning)
    BY <1>5 DEF Progress
  <2> QED
    BY <2>7, <2>8, FlushTokens
<1>6. ASSUME Plain(script, "reasoning"), WholeText(script, "reasoning") = <<>>
      PROVE  e.reasoning = ParseThinkTags(x).reasoning
  <2>1. t.reasoning = <<>> /\ m.reasoning = ParseThinkTags(m.content).reasoning
    BY <1>6 DEF Progress
  <2> HIDE DEF S
  <2>2. y = m.reasoning
    <3>1. y = IF m.reasoning # <<>> /\ IsPrefix(m.reasoning, t.reasoning) THEN t.reasoning
              ELSE m.reasoning \o t.reasoning
      BY <1>2, Appended
    <3>2. IsPrefix(m.reasoning, <<>>) => m.reasoning = <<>>
      BY <1>2, PrefixJoin
    <3>3. m.reasoning \o <<>> = m.reasoning
      BY <1>2, JoinAssoc
    <3> HIDE DEF y
    <3> QED
      BY <2>1, <3>1, <3>2, <3>3
  <2> HIDE DEF y
  <2>3. CASE t.content = <<>>
    BY <1>1, <1>3, <2>1, <2>2, <2>3
  <2>4. CASE ParseThinkTags(x).reasoning = <<>>
    <3>1. ParseThinkTags(m.content).reasoning = <<>>
      BY <1>2, <1>3, <2>4, ParseBeginning
    <3> QED
      BY <1>1, <2>1, <2>2, <2>4, <3>1
  <2>5. CASE t.content # <<>> /\ ParseThinkTags(x).reasoning # <<>>
    <3>1. HasThink(x)
      BY <1>3, <2>5, NoTagNoReasoning
    <3> QED
      BY <1>1, <2>5, <3>1
  <2> QED
    BY <2>3, <2>4, <2>5
<1> QED
  BY <1>1, <1>4, <1>5, <1>6

\* A message with all of a plain answer shows it when it is completed.
LEMMA CompletedShows ==
  ASSUME NEW m \in OwnMessage, NEW script \in Seq(Chunk),
         Progress(m.k, script, Len(script), m, NoText)
  PROVE  ShowsWhole([CompleteAssistantMessage(m) EXCEPT !.whole = TRUE], script)
<1> DEFINE k == m.k
           p == ParseThinkTags(m.content)
           f == FinalizeMessage(m, <<>>)
           e == [CompleteAssistantMessage(m) EXCEPT !.whole = TRUE]
           W == Tokens(k, WholeText(script, "content"))
           R == Tokens(k, WholeText(script, "reasoning"))
<1>0. NoText.content = <<>> /\ NoText.reasoning = <<>>
  BY DEF NoText
<1>1. /\ f.k = m.k /\ f.content = p.content
      /\ f.reasoning = IF m.reasoning # <<>> THEN m.reasoning ELSE p.reasoning
  BY FinalFields
<1>2. e.k = k /\ e.content = p.content /\ e.reasoning = f.reasoning
  <2>1. f \in OwnMessage
    BY FinalizeOwn, EmptyText DEF Heir
  <2>2. e = [[f EXCEPT !.status = "complete"] EXCEPT !.whole = TRUE]
    BY DEF CompleteAssistantMessage
  <2> HIDE DEF f, p, e
  <2>3. f \in Message
    BY <2>1 DEF OwnMessage
  <2> QED
    BY <1>1, <2>2, <2>3 DEF Message
<1> HIDE DEF e, f
<1> SUFFICES ASSUME Plain(script, "content")
    PROVE  /\ e.content = ParseThinkTags(W).content
           /\ Plain(script, "reasoning") =>
                 /\ ParseThinkTags(W).reasoning = <<>> => e.reasoning = R
                 /\ R = <<>> => e.reasoning = ParseThinkTags(W).reasoning
  BY <1>2 DEF ShowsWhole, e
<1>3. Len(script) \in 0..Len(script)
  OBVIOUS
<1>4. m.content = W
  <2>1. GrownTokens(k, script, "content", Len(script), m.content, <<>>)
    BY <1>0 DEF Progress
  <2> QED
    BY <1>3, <2>1, SaidTokens DEF WholeText
<1>5. ASSUME Plain(script, "reasoning"), ParseThinkTags(W).reasoning = <<>>
      PROVE  e.reasoning = R
  <2>1. GrownTokens(k, script, "reasoning", Len(script), m.reasoning, <<>>)
    BY <1>0, <1>5 DEF Progress, Tagged
  <2>2. m.reasoning = R
    BY <1>3, <1>5, <2>1, SaidTokens DEF WholeText
  <2> QED
    BY <1>1, <1>2, <1>4, <1>5, <2>2
<1>6. ASSUME Plain(script, "reasoning"), R = <<>>
      PROVE  e.reasoning = ParseThinkTags(W).reasoning
  <2>1. WholeText(script, "reasoning") \in Seq(Alphabet)
    BY <1>3, SaidGrows DEF WholeText
  <2>2. WholeText(script, "reasoning") = <<>>
    BY <1>6, <2>1, TokensPrefix
  <2>3. m.reasoning = p.reasoning
    BY <1>6, <2>2 DEF Progress
  <2> QED
    BY <1>1, <1>2, <1>4, <2>3
<1> QED
  BY <1>2, <1>4, <1>5, <1>6

\* So does a message that gets the answer at once.
LEMMA AnsweredShows ==
  ASSUME NEW m \in OwnMessage, m.reasoning = <<>>, NEW script \in Seq(Chunk)
  PROVE  ShowsWhole(ApplyChatCompletionChoice(m, FullText(m.k, script)), script)
<1> DEFINE k == m.k
           t == FullText(k, script)
           a == [m EXCEPT !.content = t.content]
           p == ParseThinkTags(t.content)
           f == FinalizeMessage(a, t.reasoning)
           e == ApplyChatCompletionChoice(m, t)
           W == Tokens(k, WholeText(script, "content"))
           R == Tokens(k, WholeText(script, "reasoning"))
<1>0. k \in Send
  BY OwnFields
<1>1. t \in OwnText(k)
  BY <1>0, FullTextOwn
<1>2. \A type \in {"content", "reasoning"} :
        Plain(script, type) => t[type] = Tokens(k, WholeText(script, type))
  <2> SUFFICES ASSUME NEW type \in {"content", "reasoning"}, Plain(script, type)
      PROVE  t[type] = Tokens(k, WholeText(script, type))
    OBVIOUS
  <2>1. PICK q : MergeTrace(q, script, type) /\ FullText(k, script)[type] = Tokens(k, q[Len(script)])
    BY FullTextTraces
  <2>2. q[Len(script)] = WholeText(script, type)
    BY <2>1, MergedIsWhole
  <2> QED
    BY <2>1, <2>2
<1> HIDE DEF t
<1>3. a \in OwnMessage /\ a.k = k /\ a.content = t.content /\ a.reasoning = <<>>
  BY <1>1, SetContent DEF OwnText, Heir
<1> HIDE DEF a
<1>4. /\ f.k = k /\ f.content = p.content
      /\ f.reasoning = IF t.reasoning # <<>> THEN t.reasoning ELSE p.reasoning
  BY <1>3, FinalFields
<1>5. e.k = k /\ e.content = p.content /\ e.reasoning = f.reasoning
  <2>1. t.reasoning \in Seq(Tok(a.k))
    BY <1>1, <1>3 DEF OwnText
  <2>2. f \in OwnMessage
    BY <1>3, <2>1, FinalizeOwn DEF Heir
  <2>3. e = [f EXCEPT !.status = "complete", !.whole = TRUE]
    BY DEF ApplyChatCompletionChoice, a
  <2> HIDE DEF f, p, e
  <2>4. f \in Message
    BY <2>2 DEF OwnMessage
  <2> QED
    BY <1>4, <2>3, <2>4 DEF Message
<1> HIDE DEF e, f
<1> SUFFICES ASSUME Plain(script, "content")
    PROVE  /\ e.content = ParseThinkTags(W).content
           /\ Plain(script, "reasoning") =>
                 /\ ParseThinkTags(W).reasoning = <<>> => e.reasoning = R
                 /\ R = <<>> => e.reasoning = ParseThinkTags(W).reasoning
  BY <1>5 DEF ShowsWhole, e, t
<1>6. t.content = W /\ (Plain(script, "reasoning") => t.reasoning = R)
  BY <1>2
<1> HIDE DEF W, R
<1> QED
  BY <1>4, <1>5, <1>6

-----------------------------------------------------------------------------
(* The queue.                                                              *)

\* React starts from the conversation last rendered.
LEMMA DrainIsFrom ==
  ASSUME NEW q, NEW g
  PROVE  Drain(q, g) = DrainFrom(messages, q, g)
  BY DEF Drain, DrainFrom

\* What every update queued preserves holds of the conversation they lead to.
LEMMA DrainFromKeeps ==
  ASSUME NEW S, NEW q \in Seq(S), NEW g, NEW V, NEW list \in V,
         \A l \in V, u \in S : Apply(l, u, g) \in V
  PROVE  DrainFrom(list, q, g) \in V
<1>0. Len(q) \in Nat /\ \A i \in 1..Len(q) : q[i] \in S
  OBVIOUS
<1>1. \A l \in V, i \in 1..Len(q) : Apply(l, q[i], g) \in V
  BY <1>0
<1>2. PICK p : DrainTrace(p, list, q, g, V)
  BY <1>1, DrainTraces
<1>3. Len(q) \in 0..Len(q)
  BY <1>0
<1> QED
  BY <1>2, <1>3 DEF DrainTrace

\* With nothing queued, nothing changes.
LEMMA DrainEmpty ==
  ASSUME NEW list, NEW g
  PROVE  DrainFrom(list, <<>>, g) = list
<1> DEFINE V == {list}
           q == <<>>
           S == {}
<1>1. q \in Seq(S) /\ list \in V /\ \A l \in V, u \in S : Apply(l, u, g) \in V
  OBVIOUS
<1> HIDE DEF V, q, S
<1>2. DrainFrom(list, q, g) \in V
  BY <1>1, DrainFromKeeps
<1> QED
  BY <1>2 DEF V, q

\* One more update is applied to what the others lead to.
LEMMA DrainMore ==
  ASSUME NEW S, NEW q \in Seq(S), NEW u \in S, NEW g, NEW V, NEW list \in V,
         \A l \in V, v \in S : Apply(l, v, g) \in V
  PROVE  DrainFrom(list, Append(q, u), g) = Apply(DrainFrom(list, q, g), u, g)
<1> DEFINE r == Append(q, u)
           N == Len(q)
<1>0. /\ N \in Nat /\ r \in Seq(S) /\ Len(r) = N + 1 /\ r[N + 1] = u
      /\ (\A i \in 1..N : r[i] = q[i] /\ q[i] \in S)
  OBVIOUS
<1> HIDE DEF r
<1>1. \A l \in V, i \in 1..Len(q) : Apply(l, q[i], g) \in V
  BY <1>0
<1>2. \A l \in V, i \in 1..Len(r) : Apply(l, r[i], g) \in V
  <2>1. \A i \in 1..Len(r) : r[i] \in S
    BY <1>0
  <2> QED
    BY <2>1
<1>3. PICK p : DrainTrace(p, list, q, g, V)
  BY <1>1, DrainTraces
<1>4. PICK o : DrainTrace(o, list, r, g, V)
  BY <1>0, <1>2, DrainTraces
<1>5. /\ p[0] = list /\ (\A i \in 1..N : p[i] = Apply(p[i - 1], q[i], g)) /\ DrainFrom(list, q, g) = p[N]
      /\ o[0] = list /\ (\A i \in 1..(N + 1) : o[i] = Apply(o[i - 1], r[i], g))
      /\ DrainFrom(list, r, g) = o[N + 1]
  BY <1>0, <1>3, <1>4 DEF DrainTrace
<1> HIDE DEF N
<1>6. ASSUME NEW i \in 1..N, p[i - 1] = o[i - 1] PROVE p[i] = o[i]
  <2>1. i \in 1..(N + 1)
    BY <1>0
  <2> QED
    BY <1>0, <1>5, <1>6, <2>1
<1>7. \A i \in 0..N : p[i] = o[i]
  <2> DEFINE C == {i \in Nat : p[i] = o[i]}
  <2>1. 0 \in C /\ \A i \in 1..N : i - 1 \in C => i \in C
    BY <1>0, <1>5, <1>6
  <2>2. \A i \in 0..N : i \in C
    <3> HIDE DEF C
    <3> QED
      BY <1>0, <2>1, UpTo
  <2> QED
    BY <2>2
<1>8. N \in 0..N /\ N + 1 \in 1..(N + 1) /\ (N + 1) - 1 = N
  BY <1>0
<1>9. o[N + 1] = Apply(p[N], u, g)
  BY <1>0, <1>5, <1>7, <1>8
<1> QED
  BY <1>5, <1>9 DEF r

\* An update that React has evaluated.
LEMMA DrainValue ==
  ASSUME NEW list, NEW v, v.kind = "value", NEW g
  PROVE  DrainFrom(list, <<v>>, g) = v.list
<1> DEFINE V == {list, v.list}
           S == {v}
           q == <<>>
<1>1. \A l : Apply(l, v, g) = v.list
  BY DEF Apply
<1>2. q \in Seq(S) /\ v \in S /\ list \in V /\ (\A l \in V, u \in S : Apply(l, u, g) \in V)
      /\ <<v>> = Append(q, v)
  BY <1>1
<1> HIDE DEF V, S, q
<1>3. DrainFrom(list, Append(q, v), g) = Apply(DrainFrom(list, q, g), v, g)
  BY <1>2, DrainMore
<1> QED
  BY <1>1, <1>2, <1>3

-----------------------------------------------------------------------------
(* The second invariant: what the answer under way will show.              *)

\* Messages of the sends so far; and those that keep what is claimed of them: no
\* pending message is marked whole, and a whole one shows its answer.
OldMessage == {m \in OwnMessage : m.k <= sends}
GoodMessage ==
  {m \in OwnMessage :
     /\ m.k <= sends
     /\ IsPending(m) => ~m.whole
     /\ m.whole /\ m.status = "complete" /\ req[m.k].pc # "none" => ShowsWhole(m, req[m.k].script)}

\* The conversation that React will render, and its last message.
Now == DrainFrom(messages, queue, gen)
LastOf(l) == l[Len(l)]

\* The conversations that React has evaluated early.
Sound(q, S) == \A i \in DOMAIN q : q[i].kind = "value" => q[i].list \in Seq(S)

\* What is shown, queued, to be saved and saved.
Kept == /\ messages \in Seq(GoodMessage) /\ Now \in Seq(GoodMessage) /\ Sound(queue, GoodMessage)
        /\ latest \in Seq(OldMessage) /\ stored \in Seq(OldMessage)

\* Nobody edits the message that is being answered.
EditedOld == editing # NoKey => editing[2] <= sends
EditOK == EditedOld /\ \A k \in Send : Live(k) \/ source = k => editing # <<"assistant", k>>

\* Without a stream, the answer is what the chunks amount to.
AnswerOK == \A k \in Send : req[k].pc # "none" => req[k].answer = FullText(k, req[k].script)

\* Until the request answers, its message is empty.
Blank(m) == IsPending(m) /\ m.content = <<>> /\ m.reasoning = <<>>
WaitOK == \A k \in Send : Live(k) => /\ Blank(LastOf(Now))
                                     /\ req[k].sent = 0 /\ ~req[k].completed

\* While its stream is open, the message and what is pending make up what arrived.
Streams(r, m) == /\ IsPending(m)
                 /\ r.pc = "closed" => r.cut
                 /\ r.pc = "open" => /\ ~r.completed /\ r.sent \in 0..Len(r.script)
                                     /\ Progress(source, r.script, r.sent, m, pending.text)
StreamOK == source # 0 => Streams(req[source], LastOf(Now))

\* The claim is given up once an edit was saved over updates that were not rendered.
WholeInv == ~overwritten => Kept /\ EditOK /\ AnswerOK /\ WaitOK /\ StreamOK

\* Sequences over a set are sequences over a larger one.
LEMMA SeqMono ==
  ASSUME NEW S, NEW T, S \subseteq T, NEW l \in Seq(S)
  PROVE  l \in Seq(T)
  OBVIOUS

\* Requests keep their scripts.
Stays == /\ sends <= sends'
         /\ \A k \in Send : k <= sends /\ req'[k].pc # "none" =>
                               req[k].pc # "none" /\ req'[k].script = req[k].script

\* Then what was good stays good.
LEMMA GoodStays ==
  ASSUME sends \in Nat, sends' \in Nat, Stays
  PROVE  /\ GoodMessage \subseteq GoodMessage' /\ OldMessage \subseteq OldMessage'
         /\ GoodMessage \subseteq OldMessage
         /\ \A l \in Seq(GoodMessage) : l \in Seq(GoodMessage') /\ l \in Seq(OldMessage')
         /\ \A l \in Seq(OldMessage) : l \in Seq(OldMessage')
<1>1. ASSUME NEW m \in OwnMessage, m.k <= sends PROVE m.k \in Send /\ m.k <= sends'
  <2>1. m.k \in Send
    BY OwnFields
  <2> QED
    BY <1>1, <2>1 DEF Stays, Send
<1>2. OldMessage \subseteq OldMessage'
  BY <1>1 DEF OldMessage
<1>3. GoodMessage \subseteq OldMessage
  BY DEF GoodMessage, OldMessage
<1>4. ASSUME NEW m \in GoodMessage PROVE m \in GoodMessage'
  <2>1. /\ m \in OwnMessage /\ m.k <= sends /\ (IsPending(m) => ~m.whole)
        /\ m.whole /\ m.status = "complete" /\ req[m.k].pc # "none" => ShowsWhole(m, req[m.k].script)
    BY DEF GoodMessage
  <2>2. m.k \in Send /\ m.k <= sends'
    BY <1>1, <2>1
  <2>3. req'[m.k].pc # "none" => req[m.k].pc # "none" /\ req'[m.k].script = req[m.k].script
    BY <2>1, <2>2 DEF Stays
  <2>4. m.whole /\ m.status = "complete" /\ req'[m.k].pc # "none" => ShowsWhole(m, req'[m.k].script)
    BY <2>1, <2>3
  <2> QED
    BY <2>1, <2>2, <2>4 DEF GoodMessage
<1>5. GoodMessage \subseteq GoodMessage' /\ GoodMessage \subseteq OldMessage'
  BY <1>2, <1>3, <1>4
<1> HIDE DEF GoodMessage, OldMessage
<1>6. ASSUME NEW l \in Seq(GoodMessage) PROVE l \in Seq(GoodMessage') /\ l \in Seq(OldMessage')
  BY <1>5, SeqMono
<1>7. ASSUME NEW l \in Seq(OldMessage) PROVE l \in Seq(OldMessage')
  BY <1>2, SeqMono
<1> QED
  BY <1>2, <1>3, <1>5, <1>6, <1>7

\* One more update of the answer: what the queue leads to changes by it, whether
\* React evaluates it early or not.
LEMMA EnqueueNow ==
  ASSUME NEW k, NEW ow \in BOOLEAN, gen \in Nat, messages \in Answered(k, ow),
         NEW q \in Seq(Queued(gen, k, ow)), NEW u \in Queued(gen, k, ow), u.kind # "value",
         NEW S, DrainFrom(messages, q, gen) \in Seq(S), Sound(q, S),
         UpdateMessage(LastOf(DrainFrom(messages, q, gen)), u) \in S,
         NEW r \in Enqueue(q, u)
  PROVE  /\ DrainFrom(messages, r, gen) \in Seq(S) /\ Sound(r, S)
         /\ LastOf(DrainFrom(messages, r, gen)) = UpdateMessage(LastOf(DrainFrom(messages, q, gen)), u)
<1> DEFINE U == Upd(k, ow)
           V == Answered(k, ow)
           d == DrainFrom(messages, q, gen)
           e == UpdateMessage(LastOf(d), u)
           a == Apply(d, u, gen)
<1>1. \A l \in V, v \in U : Apply(l, v, gen) \in V
  BY ApplyAnswered
<1>2. q \in Seq(U) /\ u \in U /\ messages \in V
  <2>1. Queued(gen, k, ow) \subseteq U
    BY DEF Queued
  <2> HIDE DEF U
  <2> QED
    BY <2>1, SeqMono
<1>3. d \in V
  <2> HIDE DEF U, V
  <2> QED
    BY <1>1, <1>2, DrainFromKeeps
<1>4. d # <<>> /\ LastOf(d).from = "assistant" /\ d \in Seq(S) /\ e \in S
  BY <1>3 DEF Answered, EndsIn, LastOf
<1> HIDE DEF d, e
<1>5. Last(d) = LastOf(d) /\ Len(d) \in DOMAIN d
  BY <1>4, LastIsLast DEF LastOf
<1>6. a = ReplaceAt(d, Len(d), e)
  <2>1. u.gen = gen
    BY DEF Queued
  <2> QED
    BY <1>4, <1>5, <2>1 DEF Apply, e
<1> HIDE DEF a
<1>7. a \in Seq(S) /\ LastOf(a) = e
  <2>1. /\ ReplaceAt(d, Len(d), e) \in Seq(S) /\ Len(ReplaceAt(d, Len(d), e)) = Len(d)
        /\ ReplaceAt(d, Len(d), e)[Len(d)] = e
    BY <1>4, <1>5, ReplaceLast
  <2> QED
    BY <1>6, <2>1 DEF LastOf
<1>8. DrainFrom(messages, r, gen) = a /\ Sound(r, S)
  <2>1. CASE r = Append(q, u)
    <3>1. DrainFrom(messages, r, gen) = a
      <4> HIDE DEF U, V
      <4> QED
        BY <1>1, <1>2, <2>1, DrainMore DEF d, a
    <3>2. Sound(r, S)
      <4>1. ASSUME NEW i \in DOMAIN r, r[i].kind = "value" PROVE i \in DOMAIN q /\ r[i] = q[i]
        <5> HIDE DEF U
        <5>1. DOMAIN q = 1..Len(q) /\ DOMAIN r = 1..(Len(q) + 1) /\ Len(q) \in Nat
              /\ r[Len(q) + 1] = u /\ \A j \in 1..Len(q) : r[j] = q[j]
          BY <1>2, <2>1
        <5>2. i # Len(q) + 1
          BY <4>1, <5>1
        <5>3. i \in 1..Len(q)
          BY <5>1, <5>2
        <5> QED
          BY <5>1, <5>3
      <4> QED
        BY <4>1 DEF Sound
    <3> QED
      BY <3>1, <3>2
  <2>2. CASE r # Append(q, u)
    <3> DEFINE v == Value(Apply(messages, u, gen))
    <3>1. q = <<>> /\ r = <<v>>
      BY <2>2 DEF Enqueue
    <3>2. d = messages
      BY <3>1, DrainEmpty DEF d
    <3>3. v.kind = "value" /\ v.list = a
      BY <3>2 DEF Value, a
    <3> HIDE DEF v
    <3>4. DrainFrom(messages, r, gen) = a
      BY <3>1, <3>3, DrainValue
    <3>5. DOMAIN r = {1} /\ r[1] = v
      BY <3>1
    <3>6. Sound(r, S)
      BY <1>7, <3>3, <3>5 DEF Sound
    <3> QED
      BY <3>4, <3>6
  <2> QED
    BY <2>1, <2>2
<1> QED
  BY <1>7, <1>8 DEF d, e

\* What a flush leaves of the last message.
Flushed(m) == IF HasText(pending.text) THEN ApplyStreamingChunk(m, pending.text) ELSE m

\* A flush.
LEMMA FlushNow ==
  ASSUME NEW k, NEW ow \in BOOLEAN, gen \in Nat, messages \in Answered(k, ow),
         queue \in Seq(Queued(gen, k, ow)), pending \in [gen: Nat, text: OwnText(k)],
         pending.gen = gen, NEW S, Now \in Seq(S), Sound(queue, S),
         Flushed(LastOf(Now)) \in S, NEW q \in FlushQueues(gen)
  PROVE  /\ q \in Seq(Queued(gen, k, ow))
         /\ DrainFrom(messages, q, gen) \in Seq(S) /\ Sound(q, S)
         /\ LastOf(DrainFrom(messages, q, gen)) = Flushed(LastOf(Now))
<1>1. q \in Seq(Queued(gen, k, ow))
  BY FlushQueued
<1>2. CASE HasText(pending.text)
  <2> DEFINE u == Update("flush", gen, pending.text)
  <2>1. u \in Queued(gen, k, ow) /\ u.kind # "value"
    <3>1. pending.text \in OwnText(k) /\ "flush" \in Kinds \ {"value"} /\ "flush" # "stop"
      BY DEF Kinds
    <3>2. u.kind = "flush"
      BY DEF Update
    <3> QED
      BY <3>1, <3>2, UpdateUpd
  <2>2. q \in Enqueue(queue, u)
    BY <1>2 DEF FlushQueues
  <2>3. UpdateMessage(LastOf(Now), u) = Flushed(LastOf(Now))
    BY <1>2 DEF UpdateMessage, Update, Flushed
  <2> HIDE DEF u
  <2>4. DrainFrom(messages, queue, gen) = Now
    BY DEF Now
  <2> QED
    BY <1>1, <2>1, <2>2, <2>3, <2>4, EnqueueNow
<1>3. CASE ~HasText(pending.text)
  <2>1. q = queue /\ Flushed(LastOf(Now)) = LastOf(Now)
    BY <1>3 DEF FlushQueues, Flushed
  <2> QED
    BY <1>1, <2>1 DEF Now
<1> QED
  BY <1>2, <1>3

\* With no request on its way, there is nothing to say about the last message.
LEMMA IdleStep ==
  ASSUME IInv', ~requesting', Kept', EditedOld', AnswerOK'
  PROVE  WholeInv'
<1>1. source' = 0 /\ \A k \in Send : ~Live(k)'
  BY DEF IInv, ReqSide, ReqOK, SourceOK
<1>2. EditOK'
  <2>1. \A k \in Send : k # 0
    BY MaxSendsAssumption DEF Send
  <2> QED
    BY <1>1, <2>1 DEF EditOK
<1>3. WaitOK' /\ StreamOK'
  BY <1>1 DEF WaitOK, StreamOK
<1> QED
  BY <1>2, <1>3 DEF WholeInv

\* The conversation is rendered, with nothing queued.
LEMMA RenderedKept ==
  ASSUME queue' = <<>>
  PROVE  /\ Now' = messages'
         /\ messages' \in Seq(GoodMessage') /\ latest' \in Seq(OldMessage') /\ stored' \in Seq(OldMessage')
              => Kept'
<1>1. Now' = messages'
  BY DrainEmpty DEF Now
<1>2. Sound(<<>>, GoodMessage')
  BY DEF Sound
<1> QED
  BY <1>1, <1>2 DEF Kept

\* While an answer is shown, the conversation to come ends in it.
LEMMA NowEnds ==
  ASSUME IInv, shown, ~overwritten
  PROVE  /\ Now \in Answered(sends, overwritten) /\ messages \in Answered(sends, overwritten)
         /\ Now # <<>> /\ Now \in Seq(OwnMessage)
         /\ LastOf(Now) \in OwnMessage /\ LastOf(Now).from = "assistant" /\ LastOf(Now).k = sends
         /\ overwritten \in BOOLEAN /\ gen \in Nat /\ sends \in Nat /\ sends \in Send /\ mounted
         /\ queue \in Seq(Queued(gen, sends, overwritten))
         /\ pending \in [gen: Nat, text: OwnText(sends)] /\ pending.gen = gen
         /\ Len(Now) \in DOMAIN Now
<1>1. /\ messages \in Answered(sends, overwritten) /\ mounted /\ overwritten \in BOOLEAN /\ gen \in Nat
      /\ queue \in Seq(Queued(gen, sends, overwritten)) /\ sends \in 0..MaxSends
      /\ pending \in [gen: Nat, text: OwnText(sends)] /\ pending.gen = gen
  BY DEF IInv, PageSide, ReqSide, PageOK, Flags, Counts, QueueOK, PendingOK
<1> DEFINE U == Queued(gen, sends, overwritten)
           V == Answered(sends, overwritten)
<1>2. \A l \in V, u \in U : Apply(l, u, gen) \in V
  BY <1>1, ApplyAnswered DEF Queued
<1>3. queue \in Seq(U) /\ messages \in V
  BY <1>1
<1>4. Now \in V
  <2> HIDE DEF U, V
  <2> QED
    BY <1>2, <1>3, DrainFromKeeps DEF Now
<1>5. Now \in Seq(OwnMessage) /\ Now # <<>> /\ LastOf(Now).from = "assistant" /\ LastOf(Now).k = sends
  BY <1>4 DEF Answered, EndsIn, LastOf
<1>6. LastOf(Now) \in OwnMessage /\ Len(Now) \in DOMAIN Now
  BY <1>5, LastIsLast DEF LastOf
<1>7. sends \in Send /\ sends \in Nat
  BY <1>1, <1>5, <1>6, OwnFields
<1> QED
  BY <1>1, <1>4, <1>5, <1>6, <1>7

\* The last message of the conversation to come is a good one.
LEMMA LastGood ==
  ASSUME IInv, shown, ~overwritten, WholeInv
  PROVE  LastOf(Now) \in GoodMessage /\ Now \in Seq(GoodMessage) /\ Sound(queue, GoodMessage)
<1>1. Now \in Seq(GoodMessage) /\ Sound(queue, GoodMessage)
  BY DEF WholeInv, Kept
<1>2. Now # <<>>
  BY NowEnds
<1> QED
  BY <1>1, <1>2, LastIsLast DEF LastOf

\* No text is the empty one.
LEMMA NoTextIs ==
  ASSUME NEW k, NEW t \in OwnText(k), ~HasText(t)
  PROVE  t = NoText
<1>1. t.content = <<>> /\ t.reasoning = <<>>
  BY DEF HasText
<1>2. t = [content |-> t.content, reasoning |-> t.reasoning]
  BY DEF OwnText
<1> QED
  BY <1>1, <1>2 DEF NoText

\* An heir that is no longer pending, or not marked whole, and whose claim holds.
LEMMA HeirGood ==
  ASSUME NEW m \in GoodMessage, NEW n, Heir(m, n), n.whole \in BOOLEAN,
         IsPending(n) => ~n.whole,
         n.whole /\ n.status = "complete" /\ req[n.k].pc # "none" => ShowsWhole(n, req[n.k].script)
  PROVE  n \in GoodMessage
<1>1. n \in OwnMessage /\ n.k = m.k /\ m.k <= sends
  BY DEF Heir, GoodMessage
<1> QED
  BY <1>1 DEF GoodMessage

\* A flush leaves a pending message a good one, still pending.
LEMMA FlushedGood ==
  ASSUME IInv, shown, ~overwritten, WholeInv, HasText(pending.text) => IsPending(LastOf(Now))
  PROVE  /\ Flushed(LastOf(Now)) \in GoodMessage
         /\ IsPending(LastOf(Now)) => IsPending(Flushed(LastOf(Now)))
         /\ Flushed(LastOf(Now)).k = sends /\ Flushed(LastOf(Now)).from = "assistant"
         /\ Flushed(LastOf(Now)) \in OwnMessage
<1> DEFINE m == LastOf(Now)
           n == ApplyStreamingChunk(m, pending.text)
<1>1. m \in GoodMessage
  BY LastGood
<1>2. m \in OwnMessage /\ m.from = "assistant" /\ m.k = sends /\ pending.text \in OwnText(m.k)
  BY NowEnds
<1> HIDE DEF m
<1>3. CASE ~HasText(pending.text)
  BY <1>1, <1>2, <1>3 DEF Flushed, m
<1>4. CASE HasText(pending.text)
  <2>1. IsPending(m)
    BY <1>4 DEF m
  <2>2. m.status # "error" /\ ~m.whole
    BY <1>1, <2>1 DEF IsPending, GoodMessage
  <2>3. Heir(m, n)
    BY <1>2, ChunkOwn
  <2>4. n.status = "streaming" /\ n.whole = m.whole
    BY <1>2, <2>2, ChunkFields
  <2> HIDE DEF n
  <2>5. IsPending(n) /\ ~n.whole /\ n.whole \in BOOLEAN
    <3>1. m.whole \in BOOLEAN
      BY <1>2 DEF OwnMessage, Message
    <3> QED
      BY <2>2, <2>4, <3>1 DEF IsPending
  <2>6. n \in GoodMessage
    BY <1>1, <2>3, <2>5, HeirGood
  <2>7. Flushed(LastOf(Now)) = n
    BY <1>4 DEF Flushed, n, m
  <2> QED
    BY <1>2, <2>3, <2>5, <2>6, <2>7 DEF Heir
<1> QED
  BY <1>3, <1>4

\* What React evaluated early stays good.
LEMMA SoundMono ==
  ASSUME NEW S, NEW T, S \subseteq T, NEW q, Sound(q, S)
  PROVE  Sound(q, T)
  BY SeqMono DEF Sound

\* Nothing happens to the conversation, which requests keep good.
LEMMA KeptSame ==
  ASSUME sends \in Nat, sends' \in Nat, Stays, Kept, UNCHANGED <<messages, queue, gen>>,
         latest' \in Seq(OldMessage), stored' \in Seq(OldMessage)
  PROVE  Kept' /\ Now' = Now
<1>1. /\ messages \in Seq(GoodMessage) /\ Now \in Seq(GoodMessage) /\ Sound(queue, GoodMessage)
  BY DEF Kept
<1>2. Now' = Now
  BY DEF Now
<1>3. GoodMessage \subseteq GoodMessage'
  BY GoodStays
<1>4. messages' \in Seq(GoodMessage') /\ Now' \in Seq(GoodMessage')
      /\ latest' \in Seq(OldMessage') /\ stored' \in Seq(OldMessage')
  <2> HIDE DEF GoodMessage, OldMessage
  <2> QED
    BY <1>1, <1>2, GoodStays
<1>5. Sound(queue', GoodMessage')
  <2>1. Sound(queue, GoodMessage')
    BY <1>1, <1>3, SoundMono
  <2> QED
    BY <2>1
<1> QED
  BY <1>2, <1>4, <1>5 DEF Kept

\* What a step that moves request k to r leaves of the requests' stories.
SameStory(k, r) == /\ Moves(k, r) /\ r.script = req[k].script /\ r.answer = req[k].answer
                   /\ req[k].pc # "none"

\* Then every message keeps its claim, and every answer its text.
LEMMA StoryStays ==
  ASSUME NEW k \in Send, NEW r, SameStory(k, r), sends \in Nat, UNCHANGED sends, AnswerOK
  PROVE  Stays /\ AnswerOK' /\ sends' \in Nat
<1>1. ASSUME NEW j \in Send
      PROVE  /\ req'[j].script = req[j].script /\ req'[j].answer = req[j].answer
             /\ req'[j].pc # "none" => req[j].pc # "none"
  BY DEF SameStory, Moves
<1>2. Stays
  BY <1>1 DEF Stays
<1>3. AnswerOK'
  BY <1>1 DEF AnswerOK
<1> QED
  BY <1>2, <1>3

\* An event that nobody handles, or that leaves the stream as it is.
LEMMA AsideStep ==
  ASSUME IInv, WholeInv, ~overwritten, NEW k \in Send, NEW r, SameStory(k, r),
         r.pc \notin {"headers", "posted"}, source = k => Streams(r, LastOf(Now)),
         UNCHANGED <<messages, queue, gen, latest, stored, editing, sends, pending, source>>
  PROVE  WholeInv'
<1>1. Kept /\ EditOK /\ AnswerOK /\ WaitOK /\ StreamOK
  BY DEF WholeInv
<1>2. sends \in Nat
  BY DEF IInv, ReqSide, Counts
<1>3. Stays /\ AnswerOK' /\ sends' \in Nat
  BY <1>1, <1>2, StoryStays
<1>4. Kept' /\ Now' = Now
  BY <1>1, <1>2, <1>3, KeptSame DEF Kept
<1>5. ASSUME NEW j \in Send PROVE /\ j # k => req'[j] = req[j]
                                  /\ Live(j)' => Live(j) /\ j # k
  BY DEF Live, SameStory, Moves
<1>6. EditOK'
  BY <1>1, <1>5 DEF EditOK, EditedOld
<1>7. WaitOK'
  <2> SUFFICES ASSUME NEW j \in Send, Live(j)'
               PROVE  Blank(LastOf(Now')) /\ req'[j].sent = 0 /\ ~req'[j].completed
    BY DEF WaitOK
  <2>1. Live(j) /\ req'[j] = req[j]
    BY <1>5
  <2> QED
    BY <1>1, <1>4, <2>1 DEF WaitOK
<1>8. StreamOK'
  <2> SUFFICES ASSUME source # 0 PROVE Streams(req[source], LastOf(Now))'
    BY DEF StreamOK
  <2>1. source \in Send
    BY DEF IInv, ReqSide, Counts
  <2>2. Streams(req'[source], LastOf(Now))
    BY <1>1, <1>5, <2>1 DEF StreamOK, SameStory, Moves
  <2> QED
    BY <1>4, <2>2 DEF Streams
<1> QED
  BY <1>3, <1>4, <1>6, <1>7, <1>8 DEF WholeInv

\* The requests that are over.
LEMMA OverStory ==
  ASSUME IInv, NEW k \in Send, req' = [req EXCEPT ![k].pc = "over"], req[k].pc # "none"
  PROVE  \E r : SameStory(k, r) /\ r.pc = "over"
<1> DEFINE r == [req[k] EXCEPT !.pc = "over"]
<1>1. ReqKeeps(req[k], r, k) /\ r.pc = "over"
  BY ReqTyped, SetPc
<1>2. DOMAIN req' = Send /\ req'[k] = r /\ \A j \in Send : j # k => req'[j] = req[j]
  BY ReqTyped
<1>3. r.script = req[k].script /\ r.answer = req[k].answer
  BY ReqTyped DEF ReqType
<1> HIDE DEF r
<1>4. SameStory(k, r)
  BY <1>1, <1>2, <1>3 DEF Moves, SameStory
<1> QED
  BY <1>1, <1>4

\* The streams that are closed, by an event or by the connection.
LEMMA ClosedStory ==
  ASSUME IInv, NEW k \in Send, req[k].pc # "none",
         req' = [req EXCEPT ![k].pc = "closed", ![k].completed = TRUE]
           \/ req' = [req EXCEPT ![k].pc = "closed", ![k].cut = TRUE]
  PROVE  \E r : /\ SameStory(k, r) /\ r.pc = "closed"
                /\ req' = [req EXCEPT ![k].pc = "closed", ![k].cut = TRUE] => r.cut
<1> DEFINE x == req[k]
           r == [x EXCEPT !.pc = "closed", !.completed = TRUE]
           s == [x EXCEPT !.pc = "closed", !.cut = TRUE]
<1>0. x \in ReqType(k)
  BY ReqTyped
<1> HIDE DEF x
<1>1. ReqKeeps(x, r, k) /\ r.pc = "closed" /\ r.script = x.script /\ r.answer = x.answer
      /\ r.completed = TRUE /\ r.cut = x.cut
  BY <1>0 DEF ReqType, ReqKeeps, Pcs
<1>2. ReqKeeps(x, s, k) /\ s.pc = "closed" /\ s.script = x.script /\ s.answer = x.answer
      /\ s.cut = TRUE
  BY <1>0 DEF ReqType, ReqKeeps, Pcs
<1>3. CASE req' = [req EXCEPT ![k].pc = "closed", ![k].cut = TRUE]
  <2>1. DOMAIN req' = Send /\ req'[k] = s /\ \A j \in Send : j # k => req'[j] = req[j]
    BY <1>3, ReqTyped DEF x
  <2> HIDE DEF s
  <2>2. SameStory(k, s)
    BY <1>2, <2>1 DEF Moves, SameStory, x
  <2> QED
    BY <1>2, <2>2
<1>4. CASE req' # [req EXCEPT ![k].pc = "closed", ![k].cut = TRUE]
  <2>1. DOMAIN req' = Send /\ req'[k] = r /\ \A j \in Send : j # k => req'[j] = req[j]
    BY <1>4, ReqTyped DEF x
  <2> HIDE DEF r
  <2>2. SameStory(k, r)
    BY <1>1, <2>1 DEF Moves, SameStory, x
  <2> QED
    BY <1>1, <1>4, <2>2
<1> QED
  BY <1>3, <1>4

-----------------------------------------------------------------------------
(* Every step keeps it.                                                    *)

\* The headers arrive.
LEMMA HeadersReadyKeeps ==
  ASSUME IInv, WholeInv, ~overwritten, NEW k \in Send, HeadersReady(k)
  PROVE  WholeInv'
<1>1. /\ req[k].pc = "headers"
      /\ UNCHANGED <<messages, queue, gen, latest, stored, editing, sends, pending, ctl>>
  BY DEF HeadersReady, pageVars
<1>2. CASE req[k].ctl # ctl
  <2>1. req' = [req EXCEPT ![k].pc = "over"] /\ UNCHANGED source
    BY <1>2 DEF HeadersReady
  <2>2. PICK r : SameStory(k, r) /\ r.pc = "over"
    BY <1>1, <2>1, OverStory
  <2>3. source # k
    BY <1>1, Unpacked DEF SourceOK, Send
  <2> QED
    BY <1>1, <2>1, <2>2, <2>3, AsideStep
<1>3. CASE req[k].ctl = ctl
  <2> DEFINE r == [req[k] EXCEPT !.pc = "open"]
  <2>1. req' = [req EXCEPT ![k].pc = "open"] /\ source' = k
    BY <1>3 DEF HeadersReady
  <2>2. req[k].gen = gen /\ k = sends /\ requesting /\ mounted
    BY <1>1, <1>3, LiveRequest
  <2>3. Live(k) /\ source = 0 /\ shown
    BY <1>1, <2>2, Unpacked DEF Live, ReqOK, PageSide, PageOK
  <2>4. ReqKeeps(req[k], r, k) /\ r.pc = "open"
    BY ReqTyped, SetPc
  <2>5. DOMAIN req' = Send /\ req'[k] = r /\ \A j \in Send : j # k => req'[j] = req[j]
    BY <2>1, ReqTyped
  <2>6. r.script = req[k].script /\ r.answer = req[k].answer /\ r.sent = req[k].sent
        /\ r.completed = req[k].completed
    BY ReqTyped DEF ReqType
  <2> HIDE DEF r
  <2>7. SameStory(k, r)
    BY <1>1, <2>4, <2>5, <2>6 DEF Moves, SameStory
  <2>8. Kept /\ EditOK /\ AnswerOK /\ WaitOK
    BY DEF WholeInv
  <2>9. sends \in Nat
    BY DEF IInv, ReqSide, Counts
  <2>10. Stays /\ AnswerOK' /\ sends' \in Nat
    BY <1>1, <2>7, <2>8, <2>9, StoryStays
  <2>11. Kept' /\ Now' = Now
    BY <1>1, <2>8, <2>9, <2>10, KeptSame DEF Kept
  <2>12. ASSUME NEW j \in Send PROVE ~Live(j)'
    <3>1. CASE j = k
      BY <2>4, <2>5, <3>1 DEF Live
    <3>2. CASE j # k
      <4>1. Live(j) => j = sends
        BY Unpacked DEF ReqOK
      <4> QED
        BY <1>1, <2>2, <2>5, <3>2, <4>1 DEF Live
    <3> QED
      BY <3>1, <3>2
  <2>13. EditOK'
    BY <1>1, <2>1, <2>3, <2>8, <2>12 DEF EditOK, EditedOld
  <2>14. WaitOK'
    BY <2>12 DEF WaitOK
  <2>15. StreamOK'
    <3> DEFINE m == LastOf(Now)
    <3>1. Blank(m) /\ r.sent = 0 /\ ~r.completed
      BY <2>3, <2>6, <2>8 DEF WaitOK
    <3>2. m.content = <<>> /\ m.reasoning = <<>> /\ IsPending(m)
      BY <3>1 DEF Blank
    <3>3. r.script \in Seq(Chunk)
      BY <2>4 DEF ReqKeeps, ReqType
    <3>4. pending.text = NoText
      <4>1. pending.text \in OwnText(sends) /\ ~HasText(pending.text)
        BY <2>2, <2>3 DEF IInv, PageSide, PendingOK
      <4> QED
        BY <4>1, NoTextIs
    <3> HIDE DEF m
    <3>5. Progress(k, r.script, 0, m, NoText)
      BY <3>2, <3>3, ProgressStart
    <3>6. 0 \in 0..Len(r.script)
      BY <3>3
    <3>7. source' = k /\ pending'.text = NoText /\ req'[k] = r /\ LastOf(Now') = m
      BY <1>1, <2>1, <2>5, <2>11, <3>4 DEF m
    <3> QED
      BY <2>4, <3>1, <3>2, <3>5, <3>6, <3>7 DEF StreamOK, Streams
  <2> QED
    BY <2>10, <2>11, <2>13, <2>14, <2>15 DEF WholeInv
<1> QED
  BY <1>2, <1>3

\* Nobody reads a stream that was cut, or one that is not the active source.
LEMMA ListeningSource ==
  ASSUME IInv, WholeInv, ~overwritten, NEW k \in Send, Listening(k), source = k
  PROVE  /\ Handled(k) /\ req[k].gen = gen /\ pending.gen = gen /\ req[k].pc = "open"
         /\ k = sends /\ requesting /\ mounted /\ shown
<1>1. req[k].gen = gen /\ k = sends /\ requesting /\ mounted
  BY LiveRequest
<1>2. shown /\ pending.gen = gen /\ ctl = gen /\ req[k].ctl = req[k].gen
  BY <1>1, Unpacked DEF PageSide, PageOK, PendingOK, Counts, ReqOK
<1>3. k # 0
  BY DEF Send
<1>4. Streams(req[k], LastOf(Now))
  BY <1>3 DEF WholeInv, StreamOK
<1>5. req[k].pc = "open" /\ ~req[k].completed
  BY <1>4 DEF Streams, Listening
<1> QED
  BY <1>1, <1>2, <1>5 DEF Handled

\* A chunk arrives.
LEMMA StreamChunkKeeps ==
  ASSUME IInv, WholeInv, ~overwritten, NEW k \in Send, StreamChunk(k)
  PROVE  WholeInv'
<1> DEFINE r == [req[k] EXCEPT !.sent = @ + 1]
           n == req[k].sent
           c == req[k].script[n + 1]
<1>1. /\ Listening(k) /\ n < Len(req[k].script) /\ req' = [req EXCEPT ![k].sent = @ + 1]
      /\ UNCHANGED <<messages, queue, gen, latest, stored, editing, sends, source, ctl>>
  BY DEF StreamChunk, pageVars
<1>2. req[k].pc \in {"open", "closed"}
  BY <1>1 DEF Listening
<1>3. ReqKeeps(req[k], r, k) /\ r.pc = req[k].pc
  BY ReqTyped, AddSent
<1>4. DOMAIN req' = Send /\ req'[k] = r /\ \A j \in Send : j # k => req'[j] = req[j]
  BY <1>1, ReqTyped
<1>5. r.script = req[k].script /\ r.answer = req[k].answer /\ r.sent = n + 1
      /\ r.completed = req[k].completed /\ n \in Nat /\ req[k].script \in Seq(Chunk)
  BY ReqTyped DEF ReqType
<1> HIDE DEF r, n
<1>6. SameStory(k, r)
  BY <1>2, <1>3, <1>4, <1>5 DEF Moves, SameStory
<1>7. CASE source # k
  <2>1. UNCHANGED pending
    BY <1>7 DEF StreamChunk, Handled
  <2> QED
    BY <1>1, <1>2, <1>3, <1>6, <1>7, <2>1, AsideStep
<1>8. CASE source = k
  <2>1. /\ Handled(k) /\ req[k].gen = gen /\ pending.gen = gen /\ req[k].pc = "open"
        /\ k = sends /\ mounted
    BY <1>1, <1>8, ListeningSource
  <2>2. pending' = [pending EXCEPT !.text[c.type] = MergePendingStreamChunk(@, Tokens(k, c.text))]
    BY <2>1 DEF StreamChunk, n
  <2>3. Kept /\ EditOK /\ AnswerOK /\ WaitOK /\ StreamOK
    BY DEF WholeInv
  <2>4. sends \in Nat
    BY DEF IInv, ReqSide, Counts
  <2>5. Stays /\ AnswerOK' /\ sends' \in Nat
    BY <1>1, <1>6, <2>3, <2>4, StoryStays
  <2>6. Kept' /\ Now' = Now
    BY <1>1, <2>3, <2>4, <2>5, KeptSame DEF Kept
  <2>7. ASSUME NEW j \in Send PROVE (Live(j)' => Live(j) /\ req'[j] = req[j])
    BY <1>1, <1>2, <1>3, <1>4 DEF Live
  <2>8. EditOK' /\ WaitOK'
    BY <1>1, <2>3, <2>6, <2>7 DEF EditOK, EditedOld, WaitOK
  <2>9. StreamOK'
    <3> DEFINE m == LastOf(Now)
               t == pending.text
               s == pending'.text
    <3>1. IsPending(m) /\ ~req[k].completed /\ n \in 0..Len(req[k].script)
          /\ Progress(k, req[k].script, n, m, t)
      <4>1. k # 0
        BY DEF Send
      <4>2. Streams(req[k], m)
        BY <1>8, <2>3, <4>1 DEF StreamOK
      <4> QED
        BY <1>8, <2>1, <4>2 DEF Streams, n
    <3>2. n + 1 \in 1..Len(req[k].script)
      BY <1>1, <1>5
    <3>3. c \in Chunk
      BY <1>5, <3>2
    <3>4. \A type \in {"content", "reasoning"} :
             s[type] = IF c.type = type THEN MergePendingStreamChunk(t[type], Tokens(k, c.text)) ELSE t[type]
      <4>1. pending \in [gen: Nat, text: OwnText(sends)] /\ c.type \in {"content", "reasoning"}
        BY <3>3 DEF IInv, PageSide, PendingOK, Chunk
      <4>2. t \in OwnText(sends)
        BY <4>1
      <4> DEFINE v == MergePendingStreamChunk(t[c.type], Tokens(k, c.text))
      <4>3. s = [t EXCEPT ![c.type] = v]
        BY <2>2, <4>1
      <4> HIDE DEF v, s, t, c
      <4>4. DOMAIN t = {"content", "reasoning"}
        BY <4>2 DEF OwnText
      <4> QED
        BY <4>1, <4>3, <4>4 DEF v
    <3> HIDE DEF m, t, s
    <3>5. Progress(k, req[k].script, n + 1, m, s)
      BY <1>5, <3>1, <3>2, <3>4, ProgressChunk
    <3>6. n + 1 \in 0..Len(r.script)
      BY <1>5, <3>2
    <3>7. req'[source'] = r /\ source' = k /\ LastOf(Now') = m /\ pending'.text = s
      BY <1>1, <1>4, <1>8, <2>6 DEF m, s
    <3>8. Progress(k, r.script, r.sent, m, s) /\ r.sent \in 0..Len(r.script) /\ ~r.completed /\ r.pc = "open"
      BY <1>3, <1>5, <2>1, <3>1, <3>5, <3>6
    <3> QED
      BY <3>1, <3>7, <3>8 DEF StreamOK, Streams
  <2> QED
    BY <2>5, <2>6, <2>8, <2>9 DEF WholeInv
<1> QED
  BY <1>7, <1>8

\* The connection is closed before [DONE].
LEMMA StreamCutKeeps ==
  ASSUME IInv, WholeInv, ~overwritten, NEW k \in Send, StreamCut(k)
  PROVE  WholeInv'
<1>1. /\ req[k].pc = "open" /\ req' = [req EXCEPT ![k].pc = "closed", ![k].cut = TRUE]
      /\ UNCHANGED <<messages, queue, gen, latest, stored, editing, sends, pending, source>>
  BY DEF StreamCut, pageVars
<1>2. PICK r : SameStory(k, r) /\ r.pc = "closed" /\ r.cut
  BY <1>1, ClosedStory
<1>3. source = k
  BY <1>1, Unpacked DEF ReqOK
<1>4. IsPending(LastOf(Now))
  BY <1>3 DEF WholeInv, StreamOK, Streams, Send
<1>5. Streams(r, LastOf(Now))
  BY <1>2, <1>4 DEF Streams
<1> QED
  BY <1>1, <1>2, <1>5, AsideStep

\* What an early evaluation keeps to be saved.
LEMMA PersistOld ==
  ASSUME NEW S, NEW q \in Seq(S), Persist(q), Sound(q, GoodMessage), latest \in Seq(OldMessage)
  PROVE  latest' \in Seq(OldMessage)
<1>1. GoodMessage \subseteq OldMessage
  BY DEF GoodMessage, OldMessage
<1>2. CASE queue = <<>> /\ q # <<>> /\ q[1].kind = "value"
  <2>1. 1 \in DOMAIN q
    BY <1>2
  <2>2. latest' = q[1].list /\ q[1].list \in Seq(GoodMessage)
    BY <1>2, <2>1 DEF Persist, Sound
  <2> HIDE DEF GoodMessage, OldMessage
  <2> QED
    BY <1>1, <2>2, SeqMono
<1>3. CASE ~(queue = <<>> /\ q # <<>> /\ q[1].kind = "value")
  BY <1>3 DEF Persist
<1> QED
  BY <1>2, <1>3

\* handleStreamComplete and handleStreamError: first what is pending is flushed.
LEMMA FinishNow ==
  ASSUME IInv, WholeInv, ~overwritten, shown, NEW kind \in {"complete", "error"}, Finish(gen, kind),
         UNCHANGED <<messages, gen>>, HasText(pending.text) => IsPending(LastOf(Now)),
         UpdateMessage(Flushed(LastOf(Now)), Update(kind, gen, NoText)) \in GoodMessage
  PROVE  /\ Now' \in Seq(GoodMessage) /\ Sound(queue', GoodMessage)
         /\ latest' \in Seq(OldMessage) /\ requesting' = FALSE
<1> DEFINE ow == overwritten
           u == Update(kind, gen, NoText)
           m == Flushed(LastOf(Now))
<1>1. PICK q \in FlushQueues(gen) : queue' \in Enqueue(q, u) /\ Persist(queue')
  BY DEF Finish
<1>2. requesting' = FALSE
  BY DEF Finish
<1>3. /\ messages \in Answered(sends, ow) /\ gen \in Nat /\ ow \in BOOLEAN
      /\ queue \in Seq(Queued(gen, sends, ow)) /\ pending \in [gen: Nat, text: OwnText(sends)]
      /\ pending.gen = gen
  BY NowEnds
<1>4. Now \in Seq(GoodMessage) /\ Sound(queue, GoodMessage)
  BY LastGood
<1>5. m \in GoodMessage
  BY FlushedGood
<1>6. /\ q \in Seq(Queued(gen, sends, ow)) /\ DrainFrom(messages, q, gen) \in Seq(GoodMessage)
      /\ Sound(q, GoodMessage) /\ LastOf(DrainFrom(messages, q, gen)) = m
  <2> HIDE DEF GoodMessage
  <2> QED
    BY <1>3, <1>4, <1>5, FlushNow
<1>7. u \in Queued(gen, sends, ow) /\ u.kind # "value"
  <2>1. NoText \in OwnText(sends) /\ kind \in Kinds \ {"value"} /\ kind # "stop"
    BY NoTextOwn DEF Kinds
  <2>2. u.kind = kind
    BY DEF Update
  <2> HIDE DEF u
  <2> QED
    BY <1>3, <2>1, <2>2, UpdateUpd DEF u
<1>8. UpdateMessage(m, u) \in GoodMessage
  OBVIOUS
<1> HIDE DEF u, m
<1>9. DrainFrom(messages, queue', gen) \in Seq(GoodMessage) /\ Sound(queue', GoodMessage)
  <2> HIDE DEF GoodMessage
  <2>1. UpdateMessage(LastOf(DrainFrom(messages, q, gen)), u) \in GoodMessage
    BY <1>6, <1>8
  <2> QED
    BY <1>1, <1>3, <1>6, <1>7, <2>1, EnqueueNow
<1>10. queue' \in Seq(Queued(gen, sends, ow))
  BY <1>1, <1>3, <1>6, <1>7, EnqueueQueued
<1>11. latest' \in Seq(OldMessage)
  <2>1. latest \in Seq(OldMessage)
    BY DEF WholeInv, Kept
  <2> QED
    BY <1>1, <1>9, <1>10, <2>1, PersistOld
<1>12. Now' \in Seq(GoodMessage)
  BY <1>9 DEF Now
<1> QED
  BY <1>2, <1>9, <1>11, <1>12

\* The request of send k is over.
LEMMA IdleEnd ==
  ASSUME IInv, WholeInv, ~overwritten, IInv', NEW k \in Send, NEW r, SameStory(k, r),
         UNCHANGED <<messages, gen, stored, editing, sends>>, ~requesting',
         Now' \in Seq(GoodMessage), Sound(queue', GoodMessage), latest' \in Seq(OldMessage)
  PROVE  WholeInv'
<1>1. Kept /\ EditOK /\ AnswerOK
  BY DEF WholeInv
<1>2. sends \in Nat
  BY DEF IInv, ReqSide, Counts
<1>3. Stays /\ AnswerOK' /\ sends' \in Nat
  BY <1>1, <1>2, StoryStays
<1>4. GoodMessage \subseteq GoodMessage'
  BY <1>2, <1>3, GoodStays
<1>5. /\ messages' \in Seq(GoodMessage') /\ Now' \in Seq(GoodMessage')
      /\ latest' \in Seq(OldMessage') /\ stored' \in Seq(OldMessage')
  <2>1. messages \in Seq(GoodMessage) /\ stored \in Seq(OldMessage)
    BY <1>1 DEF Kept
  <2> HIDE DEF GoodMessage, OldMessage
  <2> QED
    BY <1>2, <1>3, <2>1, GoodStays
<1>6. Sound(queue', GoodMessage')
  BY <1>4, SoundMono
<1>7. Kept'
  BY <1>5, <1>6 DEF Kept
<1>8. EditedOld'
  BY <1>1 DEF EditOK, EditedOld
<1> QED
  BY <1>3, <1>7, <1>8, IdleStep

\* An error makes no claim about the text.
LEMMA ErrorGood ==
  ASSUME NEW m \in GoodMessage, NEW g
  PROVE  UpdateMessage(m, Update("error", g, NoText)) \in GoodMessage
<1> DEFINE n == ErrorMessage(m)
<1>1. UpdateMessage(m, Update("error", g, NoText)) = n
  BY DEF UpdateMessage, Update
<1>2. m \in OwnMessage
  BY DEF GoodMessage
<1>3. Heir(m, n) /\ n.status = "error"
  BY <1>2, ErrorOwn
<1> HIDE DEF n
<1>4. n.whole \in BOOLEAN /\ ~IsPending(n)
  BY <1>3 DEF Heir, OwnMessage, Message, IsPending
<1>5. n \in GoodMessage
  BY <1>3, <1>4, HeirGood
<1> QED
  BY <1>1, <1>5

\* The headers cannot be fetched.
LEMMA HeadersFailedKeeps ==
  ASSUME IInv, WholeInv, ~overwritten, IInv', NEW k \in Send, HeadersFailed(k)
  PROVE  WholeInv'
<1>1. /\ req[k].pc = "headers" /\ req' = [req EXCEPT ![k].pc = "over"]
      /\ UNCHANGED <<messages, gen, stored, editing, sends, source>>
  BY DEF HeadersFailed, pageVars
<1>2. PICK r : SameStory(k, r) /\ r.pc = "over"
  BY <1>1, OverStory
<1>3. CASE req[k].ctl # ctl
  <2>1. UNCHANGED <<pending, queue, latest>>
    BY <1>3 DEF HeadersFailed
  <2>2. source # k
    BY <1>1, Unpacked DEF SourceOK, Send
  <2> QED
    BY <1>1, <1>2, <2>1, <2>2, AsideStep
<1>4. CASE req[k].ctl = ctl
  <2>1. req[k].gen = gen /\ k = sends /\ requesting /\ mounted
    BY <1>1, <1>4, LiveRequest
  <2>2. source = 0 /\ shown /\ ~HasText(pending.text)
    BY <1>1, <2>1, Unpacked DEF ReqOK, Live, PageSide, PageOK, PendingOK
  <2>3. Finish(gen, "error")
    BY <1>4, <2>1 DEF HeadersFailed
  <2>4. Flushed(LastOf(Now)) \in GoodMessage
    BY <2>2, FlushedGood
  <2>5. UpdateMessage(Flushed(LastOf(Now)), Update("error", gen, NoText)) \in GoodMessage
    BY <2>4, ErrorGood
  <2>6. /\ Now' \in Seq(GoodMessage) /\ Sound(queue', GoodMessage)
        /\ latest' \in Seq(OldMessage) /\ requesting' = FALSE
    BY <1>1, <2>2, <2>3, <2>5, FinishNow
  <2> QED
    BY <1>1, <1>2, <2>6, IdleEnd
<1> QED
  BY <1>3, <1>4

\* The answer has arrived: after the last flush the message holds what was said.
LEMMA CompletedGood ==
  ASSUME IInv, WholeInv, ~overwritten, NEW k \in Send, Listening(k), source = k,
         req[k].sent = Len(req[k].script)
  PROVE  UpdateMessage(Flushed(LastOf(Now)), Update("complete", gen, NoText)) \in GoodMessage
<1> DEFINE m == LastOf(Now)
           t == pending.text
           f == Flushed(m)
           s == req[k].script
           n == CompleteAssistantMessage(f)
           e == [n EXCEPT !.whole = TRUE]
<1>1. req[k].pc = "open" /\ k = sends /\ shown
  BY ListeningSource
<1>2. /\ m \in OwnMessage /\ m.from = "assistant" /\ m.k = k /\ t \in OwnText(k)
  BY <1>1, NowEnds
<1>3. s \in Seq(Chunk) /\ Len(s) \in 0..Len(s)
  <2>1. s \in Seq(Chunk)
    BY ReqTyped DEF ReqType
  <2> QED
    BY <2>1
<1>4. IsPending(m) /\ Progress(k, s, Len(s), m, t)
  <2>1. Streams(req[k], m)
    BY DEF WholeInv, StreamOK, Send
  <2> QED
    BY <1>1, <2>1 DEF Streams
<1>5. f \in GoodMessage /\ IsPending(f) /\ f.k = k /\ f \in OwnMessage
  BY <1>1, <1>4, FlushedGood
<1>6. Progress(k, s, Len(s), f, NoText)
  <2>1. CASE HasText(t)
    <3>1. f = ApplyStreamingChunk(m, t) /\ m.status # "error"
      BY <1>4, <2>1 DEF Flushed, IsPending
    <3> HIDE DEF m, t, f, s
    <3>2. Progress(k, s, Len(s), ApplyStreamingChunk(m, t), NoText)
      BY <1>2, <1>3, <1>4, <3>1, ProgressFlush
    <3> QED
      BY <3>1, <3>2
  <2>2. CASE ~HasText(t)
    <3>1. f = m /\ t = NoText
      BY <1>2, <2>2, NoTextIs DEF Flushed
    <3> QED
      BY <1>4, <3>1
  <2> QED
    BY <2>1, <2>2
<1>7. UpdateMessage(f, Update("complete", gen, NoText)) = e
  BY <1>5 DEF UpdateMessage, Update, IsFinal, IsPending
<1> HIDE DEF f, s
<1>8. ShowsWhole(e, s)
  BY <1>3, <1>5, <1>6, CompletedShows
<1>9. Heir(f, n) /\ n.status = "complete" /\ n \in OwnMessage
  BY <1>5, CompleteOwn DEF Heir
<1> HIDE DEF n
<1>10. Heir(n, e) /\ e.status = "complete"
  BY <1>9, SetWhole
<1> HIDE DEF e
<1>11. Heir(f, e) /\ e.k = k /\ e.whole \in BOOLEAN /\ ~IsPending(e)
  BY <1>5, <1>9, <1>10 DEF Heir, IsPending, OwnMessage, Message
<1>12. e \in GoodMessage
  BY <1>5, <1>8, <1>11, HeirGood DEF s
<1> QED
  BY <1>7, <1>12 DEF f

\* [DONE], or an error of the stream.
LEMMA StreamEndsKeeps ==
  ASSUME IInv, WholeInv, ~overwritten, IInv', NEW k \in Send, NEW kind \in {"complete", "error"},
         StreamEnds(k, kind), Listening(k),
         kind = "complete" => req[k].sent = Len(req[k].script)
  PROVE  WholeInv'
<1>1. /\ req' = [req EXCEPT ![k].pc = "closed", ![k].completed = TRUE]
      /\ UNCHANGED <<messages, gen, stored, editing, sends>>
  BY DEF StreamEnds, CloseActiveSource, pageVars
<1>2. PICK r : SameStory(k, r) /\ r.pc = "closed"
  BY <1>1, ClosedStory DEF Listening
<1>3. CASE source # k
  <2>1. UNCHANGED <<source, pending, queue, latest>>
    BY <1>3 DEF StreamEnds, Handled
  <2> QED
    BY <1>1, <1>2, <1>3, <2>1, AsideStep
<1>4. CASE source = k
  <2>1. Handled(k) /\ req[k].gen = gen /\ shown
    BY <1>4, ListeningSource
  <2>2. Finish(gen, kind)
    BY <2>1 DEF StreamEnds
  <2>3. IsPending(LastOf(Now))
    BY <1>4 DEF WholeInv, StreamOK, Streams, Send
  <2>4. Flushed(LastOf(Now)) \in GoodMessage
    BY <2>1, <2>3, FlushedGood
  <2>5. UpdateMessage(Flushed(LastOf(Now)), Update(kind, gen, NoText)) \in GoodMessage
    BY <1>4, <2>4, ErrorGood, CompletedGood
  <2>6. /\ Now' \in Seq(GoodMessage) /\ Sound(queue', GoodMessage)
        /\ latest' \in Seq(OldMessage) /\ requesting' = FALSE
    BY <1>1, <2>1, <2>2, <2>3, <2>5, FinishNow
  <2> QED
    BY <1>1, <1>2, <2>6, IdleEnd
<1> QED
  BY <1>3, <1>4

\* A choice has arrived: its text is what the chunks amount to.
LEMMA ResponseGood ==
  ASSUME IInv, WholeInv, ~overwritten, NEW k \in Send, Live(k)
  PROVE  /\ UpdateMessage(LastOf(Now), Update("response", gen, req[k].answer)) \in GoodMessage
         /\ k = sends /\ shown /\ req[k].answer \in OwnText(k)
<1> DEFINE m == LastOf(Now)
           a == req[k].answer
           s == req[k].script
           e == ApplyChatCompletionChoice(m, a)
<1>1. k = sends /\ shown
  BY Unpacked DEF ReqOK, PageSide, PageOK
<1>2. m \in OwnMessage /\ m.k = k /\ m \in GoodMessage
  BY <1>1, NowEnds, LastGood
<1>3. a \in OwnText(k) /\ s \in Seq(Chunk)
  BY ReqTyped DEF ReqType
<1>4. a = FullText(k, s) /\ m.reasoning = <<>>
  BY DEF Live, WholeInv, AnswerOK, WaitOK, Blank
<1>5. UpdateMessage(m, Update("response", gen, a)) = e
  BY DEF UpdateMessage, Update
<1> HIDE DEF m, a, s
<1>6. ShowsWhole(e, s)
  BY <1>2, <1>3, <1>4, AnsweredShows
<1>7. Heir(m, e) /\ e.status = "complete"
  BY <1>2, <1>3, ResponseOwn
<1> HIDE DEF e
<1>8. e.k = k /\ e.whole \in BOOLEAN /\ ~IsPending(e)
  BY <1>2, <1>7 DEF Heir, IsPending, OwnMessage, Message
<1>9. e \in GoodMessage
  BY <1>2, <1>6, <1>7, <1>8, HeirGood DEF s
<1> QED
  BY <1>1, <1>3, <1>5, <1>9 DEF m, a

\* The response of a request without a stream.
LEMMA ResponseKeeps ==
  ASSUME IInv, WholeInv, ~overwritten, IInv', NEW k \in Send, NEW kind \in {"response", "error"},
         Response(k, kind)
  PROVE  WholeInv'
<1>1. /\ req[k].pc = "posted" /\ req' = [req EXCEPT ![k].pc = "over"]
      /\ UNCHANGED <<messages, gen, stored, editing, sends, source>>
  BY DEF Response, pageVars
<1>2. PICK r : SameStory(k, r) /\ r.pc = "over"
  BY <1>1, OverStory
<1>3. CASE req[k].gen # gen
  <2>1. UNCHANGED <<pending, queue, latest>>
    BY <1>3 DEF Response
  <2>2. source # k
    BY <1>1, Unpacked DEF SourceOK, Send
  <2> QED
    BY <1>1, <1>2, <2>1, <2>2, AsideStep
<1>4. CASE req[k].gen = gen
  <2>1. Live(k) /\ mounted /\ shown /\ k = sends /\ ~HasText(pending.text)
    BY <1>1, <1>4, Unpacked DEF ReqOK, Live, PageSide, PageOK, PendingOK
  <2>2. /\ Now' \in Seq(GoodMessage) /\ Sound(queue', GoodMessage)
        /\ latest' \in Seq(OldMessage) /\ requesting' = FALSE
    <3>1. CASE kind = "error"
      <4>1. Finish(gen, "error")
        BY <1>4, <3>1 DEF Response
      <4>2. Flushed(LastOf(Now)) \in GoodMessage
        BY <2>1, FlushedGood
      <4>3. UpdateMessage(Flushed(LastOf(Now)), Update("error", gen, NoText)) \in GoodMessage
        BY <4>2, ErrorGood
      <4> QED
        BY <1>1, <2>1, <4>1, <4>3, FinishNow
    <3>2. CASE kind = "response"
      <4> DEFINE ow == overwritten
                 u == Update("response", gen, req[k].answer)
      <4>1. queue' \in Enqueue(queue, u) /\ Persist(queue') /\ requesting' = FALSE
        BY <1>4, <3>2 DEF Response
      <4>2. /\ messages \in Answered(sends, ow) /\ gen \in Nat /\ ow \in BOOLEAN
            /\ queue \in Seq(Queued(gen, sends, ow))
        BY <2>1, NowEnds
      <4>3. Now \in Seq(GoodMessage) /\ Sound(queue, GoodMessage)
        BY <2>1, LastGood
      <4>4. UpdateMessage(LastOf(Now), u) \in GoodMessage /\ req[k].answer \in OwnText(sends)
        BY <2>1, ResponseGood
      <4>5. u \in Queued(gen, sends, ow) /\ u.kind # "value"
        <5>1. "response" \in Kinds \ {"value"} /\ u.kind = "response"
          BY DEF Kinds, Update
        <5> HIDE DEF u
        <5> QED
          BY <4>2, <4>4, <5>1, UpdateUpd DEF u
      <4> HIDE DEF u
      <4>6. DrainFrom(messages, queue', gen) \in Seq(GoodMessage) /\ Sound(queue', GoodMessage)
        <5> HIDE DEF GoodMessage
        <5>1. DrainFrom(messages, queue, gen) = Now
          BY DEF Now
        <5> QED
          BY <4>1, <4>2, <4>3, <4>4, <4>5, <5>1, EnqueueNow
      <4>7. queue' \in Seq(Queued(gen, sends, ow))
        BY <4>1, <4>2, <4>5, EnqueueQueued
      <4>8. latest' \in Seq(OldMessage)
        <5>1. latest \in Seq(OldMessage)
          BY DEF WholeInv, Kept
        <5> QED
          BY <4>1, <4>6, <4>7, <5>1, PersistOld
      <4>9. Now' \in Seq(GoodMessage)
        BY <1>1, <4>6 DEF Now
      <4> QED
        BY <4>1, <4>6, <4>8, <4>9
    <3> QED
      BY <3>1, <3>2
  <2> QED
    BY <1>1, <1>2, <2>2, IdleEnd
<1> QED
  BY <1>3, <1>4

\* The conversation changes, and no request does.
LEMMA SameRequests ==
  ASSUME IInv, WholeInv, ~overwritten, UNCHANGED <<req, gen, sends, source, editing>>, Kept',
         \A k \in Send : Live(k) => Blank(LastOf(Now')),
         source # 0 => /\ IsPending(LastOf(Now'))
                       /\ req[source].pc = "open" =>
                            Progress(source, req[source].script, req[source].sent, LastOf(Now'), pending'.text)
  PROVE  WholeInv'
<1>1. EditOK /\ AnswerOK /\ WaitOK /\ StreamOK
  BY DEF WholeInv
<1>2. \A k \in Send : Live(k)' => Live(k)
  BY DEF Live
<1>3. EditOK' /\ AnswerOK'
  BY <1>1, <1>2 DEF EditOK, EditedOld, AnswerOK
<1>4. WaitOK'
  BY <1>1, <1>2 DEF WaitOK
<1>5. StreamOK'
  BY <1>1 DEF StreamOK, Streams
<1> QED
  BY <1>3, <1>4, <1>5 DEF WholeInv

\* The flush timer fires.
LEMMA FlushTimerKeeps ==
  ASSUME IInv, WholeInv, ~overwritten, FlushTimer
  PROVE  WholeInv'
<1>1. UNCHANGED <<messages, gen, req, sends, source, editing, stored>>
  BY DEF FlushTimer, pageVars
<1>2. Kept /\ WaitOK /\ StreamOK
  BY DEF WholeInv
<1>3. sends \in Nat /\ sends' \in Nat /\ Stays
  BY <1>1 DEF IInv, ReqSide, Counts, Stays
<1>4. CASE UNCHANGED <<pending, queue, latest>>
  <2>1. Kept' /\ Now' = Now
    BY <1>1, <1>2, <1>3, <1>4, KeptSame DEF Kept
  <2> QED
    BY <1>1, <1>2, <1>4, <2>1, SameRequests DEF WaitOK, StreamOK, Streams
<1>5. CASE timer.gen = gen /\ ~UNCHANGED <<pending, queue, latest>>
  <2>1. queue' \in FlushQueues(gen) /\ Persist(queue')
        /\ pending' = IF pending.gen = gen THEN [pending EXCEPT !.text = NoText] ELSE pending
    BY <1>5 DEF FlushTimer, FlushStreamUpdates
  <2>2. mounted
    BY DEF FlushTimer, IInv, PageSide, TimerOK
  <2>3. pending \in [gen: Nat, text: OwnText(sends)] /\ pending.gen = gen
    BY <2>2 DEF IInv, PageSide, PendingOK
  <2>4. pending'.text = NoText
    BY <2>1, <2>3
  <2>5. HasText(pending.text)
    <3> SUFFICES ASSUME ~HasText(pending.text) PROVE FALSE
      OBVIOUS
    <3>1. queue' = queue
      BY <2>1 DEF FlushQueues
    <3>2. pending.text = NoText
      BY <2>3, NoTextIs
    <3>3. pending' = pending
      <4> HIDE DEF NoText
      <4> QED
        BY <2>1, <2>3, <3>2
    <3>4. latest' = latest
      BY <2>1, <3>1 DEF Persist
    <3> QED
      BY <1>5, <3>1, <3>3, <3>4
  <2>6. source # 0 /\ source \in Send /\ shown /\ source = sends
    BY <2>2, <2>5 DEF IInv, PageSide, ReqSide, PendingOK, SourceOK, PageOK, Counts
  <2>7. Streams(req[source], LastOf(Now))
    BY <1>2, <2>6 DEF StreamOK
  <2>8. IsPending(LastOf(Now))
    BY <2>7 DEF Streams
  <2> DEFINE m == LastOf(Now)
             f == Flushed(m)
             ow == overwritten
  <2>9. f \in GoodMessage /\ IsPending(f)
    BY <2>6, <2>8, FlushedGood
  <2>10. /\ messages \in Answered(sends, ow) /\ gen \in Nat /\ ow \in BOOLEAN
         /\ queue \in Seq(Queued(gen, sends, ow))
         /\ m \in OwnMessage /\ m.from = "assistant" /\ m.k = sends
    BY <2>6, NowEnds
  <2>11. Now \in Seq(GoodMessage) /\ Sound(queue, GoodMessage)
    BY <2>6, LastGood
  <2>12. /\ queue' \in Seq(Queued(gen, sends, ow))
         /\ DrainFrom(messages, queue', gen) \in Seq(GoodMessage) /\ Sound(queue', GoodMessage)
         /\ LastOf(DrainFrom(messages, queue', gen)) = f
    <3> HIDE DEF GoodMessage
    <3> QED
      BY <2>1, <2>3, <2>9, <2>10, <2>11, FlushNow
  <2>13. Now' = DrainFrom(messages, queue', gen)
    BY <1>1 DEF Now
  <2>14. latest' \in Seq(OldMessage)
    BY <1>2, <2>1, <2>12, PersistOld DEF Kept
  <2>15. Kept'
    <3>1. /\ messages' \in Seq(GoodMessage') /\ Now' \in Seq(GoodMessage')
          /\ latest' \in Seq(OldMessage') /\ stored' \in Seq(OldMessage')
      <4>1. messages \in Seq(GoodMessage) /\ stored \in Seq(OldMessage)
        BY <1>2 DEF Kept
      <4> HIDE DEF GoodMessage, OldMessage
      <4> QED
        BY <1>1, <1>3, <2>12, <2>13, <2>14, <4>1, GoodStays
    <3>2. Sound(queue', GoodMessage')
      BY <1>3, <2>12, GoodStays, SoundMono
    <3> QED
      BY <3>1, <3>2 DEF Kept
  <2>16. \A k \in Send : ~Live(k)
    BY <2>6 DEF IInv, ReqSide, ReqOK
  <2>17. ASSUME req[source].pc = "open"
         PROVE  Progress(source, req[source].script, req[source].sent, f, NoText)
    <3> DEFINE s == req[source].script
               n == req[source].sent
               t == pending.text
    <3>1. n \in 0..Len(s) /\ Progress(source, s, n, m, t)
      BY <2>7, <2>17 DEF Streams
    <3>2. s \in Seq(Chunk)
      BY <2>6, ReqTyped DEF ReqType
    <3>3. f = ApplyStreamingChunk(m, t) /\ m.status # "error" /\ t \in OwnText(m.k) /\ m.k = source
      BY <2>3, <2>5, <2>6, <2>8, <2>10 DEF Flushed, IsPending
    <3> HIDE DEF m, f, s, n, t
    <3>4. Progress(m.k, s, n, ApplyStreamingChunk(m, t), NoText)
      BY <2>10, <3>1, <3>2, <3>3, ProgressFlush
    <3> QED
      BY <3>3, <3>4 DEF s, n
  <2> HIDE DEF f
  <2>18. LastOf(Now') = f
    BY <2>12, <2>13
  <2> QED
    BY <1>1, <2>4, <2>9, <2>15, <2>16, <2>17, <2>18, SameRequests
<1> QED
  <2>1. timer.gen # gen => UNCHANGED <<pending, queue, latest>>
    BY DEF FlushTimer
  <2> QED
    BY <1>4, <1>5, <2>1

\* React renders what is queued: nothing changes in what is to come.
LEMMA RenderKeeps ==
  ASSUME IInv, WholeInv, ~overwritten, Render
  PROVE  WholeInv'
<1>1. /\ messages' = Drain(queue, gen) /\ queue' = <<>>
      /\ UNCHANGED <<gen, req, sends, source, editing, stored, pending>>
  BY DEF Render, chatVars
<1>2. Kept /\ WaitOK /\ StreamOK
  BY DEF WholeInv
<1>3. sends \in Nat /\ sends' \in Nat /\ Stays
  BY <1>1 DEF IInv, ReqSide, Counts, Stays
<1>4. messages' = Now
  BY <1>1, DrainIsFrom DEF Now
<1>5. Now' = Now
  BY <1>1, <1>4, RenderedKept
<1>6. Kept'
  <2>1. latest' = Now \/ latest' = latest
    BY <1>4 DEF Render
  <2>2. Now \in Seq(GoodMessage) /\ stored \in Seq(OldMessage) /\ latest \in Seq(OldMessage)
    BY <1>2 DEF Kept
  <2>3. messages' \in Seq(GoodMessage') /\ latest' \in Seq(OldMessage') /\ stored' \in Seq(OldMessage')
    <3> HIDE DEF GoodMessage, OldMessage
    <3> QED
      BY <1>1, <1>3, <1>4, <2>1, <2>2, GoodStays
  <2> QED
    BY <1>1, <2>3, RenderedKept
<1> QED
  BY <1>1, <1>2, <1>5, <1>6, SameRequests DEF WaitOK, StreamOK, Streams

\* The debounce timer saves.
LEMMA SaveTimerKeeps ==
  ASSUME IInv, WholeInv, ~overwritten, SaveTimer
  PROVE  WholeInv'
<1>1. /\ stored' \in {stored, Trim(latest)}
      /\ UNCHANGED <<messages, queue, gen, req, sends, source, editing, latest, pending>>
  BY DEF SaveTimer, SaveMessages, chatVars
<1>2. Kept /\ WaitOK /\ StreamOK
  BY DEF WholeInv
<1>3. sends \in Nat /\ sends' \in Nat /\ Stays
  BY <1>1 DEF IInv, ReqSide, Counts, Stays
<1>4. latest' \in Seq(OldMessage) /\ stored' \in Seq(OldMessage)
  BY <1>1, <1>2, TrimKeeps DEF Kept
<1>5. Kept' /\ Now' = Now
  BY <1>1, <1>2, <1>3, <1>4, KeptSame
<1> QED
  BY <1>1, <1>2, <1>5, SameRequests DEF WaitOK, StreamOK, Streams

\* A step that changes nothing.
LEMMA StutterKeeps ==
  ASSUME IInv, WholeInv, ~overwritten, UNCHANGED vars
  PROVE  WholeInv'
<1>1. UNCHANGED <<messages, queue, gen, req, sends, source, editing, latest, stored, pending>>
  BY DEF vars
<1>2. Kept /\ WaitOK /\ StreamOK
  BY DEF WholeInv
<1>3. sends \in Nat /\ sends' \in Nat /\ Stays
  BY <1>1 DEF IInv, ReqSide, Counts, Stays
<1>4. Kept' /\ Now' = Now
  BY <1>1, <1>2, <1>3, KeptSame DEF Kept
<1> QED
  BY <1>1, <1>2, <1>4, SameRequests DEF WaitOK, StreamOK, Streams

\* A send: list is the conversation with the new, empty answer at its end.
LEMMA AskKeeps ==
  ASSUME IInv, WholeInv, ~overwritten, IInv', NEW l \in Seq(GoodMessage),
         NEW x \in {<<>>, <<User(sends + 1)>>}, Ask((l \o x) \o <<Loading(sends + 1)>>),
         UNCHANGED <<stored, overwritten>>, editing' = NoKey \/ editing' = editing
  PROVE  WholeInv'
<1> USE MaxSendsAssumption
<1> DEFINE n == sends + 1
           list == (l \o x) \o <<Loading(n)>>
<1>1. PICK pc \in {"headers", "posted"}, script \in Scripts : SendChat(list, pc, script)
  BY DEF Ask
<1> DEFINE r == [NoReq EXCEPT !.pc = pc, !.gen = gen + 1, !.ctl = ctl + 1,
                              !.script = script, !.answer = FullText(n, script)]
<1>2. /\ sends < MaxSends /\ sends' = n /\ gen' = gen + 1 /\ source' = 0
      /\ req' = [CloseSource(source) EXCEPT ![n] = r]
  BY <1>1 DEF SendChat
<1>3. messages' = list /\ queue' = <<>> /\ latest' = list
  BY DEF Ask, Rendered
<1>4. sends \in Nat /\ n \in Send /\ sends' \in Nat /\ sends <= sends' /\ ReqOK
  BY <1>2 DEF IInv, ReqSide, Counts, Send
<1>5. r.script = script /\ r.answer = FullText(n, script) /\ r.sent = 0 /\ r.completed = FALSE /\ r.pc = pc
  <2> HIDE DEF n
  <2>1. \A a : [NoReq EXCEPT !.pc = pc, !.gen = gen + 1, !.ctl = ctl + 1,
                              !.script = script, !.answer = a].answer = a
    BY DEF NoReq
  <2> QED
    BY <2>1 DEF NoReq
<1> HIDE DEF r
<1>6. DOMAIN CloseSource(source) = Send
  BY DEF CloseSource
<1>7. req'[n] = r
  BY <1>2, <1>4, <1>6
<1>8. ASSUME NEW k \in Send, k # n
      PROVE  /\ req'[k].script = req[k].script /\ req'[k].answer = req[k].answer
             /\ req'[k].pc # "none" => req[k].pc # "none"
  <2>1. req'[k] = CloseSource(source)[k]
    BY <1>2, <1>6, <1>8
  <2>2. \/ req'[k] = [req[k] EXCEPT !.pc = "closed"] /\ req[k].pc = "open"
        \/ req'[k] = req[k]
    BY <2>1 DEF CloseSource
  <2>3. req[k] \in ReqType(k)
    BY <1>4 DEF ReqOK
  <2> QED
    BY <2>2, <2>3 DEF ReqType
<1>9. Stays
  <2>1. ASSUME NEW k \in Send, k <= sends PROVE k # n
    BY <1>4, <2>1 DEF Send
  <2> QED
    BY <1>4, <1>8, <2>1 DEF Stays
<1>10. User(n) \in GoodMessage' /\ Loading(n) \in GoodMessage' /\ Blank(Loading(n))
  <2>1. n <= sends'
    BY <1>2, <1>4
  <2>2. /\ User(n) \in OwnMessage /\ Loading(n) \in OwnMessage
        /\ User(n).k = n /\ User(n).whole = FALSE /\ Loading(n).k = n /\ Loading(n).whole = FALSE
        /\ Blank(Loading(n))
    <3>1. User(n) \in OwnMessage /\ Loading(n) \in OwnMessage
      BY <1>4, NewMessages
    <3> QED
      BY <3>1 DEF User, Loading, Blank, IsPending
  <2> HIDE DEF User, Loading, n
  <2> QED
    BY <2>1, <2>2 DEF GoodMessage
<1> DEFINE T == GoodMessage'
           a == Loading(n)
<1>11. l \in Seq(T)
  BY <1>4, <1>9, GoodStays
<1>12. list \in Seq(T) /\ LastOf(list) = a
  <2>1. x \in Seq(T)
    <3>1. <<>> \in Seq(T) /\ <<User(n)>> \in Seq(T)
      BY <1>10, EmptyText, OneText
    <3> QED
      BY <3>1
  <2>2. a \in T
    BY <1>10
  <2> DEFINE y == l \o x
  <2> HIDE DEF T, a
  <2>3. y \in Seq(T)
    BY <1>11, <2>1
  <2>4. list = y \o <<a>>
    BY DEF a
  <2> HIDE DEF y, list
  <2> QED
    BY <2>2, <2>3, <2>4 DEF LastOf
<1>13. Kept' /\ Now' = messages'
  <2>1. T \subseteq OldMessage'
    BY DEF GoodMessage, OldMessage
  <2>2. stored \in Seq(OldMessage)
    BY DEF WholeInv, Kept
  <2>3. stored' \in Seq(OldMessage')
    <3> HIDE DEF OldMessage
    <3> QED
      BY <1>4, <1>9, <2>2, GoodStays
  <2>4. latest' \in Seq(OldMessage')
    <3> HIDE DEF T
    <3> QED
      BY <1>3, <1>12, <2>1, SeqMono
  <2>5. messages' \in Seq(GoodMessage')
    BY <1>3, <1>12
  <2> QED
    BY <1>3, <2>3, <2>4, <2>5, RenderedKept
<1>14. ASSUME NEW k \in Send, Live(k)' PROVE k = n
  BY <1>2, <1>14 DEF IInv, ReqSide, ReqOK
<1>15. EditOK'
  <2>1. EditedOld
    BY DEF WholeInv, EditOK
  <2>2. Lists'
    BY DEF IInv, PageSide
  <2>3. ASSUME editing' # NoKey PROVE editing'[2] <= sends /\ editing'[2] \in Nat
    BY <2>1, <2>2, <2>3 DEF EditedOld, Lists, Send
  <2>4. EditedOld'
    BY <1>2, <1>4, <2>3 DEF EditedOld
  <2>5. editing' # <<"assistant", n>>
    <3> SUFFICES ASSUME editing' = <<"assistant", n>> PROVE FALSE
      OBVIOUS
    <3>1. editing' # NoKey /\ editing'[2] = n
      BY DEF NoKey
    <3> QED
      BY <1>4, <2>3, <3>1
  <2>6. \A k \in Send : source' # k
    BY <1>2 DEF Send
  <2> QED
    BY <1>14, <2>4, <2>5, <2>6 DEF EditOK
<1>16. AnswerOK'
  <2> SUFFICES ASSUME NEW k \in Send, req'[k].pc # "none"
               PROVE  req'[k].answer = FullText(k, req'[k].script)
    BY DEF AnswerOK
  <2>1. CASE k = n
    BY <1>5, <1>7, <2>1
  <2>2. CASE k # n
    BY <1>8, <2>2 DEF WholeInv, AnswerOK
  <2> QED
    BY <2>1, <2>2
<1>17. WaitOK'
  <2>1. Blank(LastOf(Now')) /\ req'[n].sent = 0 /\ ~req'[n].completed
    BY <1>3, <1>5, <1>7, <1>10, <1>12, <1>13
  <2> QED
    BY <1>14, <2>1 DEF WaitOK
<1>18. StreamOK'
  BY <1>2 DEF StreamOK
<1> QED
  BY <1>13, <1>15, <1>16, <1>17, <1>18 DEF WholeInv

\* handleSendMessage
LEMMA SendKeeps ==
  ASSUME IInv, WholeInv, ~overwritten, IInv', HandleSendMessage
  PROVE  WholeInv'
<1> DEFINE u == User(sends + 1)
           a == Loading(sends + 1)
           x == <<u>>
<1>1. Ask(messages \o <<u, a>>) /\ UNCHANGED <<stored, overwritten, editing>>
  BY DEF HandleSendMessage
<1>2. messages \in Seq(GoodMessage)
  BY DEF WholeInv, Kept
<1>3. messages \o <<u, a>> = (messages \o x) \o <<a>>
  <2> DEFINE S == GoodMessage \cup {u, a}
  <2>1. GoodMessage \subseteq S /\ u \in S /\ a \in S
    OBVIOUS
  <2> HIDE DEF S, u, a
  <2>2. messages \in Seq(S)
    BY <1>2, <2>1, SeqMono
  <2> QED
    BY <2>1, <2>2, AddTwo
<1>4. Ask((messages \o x) \o <<a>>)
  BY <1>1, <1>3
<1> HIDE DEF Ask
<1> QED
  BY <1>1, <1>2, <1>4, AskKeeps

\* A conversation that is cut and asked again: regenerate, and an edit that is submitted.
LEMMA ResendKeeps ==
  ASSUME IInv, WholeInv, ~overwritten, IInv', NEW i \in DOMAIN messages,
         HandleRegenerateMessage(i) \/ SubmitEdit(i)
  PROVE  WholeInv'
<1> DEFINE n == IF SubmitEdit(i) \/ messages[i].from = "user" THEN i ELSE i - 1
           l == SubSeq(messages, 1, n)
           x == <<>>
           a == Loading(sends + 1)
<1>1. /\ Ask(l \o <<a>>) /\ UNCHANGED <<stored, overwritten>>
      /\ editing' = NoKey \/ editing' = editing
  BY DEF HandleRegenerateMessage, SubmitEdit
<1>2. messages \in Seq(GoodMessage)
  BY DEF WholeInv, Kept
<1>3. n \in 0..Len(messages)
  BY <1>2
<1> HIDE DEF n
<1>4. l \in Seq(GoodMessage)
  <2> HIDE DEF GoodMessage
  <2> QED
    BY <1>2, <1>3, Start
<1> HIDE DEF l
<1>5. l \o x = l
  <2> HIDE DEF GoodMessage
  <2> QED
    BY <1>4
<1>6. Ask((l \o x) \o <<a>>)
  BY <1>1, <1>5
<1> HIDE DEF Ask
<1> QED
  BY <1>1, <1>4, <1>6, AskKeeps

\* With nothing shown, nothing is requested, and nothing is queued.
LEMMA NotShown ==
  ASSUME IInv, ~shown
  PROVE  ~requesting /\ queue = <<>>
  BY DEF IInv, PageSide, PageOK, QueueOK

\* handleDeleteMessage and handleClearMessages
LEMMA RemoveKeeps ==
  ASSUME IInv, WholeInv, ~overwritten, IInv',
         HandleClearMessages \/ \E i \in DOMAIN messages : HandleDeleteMessage(i)
  PROVE  WholeInv'
<1>1. /\ ~shown /\ UNCHANGED chatVars /\ UNCHANGED stored
      /\ queue' = <<>> /\ latest' = messages' /\ (editing' = NoKey \/ editing' = editing)
  BY DEF HandleClearMessages, HandleDeleteMessage, Rendered
<1>2. ~requesting /\ queue = <<>>
  BY <1>1, NotShown
<1>3. Kept /\ AnswerOK /\ EditedOld
  BY DEF WholeInv, EditOK
<1>4. messages' \in Seq(GoodMessage)
  <2>1. CASE HandleClearMessages
    BY <2>1, EmptyText DEF HandleClearMessages, Rendered
  <2>2. CASE \E i \in DOMAIN messages : HandleDeleteMessage(i)
    <3>1. PICK i \in DOMAIN messages : messages' = Without(Drain(queue, gen), KeyOf(messages[i]))
      BY <2>2 DEF HandleDeleteMessage, Rendered
    <3>2. Drain(queue, gen) = messages
      BY <1>2, DrainNothing
    <3> QED
      BY <1>3, <3>1, <3>2, WithoutType DEF Kept
  <2> QED
    BY <2>1, <2>2
<1>5. sends \in Nat /\ sends' \in Nat /\ Stays
  BY <1>1 DEF chatVars, IInv, ReqSide, Counts, Stays
<1>6. Kept'
  <2>1. stored \in Seq(OldMessage)
    BY <1>3 DEF Kept
  <2>2. messages' \in Seq(GoodMessage') /\ latest' \in Seq(OldMessage') /\ stored' \in Seq(OldMessage')
    <3> HIDE DEF GoodMessage, OldMessage
    <3> QED
      BY <1>1, <1>4, <1>5, <2>1, GoodStays
  <2> QED
    BY <1>1, <2>2, RenderedKept
<1>7. EditedOld' /\ AnswerOK' /\ ~requesting'
  BY <1>1, <1>2, <1>3 DEF EditedOld, AnswerOK, chatVars
<1> QED
  BY <1>6, <1>7, IdleStep

\* handleEditMessage
LEMMA EditKeeps ==
  ASSUME IInv, WholeInv, ~overwritten, IInv', NEW i \in DOMAIN messages, HandleEditMessage(i)
  PROVE  WholeInv'
<1>1. /\ ~shown /\ editing' = KeyOf(messages[i])
      /\ UNCHANGED <<messages, queue, gen, req, sends, latest, stored, requesting>>
  BY DEF HandleEditMessage, chatVars, saveVars
<1>2. Kept /\ AnswerOK
  BY DEF WholeInv
<1>3. sends \in Nat /\ sends' \in Nat /\ Stays
  BY <1>1 DEF IInv, ReqSide, Counts, Stays
<1>4. Kept'
  BY <1>1, <1>2, <1>3, KeptSame DEF Kept
<1>5. messages[i].k <= sends
  <2>1. messages[i] \in GoodMessage
    BY <1>2 DEF Kept
  <2> QED
    BY <2>1 DEF GoodMessage
<1>6. EditedOld' /\ AnswerOK' /\ ~requesting'
  BY <1>1, <1>2, <1>5, NotShown DEF EditedOld, KeyOf, AnswerOK
<1> QED
  BY <1>4, <1>6, IdleStep

\* applyEdit: with nothing queued, it changes a message that is not being answered.
LEMMA SaveEditKeeps ==
  ASSUME IInv, WholeInv, ~overwritten, ~overwritten', NEW i \in DOMAIN messages, SaveEdit(i)
  PROVE  WholeInv'
<1> DEFINE m == messages[i]
           c == <<UserToken>>
           d == [m EXCEPT !.content = c]
           e == [d EXCEPT !.whole = FALSE]
           n == Len(messages)
<1>1. /\ editing = KeyOf(m) /\ editing' = NoKey /\ UNCHANGED chatVars /\ UNCHANGED stored
      /\ queue = <<>> /\ queue' = <<>>
  BY DEF SaveEdit, Rendered
<1>2. messages' = ReplaceAt(messages, i, [m EXCEPT !.content = c, !.whole = FALSE]) /\ latest' = messages'
  BY DEF SaveEdit, Rendered
<1>3. Kept /\ EditOK /\ AnswerOK /\ WaitOK /\ StreamOK
  BY DEF WholeInv
<1>4. messages \in Seq(GoodMessage)
  BY <1>3 DEF Kept
<1>5. m \in GoodMessage /\ m \in OwnMessage
  <2>1. m \in GoodMessage
    BY <1>4
  <2> QED
    BY <2>1 DEF GoodMessage
<1>6. c \in Seq(Tok(m.k))
  BY <1>5, OwnFields, FreeTokens, OneText
<1>7. [m EXCEPT !.content = c, !.whole = FALSE] = e /\ e.whole = FALSE
  BY <1>5 DEF OwnMessage, Message
<1> HIDE DEF c
<1>8. Heir(m, d) /\ d \in OwnMessage
  BY <1>5, <1>6, SetContent DEF Heir
<1> HIDE DEF d
<1>9. Heir(d, e)
  BY <1>8, SetWhole
<1> HIDE DEF e
<1>10. e \in GoodMessage
  <2>1. Heir(m, e)
    BY <1>8, <1>9, HeirTrans
  <2>2. e.whole \in BOOLEAN /\ ~e.whole
    BY <1>7
  <2> QED
    BY <1>5, <2>1, <2>2, HeirGood
<1>11. /\ messages' \in Seq(GoodMessage) /\ Len(messages') = n
       /\ \A j \in DOMAIN messages : j # i => messages'[j] = messages[j]
  <2> HIDE DEF GoodMessage, m
  <2>1. messages' = ReplaceAt(messages, i, e)
    BY <1>2, <1>7
  <2> QED
    BY <1>4, <1>10, <2>1, ReplaceLast
<1>12. sends \in Nat /\ sends' \in Nat /\ Stays
  BY <1>1 DEF chatVars, IInv, ReqSide, Counts, Stays
<1>13. Now' = messages' /\ Now = messages
  BY <1>1, RenderedKept, DrainEmpty DEF Now
<1>14. Kept'
  <2>1. stored \in Seq(OldMessage)
    BY <1>3 DEF Kept
  <2>2. messages' \in Seq(GoodMessage') /\ latest' \in Seq(OldMessage') /\ stored' \in Seq(OldMessage')
    <3> HIDE DEF GoodMessage, OldMessage
    <3> QED
      BY <1>1, <1>2, <1>11, <1>12, <2>1, GoodStays
  <2> QED
    BY <1>1, <2>2, RenderedKept
<1>15. ASSUME NEW k \in Send, Live(k) \/ source = k PROVE LastOf(Now') = LastOf(Now)
  <2>1. k = sends /\ shown
    BY <1>15, Unpacked, LiveRequest DEF Live, PageSide, PageOK
  <2>2. LastOf(Now).from = "assistant" /\ LastOf(Now).k = sends /\ Len(Now) \in DOMAIN Now
    BY <2>1, NowEnds
  <2>3. editing # <<"assistant", sends>>
    BY <1>3, <1>15, <2>1 DEF EditOK
  <2>4. i # n
    BY <1>1, <1>13, <2>2, <2>3 DEF KeyOf, LastOf
  <2> QED
    BY <1>11, <1>13, <2>2, <2>4 DEF LastOf
<1>16. \A k \in Send : Live(k)' => Live(k)
  BY <1>1 DEF Live, chatVars
<1>17. EditOK' /\ AnswerOK'
  <2>1. \A k : NoKey # <<"assistant", k>>
    BY DEF NoKey
  <2> QED
    BY <1>1, <1>3, <2>1 DEF EditOK, EditedOld, AnswerOK, chatVars
<1>18. WaitOK'
  <2> SUFFICES ASSUME NEW k \in Send, Live(k)
               PROVE  Blank(LastOf(Now')) /\ req'[k].sent = 0 /\ ~req'[k].completed
    BY <1>16 DEF WaitOK
  <2> QED
    BY <1>1, <1>3, <1>15 DEF WaitOK, chatVars
<1>19. StreamOK'
  <2> SUFFICES ASSUME source # 0 PROVE Streams(req[source], LastOf(Now))'
    BY <1>1 DEF StreamOK, chatVars
  <2>1. source \in Send
    BY DEF IInv, ReqSide, Counts
  <2>2. LastOf(Now') = LastOf(Now)
    BY <1>15, <2>1
  <2>3. Streams(req[source], LastOf(Now))
    BY <1>3 DEF StreamOK
  <2> QED
    BY <1>1, <2>2, <2>3 DEF Streams, chatVars
<1> QED
  BY <1>14, <1>17, <1>18, <1>19 DEF WholeInv

\* Closing the active source changes no story.
LEMMA CloseStays ==
  ASSUME IInv, AnswerOK, req' = CloseSource(source), UNCHANGED sends
  PROVE  sends \in Nat /\ sends' \in Nat /\ Stays /\ AnswerOK'
<1>1. ASSUME NEW k \in Send
      PROVE  /\ req'[k].script = req[k].script /\ req'[k].answer = req[k].answer
             /\ req'[k].pc # "none" => req[k].pc # "none"
  <2>1. \/ req'[k] = [req[k] EXCEPT !.pc = "closed"] /\ req[k].pc = "open"
        \/ req'[k] = req[k]
    BY DEF CloseSource
  <2>2. req[k] \in ReqType(k)
    BY ReqTyped
  <2> QED
    BY <2>1, <2>2 DEF ReqType
<1>2. sends \in Nat /\ sends' \in Nat
  BY DEF IInv, ReqSide, Counts
<1>3. Stays
  BY <1>1, <1>2 DEF Stays
<1>4. AnswerOK'
  BY <1>1 DEF AnswerOK
<1> QED
  BY <1>2, <1>3, <1>4

\* A message that is stopped is not marked whole.
LEMMA StopGood ==
  ASSUME NEW m \in GoodMessage, NEW g
  PROVE  UpdateMessage(m, Update("stop", g, NoText)) \in GoodMessage
<1> DEFINE n == CompleteAssistantMessage(m)
<1>1. UpdateMessage(m, Update("stop", g, NoText)) = IF IsPending(m) THEN n ELSE m
  BY DEF UpdateMessage, Update
<1>2. m \in OwnMessage /\ (IsPending(m) => ~m.whole)
  BY DEF GoodMessage
<1>3. Heir(m, n) /\ n.status = "complete"
  BY <1>2, CompleteOwn
<1>4. n.whole = m.whole
  <2> DEFINE f == FinalizeMessage(m, <<>>)
  <2>1. f.whole = m.whole /\ f \in OwnMessage
    BY <1>2, FinalFields, FinalizeOwn, EmptyText DEF Heir
  <2>2. n = [f EXCEPT !.status = "complete"]
    BY DEF CompleteAssistantMessage
  <2> HIDE DEF f, n
  <2> QED
    BY <2>1, <2>2 DEF OwnMessage, Message
<1> HIDE DEF n
<1>5. CASE IsPending(m)
  <2>1. n.whole \in BOOLEAN /\ ~n.whole
    BY <1>2, <1>3, <1>4, <1>5 DEF Heir, OwnMessage, Message
  <2>2. n \in GoodMessage
    BY <1>3, <2>1, HeirGood
  <2> QED
    BY <1>1, <1>5, <2>2
<1>6. CASE ~IsPending(m)
  BY <1>1, <1>6
<1> QED
  BY <1>5, <1>6

\* stopGeneration: updates of the generation before are not evaluated any more.
LEMMA StopKeeps ==
  ASSUME IInv, WholeInv, ~overwritten, IInv', StopGeneration
  PROVE  WholeInv'
<1> DEFINE ow == overwritten
           u == Update("stop", gen + 1, NoText)
           U == {v \in Queued(gen, sends, ow) : v.kind = "value" => v.list \in Seq(GoodMessage)}
           V == {l \in Answered(sends, ow) : l \in Seq(GoodMessage)}
           W == U \cup {u}
<1>1. /\ shown /\ req' = CloseSource(source) /\ requesting' = FALSE
      /\ UNCHANGED <<sends, editing, stored>>
  BY DEF StopGeneration
<1>2. PICK q \in FlushQueues(gen) : Rendered(Drain(Append(q, u), gen + 1))
  BY DEF StopGeneration
<1>3. messages' = Drain(Append(q, u), gen + 1) /\ queue' = <<>> /\ latest' = messages'
  BY <1>2 DEF Rendered
<1>4. /\ messages \in Answered(sends, ow) /\ gen \in Nat /\ ow \in BOOLEAN /\ sends \in Nat
      /\ queue \in Seq(Queued(gen, sends, ow)) /\ pending \in [gen: Nat, text: OwnText(sends)]
      /\ pending.gen = gen /\ mounted
  BY <1>1, NowEnds
<1>5. Now \in Seq(GoodMessage) /\ Sound(queue, GoodMessage)
  BY <1>1, LastGood
<1>6. HasText(pending.text) => IsPending(LastOf(Now))
  <2>1. HasText(pending.text) => source # 0
    BY <1>4 DEF IInv, PageSide, PendingOK
  <2> QED
    BY <2>1 DEF WholeInv, StreamOK, Streams
<1>7. Flushed(LastOf(Now)) \in GoodMessage
  BY <1>1, <1>6, FlushedGood
<1>8. q \in Seq(Queued(gen, sends, ow)) /\ Sound(q, GoodMessage)
  <2> HIDE DEF GoodMessage
  <2> QED
    BY <1>2, <1>4, <1>5, <1>7, FlushNow
<1>9. q \in Seq(U)
  <2> DEFINE Q == Queued(gen, sends, ow)
  <2>0. q \in Seq(Q)
    BY <1>8
  <2>1. \A j \in DOMAIN q : q[j] \in U
    <3>1. \A j \in DOMAIN q : q[j] \in Q
      <4> HIDE DEF Q
      <4> QED
        BY <2>0
    <3> QED
      BY <1>8, <3>1 DEF Sound
  <2> HIDE DEF Q, U
  <2> QED
    BY <2>0, <2>1
<1>10. u.kind = "stop" /\ u.gen = gen + 1
  BY DEF Update
<1>11. ASSUME NEW l \in V, NEW v \in W PROVE Apply(l, v, gen + 1) \in V
  <2>1. l \in Answered(sends, ow) /\ l \in Seq(GoodMessage)
    OBVIOUS
  <2>2. v \in Upd(sends, ow)
    <3>1. u \in Upd(sends, ow)
      <4>1. NoText \in OwnText(sends) /\ "stop" \in Kinds \ {"value"} /\ gen + 1 \in Nat
        BY <1>4, NoTextOwn DEF Kinds
      <4> QED
        BY <4>1, UpdateUpd
    <3> QED
      BY <3>1 DEF Queued
  <2>3. Apply(l, v, gen + 1) \in Answered(sends, ow)
    BY <1>4, <2>1, <2>2, ApplyAnswered
  <2>4. Apply(l, v, gen + 1) \in Seq(GoodMessage)
    <3>1. CASE v = u
      <4> DEFINE n == Len(l)
                 e == UpdateMessage(l[n], u)
      <4>1. l # <<>> /\ l[n].from = "assistant"
        BY <2>1 DEF Answered, EndsIn
      <4>2. Last(l) = l[n] /\ n \in DOMAIN l /\ l[n] \in GoodMessage
        <5> HIDE DEF GoodMessage
        <5> QED
          BY <2>1, <4>1, LastIsLast
      <4>3. e \in GoodMessage
        BY <4>2, StopGood
      <4>4. Apply(l, v, gen + 1) = ReplaceAt(l, n, e)
        BY <1>10, <3>1, <4>1, <4>2 DEF Apply
      <4> HIDE DEF e, GoodMessage
      <4> QED
        BY <2>1, <4>2, <4>3, <4>4, ReplaceLast
    <3>2. CASE v # u
      <4>1. v \in U /\ v \in Queued(gen, sends, ow)
        BY <3>2
      <4>2. CASE v.kind = "value"
        BY <4>1, <4>2 DEF Apply
      <4>3. CASE v.kind # "value"
        <5>1. v.gen = gen
          BY <4>1, <4>3 DEF Queued
        <5>2. v.gen # gen + 1
          BY <1>4, <5>1
        <5>3. Apply(l, v, gen + 1) = l
          BY <4>3, <5>2 DEF Apply
        <5> QED
          BY <2>1, <5>3
      <4> QED
        BY <4>2, <4>3
    <3> QED
      BY <3>1, <3>2
  <2> QED
    BY <2>3, <2>4
<1>12. messages \in V
  BY <1>4 DEF WholeInv, Kept
<1>13. messages' \in Seq(GoodMessage)
  <2>1. U \subseteq W /\ u \in W
    OBVIOUS
  <2> HIDE DEF U, V, W, u
  <2>2. q \in Seq(W)
    BY <1>9, <2>1, SeqMono
  <2>3. Append(q, u) \in Seq(W)
    BY <2>1, <2>2
  <2> DEFINE p == Append(q, u)
  <2> HIDE DEF p
  <2>4. DrainFrom(messages, p, gen + 1) \in V
    BY <1>11, <1>12, <2>3, DrainFromKeeps DEF p
  <2>5. messages' \in V
    BY <1>3, <2>4, DrainIsFrom DEF p
  <2> QED
    BY <2>5 DEF V
<1>14. Kept /\ AnswerOK /\ EditedOld
  BY DEF WholeInv, EditOK
<1>15. sends' \in Nat /\ Stays /\ AnswerOK'
  BY <1>1, <1>14, CloseStays
<1>16. Kept'
  <2>1. stored \in Seq(OldMessage)
    BY <1>14 DEF Kept
  <2>2. messages' \in Seq(GoodMessage') /\ latest' \in Seq(OldMessage') /\ stored' \in Seq(OldMessage')
    <3> HIDE DEF GoodMessage, OldMessage
    <3> QED
      BY <1>1, <1>3, <1>4, <1>13, <1>15, <2>1, GoodStays
  <2> QED
    BY <1>3, <2>2, RenderedKept
<1>17. EditedOld'
  BY <1>1, <1>14 DEF EditedOld
<1> QED
  BY <1>1, <1>15, <1>16, <1>17, IdleStep

\* The page is left or closed: nothing is shown, and what is saved is as before.
LEMMA LeaveKeeps ==
  ASSUME IInv, WholeInv, ~overwritten, IInv', Unmount \/ PageClosed
  PROVE  WholeInv'
<1>1. /\ messages' = <<>> /\ latest' = <<>> /\ queue' = <<>> /\ editing' = NoKey /\ requesting' = FALSE
      /\ UNCHANGED sends /\ stored' \in {stored, Trim(latest)}
  BY DEF Unmount, PageClosed, Unshown, SaveMessages
<1>2. Kept /\ AnswerOK
  BY DEF WholeInv
<1>3. sends \in Nat /\ sends' \in Nat /\ Stays /\ AnswerOK'
  <2>1. CASE Unmount
    BY <1>1, <1>2, <2>1, CloseStays DEF Unmount
  <2>2. CASE PageClosed
    <3>1. \A k \in Send : req'[k].pc = "none"
      BY <2>2 DEF PageClosed, NoReq
    <3>2. sends \in Nat
      BY DEF IInv, ReqSide, Counts
    <3> QED
      BY <1>1, <3>1, <3>2 DEF Stays, AnswerOK
  <2> QED
    BY <2>1, <2>2
<1>4. stored' \in Seq(OldMessage)
  BY <1>1, <1>2, TrimKeeps DEF Kept
<1>5. messages' \in Seq(GoodMessage') /\ latest' \in Seq(OldMessage') /\ stored' \in Seq(OldMessage')
  <2> HIDE DEF GoodMessage, OldMessage
  <2> QED
    BY <1>1, <1>3, <1>4, GoodStays, EmptyText
<1>6. Kept'
  BY <1>1, <1>5, RenderedKept
<1>7. EditedOld'
  BY <1>1 DEF EditedOld
<1> QED
  BY <1>1, <1>3, <1>6, <1>7, IdleStep

\* The stored conversation is shown again; its requests are gone.
LEMMA MountKeeps ==
  ASSUME IInv, WholeInv, ~overwritten, IInv', Mount
  PROVE  WholeInv'
<1>1. /\ messages' = LoadMessages(stored) /\ latest' = messages'
      /\ stored' \in {stored, Trim(messages')}
      /\ queue' = <<>> /\ requesting' = FALSE /\ req' = [k \in Send |-> NoReq]
      /\ editing' = NoKey /\ UNCHANGED sends
  BY DEF Mount, SaveMessages
<1>2. stored \in Seq(OldMessage) /\ Tidy(stored)
  BY DEF WholeInv, Kept, IInv, PageSide, TidyOK
<1>3. OldMessage \subseteq OwnMessage /\ \A m \in OldMessage : \A n : Heir(m, n) => n \in OldMessage
  BY DEF OldMessage, Heir
<1>4. messages' \in Seq(OldMessage) /\ Settled(messages')
  <2> HIDE DEF OldMessage
  <2> QED
    BY <1>1, <1>2, <1>3, LoadSettles
<1>5. \A k \in Send : req'[k].pc = "none"
  BY <1>1 DEF NoReq
<1>6. ASSUME NEW i \in DOMAIN messages' PROVE messages'[i] \in GoodMessage'
  <2>1. messages'[i] \in OldMessage
    BY <1>4
  <2>2. ~IsPending(messages'[i])
    BY <1>4 DEF Settled
  <2>3. messages'[i] \in OwnMessage /\ messages'[i].k \in Send
    BY <2>1, OwnFields DEF OldMessage
  <2> QED
    BY <1>1, <1>5, <2>1, <2>2, <2>3 DEF GoodMessage, OldMessage
<1>7. messages' \in Seq(GoodMessage')
  <2> HIDE DEF GoodMessage, OldMessage
  <2> QED
    BY <1>4, <1>6
<1>8. latest' \in Seq(OldMessage') /\ stored' \in Seq(OldMessage')
  <2>1. stored' \in Seq(OldMessage)
    <3> HIDE DEF OldMessage
    <3> QED
      BY <1>1, <1>2, <1>4, TrimKeeps
  <2> QED
    BY <1>1, <1>4, <2>1 DEF OldMessage
<1>9. Kept'
  BY <1>1, <1>7, <1>8, RenderedKept
<1>10. EditedOld' /\ AnswerOK'
  BY <1>1, <1>5 DEF EditedOld, AnswerOK
<1> QED
  BY <1>1, <1>9, <1>10, IdleStep

\* A page that has just been opened.
LEMMA InitWholeInv ==
  ASSUME Init
  PROVE  WholeInv
<1> USE DEF Init
<1>1. Now = <<>>
  BY DrainEmpty DEF Now
<1>2. Kept
  BY <1>1, EmptyText DEF Kept, Sound
<1>3. \A k \in Send : req[k].pc = "none" /\ k # 0
  BY DEF NoReq, Send
<1>4. EditOK /\ AnswerOK /\ WaitOK /\ StreamOK
  BY <1>3 DEF EditOK, EditedOld, AnswerOK, WaitOK, StreamOK, Live
<1> QED
  BY <1>2, <1>4 DEF WholeInv

\* An edit that was saved over updates stays in the history of the page.
LEMMA OverwrittenStays ==
  ASSUME [Next]_vars, overwritten \in BOOLEAN, overwritten
  PROVE  overwritten'
<1>1. UNCHANGED overwritten \/ \E i \in DOMAIN messages : SaveEdit(i)
  BY DEF Next, vars, UserStep, ServerStep, HandleSendMessage, HandleClearMessages, StopGeneration,
     HandleRegenerateMessage, HandleDeleteMessage, HandleEditMessage, SubmitEdit, HeadersReady,
     HeadersFailed, StreamChunk, StreamDone, StreamFailed, StreamEnds, StreamCut, ResponseOk,
     ResponseFailed, Response, pageVars, FlushTimer, Render, SaveTimer, Unmount, PageClosed, Mount
<1> QED
  BY <1>1 DEF SaveEdit

\* Every step preserves it.
LEMMA NextWholeInv ==
  ASSUME IInv, WholeInv, IInv', [Next]_vars
  PROVE  WholeInv'
<1> SUFFICES ASSUME ~overwritten' PROVE WholeInv'
  BY DEF WholeInv
<1>1. ~overwritten
  BY OverwrittenStays DEF IInv, PageSide, Flags
<1>2. CASE UserStep
  <2>1. CASE HandleSendMessage
    BY <1>1, <2>1, SendKeeps
  <2>2. CASE HandleClearMessages
    BY <1>1, <2>2, RemoveKeeps
  <2>3. CASE StopGeneration
    BY <1>1, <2>3, StopKeeps
  <2>4. ASSUME NEW i \in DOMAIN messages,
               \/ HandleRegenerateMessage(i) \/ HandleDeleteMessage(i) \/ HandleEditMessage(i)
               \/ SaveEdit(i) \/ SubmitEdit(i)
        PROVE  WholeInv'
    BY <1>1, <2>4, ResendKeeps, RemoveKeeps, EditKeeps, SaveEditKeeps
  <2> QED
    BY <1>2, <2>1, <2>2, <2>3, <2>4 DEF UserStep
<1>3. ASSUME NEW k \in Send, ServerStep(k) PROVE WholeInv'
  <2>1. CASE HeadersReady(k)
    BY <1>1, <2>1, HeadersReadyKeeps
  <2>2. CASE HeadersFailed(k)
    BY <1>1, <2>2, HeadersFailedKeeps
  <2>3. CASE StreamChunk(k)
    BY <1>1, <2>3, StreamChunkKeeps
  <2>4. CASE StreamDone(k)
    <3>1. StreamEnds(k, "complete") /\ Listening(k) /\ req[k].sent = Len(req[k].script)
      BY <2>4 DEF StreamDone
    <3> QED
      BY <1>1, <3>1, StreamEndsKeeps
  <2>5. CASE StreamFailed(k)
    <3>1. StreamEnds(k, "error") /\ Listening(k) /\ "error" # "complete"
      BY <2>5 DEF StreamFailed
    <3> QED
      BY <1>1, <3>1, StreamEndsKeeps
  <2>6. CASE StreamCut(k)
    BY <1>1, <2>6, StreamCutKeeps
  <2>7. CASE ResponseOk(k) \/ ResponseFailed(k)
    BY <1>1, <2>7, ResponseKeeps DEF ResponseOk, ResponseFailed
  <2> QED
    BY <1>3, <2>1, <2>2, <2>3, <2>4, <2>5, <2>6, <2>7 DEF ServerStep
<1>4. CASE FlushTimer \/ Render \/ SaveTimer
  BY <1>1, <1>4, FlushTimerKeeps, RenderKeeps, SaveTimerKeeps
<1>5. CASE Unmount \/ PageClosed \/ Mount
  BY <1>1, <1>5, LeaveKeeps, MountKeeps
<1>6. CASE UNCHANGED vars
  BY <1>1, <1>6, StutterKeeps
<1> QED
  BY <1>2, <1>3, <1>4, <1>5, <1>6 DEF Next

\* The second invariant, on top of the first.
LEMMA AnswerInvariant == Spec => [](IInv /\ WholeInv)
<1>1. Init => IInv /\ WholeInv
  BY InitIInv, InitWholeInv
<1>2. IInv /\ WholeInv /\ [Next]_vars => (IInv /\ WholeInv)'
  BY NextIInv, NextWholeInv
<1> QED
  BY <1>1, <1>2, PTL DEF Spec

\* A message the server completed shows the whole answer, for every script the server
\* may send, wherever the flush timer cut it and whichever updates React evaluated
\* early: what handleStreamUpdate merges, flushStreamUpdates appends and
\* completeAssistantMessage parses comes to what the server said.
THEOREM AnswersAreWhole == Spec => []CompletedTextIsWhole
<1>1. IInv /\ WholeInv => CompletedTextIsWhole
  <2> SUFFICES ASSUME IInv, WholeInv, ~overwritten, NEW i \in DOMAIN messages,
                      messages[i].whole, messages[i].status = "complete",
                      req[messages[i].k].pc # "none"
               PROVE  ShowsWhole(messages[i], req[messages[i].k].script)
    BY DEF CompletedTextIsWhole
  <2>1. messages[i] \in GoodMessage
    BY DEF WholeInv, Kept
  <2> QED
    BY <2>1 DEF GoodMessage
<1> QED
  BY <1>1, AnswerInvariant, PTL
=============================================================================
