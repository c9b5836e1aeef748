------------------------ MODULE AuthSession_proofs -------------------------
(***************************************************************************)
(* Theorems about AuthSession for any number of tabs, logins and actions.  *)
(***************************************************************************)
EXTENDS AuthSession, TLAPS

USE TabAssumption, BoundAssumption

-----------------------------------------------------------------------------
(* Types.                                                                  *)

\* A refresh that waits between two races has attempts left.
RaceOK == \A t \in Tab : run[t].pc = "waiting" => run[t].race < RaceDelays

TInv == TypeOK /\ RaceOK

LEMMA ConstantTypes ==
  /\ NoCookie \in Cookie /\ NoAnswer \in Answer /\ NoRun \in Run
  /\ NoCall \in Call /\ NoOut \in Out
  BY DEF NoCookie, Cookie, NoAnswer, Answer, NoRun, Run, NoCall, Call, NoOut, Out

LEMMA RequestedType ==
  ASSUME NEW r \in Run, NEW e \in Sid \cup {0}, cookie \in Cookie
  PROVE  Requested(r, e) \in Run /\ Requested(r, e).pc = "sent"
  BY ConstantTypes DEF Requested, Run

LEMMA ReplyType ==
  ASSUME NEW r \in Run, NEW a \in Answer
  PROVE  Reply(r, a) \in Run /\ Reply(r, a).pc = "served"
  BY ConstantTypes DEF Reply, Run

LEMMA AnswerType ==
  ASSUME NEW c \in Cookie, NEW v, v \in {"rotate", "replay"} => c.sid # 0
  PROVE  AnswerTo(c, v) \in Answer
<1>1. CASE v \in {"rotate", "replay"}
  <2>1. c \in [sid: Sid, n: Nat]
    BY <1>1 DEF Cookie
  <2>2. [c EXCEPT !.n = @ + 1] \in Cookie
    BY <2>1 DEF Cookie
  <2> QED
    BY <1>1, <2>2 DEF AnswerTo, Answer
<1>2. CASE v \notin {"rotate", "replay"}
  BY <1>2, ConstantTypes DEF AnswerTo, Answer
<1> QED
  BY <1>1, <1>2

LEMMA VerdictType ==
  ASSUME NEW c \in Cookie, NEW e
  PROVE  Verdict(c, e) \in {"rotate", "replay", "reuse", "denied"} => c.sid # 0 /\ c.sid \in Sid
  BY DEF Verdict, Cookie

LEMMA RotatedType ==
  ASSUME row \in [Sid -> Row], NEW c \in Cookie, NEW v,
         v \in {"rotate", "reuse"} => c.sid \in Sid
  PROVE  /\ Rotated(c, v) \in [Sid -> Row]
         /\ \A s \in Sid : s # c.sid => Rotated(c, v)[s] = row[s]
         /\ v = "rotate" => /\ Rotated(c, v)[c.sid].status = "active"
                            /\ Rotated(c, v)[c.sid].cur = row[c.sid].cur + 1
                            /\ Rotated(c, v)[c.sid].grace = TRUE
                            /\ Rotated(c, v)[c.sid].denied = row[c.sid].denied
         /\ v \notin {"rotate", "reuse"} => Rotated(c, v) = row
<1>1. CASE v = "rotate"
  <2> DEFINE q == [status |-> "active", cur |-> row[c.sid].cur + 1, grace |-> TRUE,
                   fence |-> row[c.sid].fence, denied |-> row[c.sid].denied]
  <2>1. /\ q \in Row /\ q.status = "active" /\ q.cur = row[c.sid].cur + 1 /\ q.grace = TRUE
        /\ q.denied = row[c.sid].denied
    BY <1>1 DEF Row
  <2>2. Rotated(c, v) = [row EXCEPT ![c.sid] = q]
    BY <1>1 DEF Rotated
  <2> HIDE DEF q
  <2> QED
    BY <1>1, <2>1, <2>2
<1>2. CASE v = "reuse"
  BY <1>2 DEF Rotated, Row
<1>3. CASE v \notin {"rotate", "reuse"}
  BY <1>3 DEF Rotated
<1> QED
  BY <1>1, <1>2, <1>3

\* A row with another flag or status is a row, and the rest of it is as before.
LEMMA RowFields ==
  ASSUME NEW r \in Row, NEW b \in BOOLEAN
  PROVE  /\ [r EXCEPT !.fence = b] \in Row /\ [r EXCEPT !.denied = b] \in Row
         /\ [r EXCEPT !.grace = b] \in Row
         /\ [r EXCEPT !.status = "revoked", !.fence = b] \in Row
  BY Zenon DEF Row

LEMMA DeniedType ==
  ASSUME row \in [Sid -> Row], NEW s \in Sid
  PROVE  /\ Denied(s) \in [Sid -> Row]
         /\ \A r \in Sid : /\ Denied(s)[r].status = row[r].status
                           /\ Denied(s)[r].cur = row[r].cur /\ Denied(s)[r].grace = row[r].grace
                           /\ r # s => Denied(s)[r] = row[r]
         /\ Denied(s)[s].denied
<1> DEFINE q == [row[s] EXCEPT !.denied = TRUE]
<1>1. Denied(s) = [row EXCEPT ![s] = q]
  BY DEF Denied
<1>2. row[s] \in Row /\ TRUE \in BOOLEAN
  OBVIOUS
<1>3. q \in Row
  BY <1>2, RowFields, Zenon
<1>4. q.status = row[s].status /\ q.cur = row[s].cur /\ q.grace = row[s].grace /\ q.denied = TRUE
  BY <1>2 DEF Row
<1> HIDE DEF q
<1> QED
  BY <1>1, <1>3, <1>4

LEMMA RefreshingType ==
  ASSUME TypeOK, NEW t \in Tab
  PROVE  /\ Refreshing(t) \in [Tab -> Run]
         /\ \A u \in Tab : Refreshing(t)[u].pc = "waiting" => Refreshing(t)[u] = run[u]
<1>1. [NoRun EXCEPT !.pc = "queued"] \in Run
  BY ConstantTypes DEF Run, NoRun
<1>2. Requested(NoRun, store[t].sid) \in Run /\ Requested(NoRun, store[t].sid).pc = "sent"
  BY ConstantTypes, RequestedType DEF TypeOK
<1> QED
  BY <1>1, <1>2 DEF Refreshing, TypeOK, NoRun

LEMMA CurrentType ==
  ASSUME NEW r \in Run, NEW b \in BOOLEAN
  PROVE  [r EXCEPT !.current = b] \in Run
  BY Zenon DEF Run

\* What two records of a refresh have in common that differ in current only.
Alike(r, q) ==
  r.pc = q.pc /\ r.race = q.race /\ r.cookie = q.cookie /\ r.answer = q.answer

LEMMA CurrentAlike ==
  ASSUME NEW r \in Run, NEW b \in BOOLEAN
  PROVE  Alike([r EXCEPT !.current = b], r)
  BY DEF Run, Alike

LEMMA PcType ==
  ASSUME NEW r \in Run, NEW p \in {"none", "queued", "sent", "served", "waiting"}
  PROVE  /\ [r EXCEPT !.pc = p] \in Run
         /\ [r EXCEPT !.pc = p].pc = p
         /\ [r EXCEPT !.pc = p].race = r.race
  BY DEF Run

LEMMA RaceType ==
  ASSUME NEW r \in Run, r.race < RaceDelays
  PROVE  [r EXCEPT !.race = r.race + 1] \in Run
  BY DEF Run

LEMMA RetryType ==
  ASSUME NEW r \in Run
  PROVE  [r EXCEPT !.race = 0, !.retry = FALSE] \in Run
<1>1. ASSUME NEW b \in BOOLEAN, NEW q \in Run
      PROVE  [q EXCEPT !.retry = b] \in Run
  BY Zenon DEF Run
<1>2. [r EXCEPT !.race = 0] \in Run
  BY DEF Run
<1> QED
  BY <1>1, <1>2

LEMMA BumpType ==
  ASSUME TypeOK, NEW t \in Tab
  PROVE  /\ Bump(t) \in [Tab -> Run]
         /\ \A u \in Tab : Alike(Bump(t)[u], run[u])
<1>1. PICK b \in BOOLEAN : b = (run[t].pc = "none")
  OBVIOUS
<1> DEFINE x == [run[t] EXCEPT !.current = b]
<1>2. Bump(t) = [run EXCEPT ![t] = x]
  BY <1>1 DEF Bump, TypeOK
<1>3. run[t] \in Run
  BY DEF TypeOK
<1>4. x \in Run /\ Alike(x, run[t])
  BY <1>3, CurrentType, CurrentAlike
<1>5. \A u \in Tab : Alike(run[u], run[u])
  BY DEF Alike
<1> HIDE DEF x
<1> QED
  BY <1>2, <1>4, <1>5 DEF TypeOK

LEMMA AppendType ==
  ASSUME NEW S, NEW q \in Seq(S), NEW e \in S
  PROVE  Append(q, e) \in Seq(S)
  OBVIOUS

LEMMA PublishType ==
  ASSUME TypeOK, NEW t \in Tab, NEW k \in {"authenticated", "signed_out"}, NEW s \in Sid \cup {0}
  PROVE  Publish(t, k, s) \in [Tab -> Seq(Event)]
<1>1. ASSUME NEW u \in Tab, s # 0
      PROVE  Append(events[u], [kind |-> k, sid |-> s]) \in Seq(Event)
  <2>1. [kind |-> k, sid |-> s] \in Event
    BY <1>1 DEF Event
  <2> QED
    BY <2>1, AppendType DEF TypeOK
<1> QED
  BY <1>1 DEF Publish, TypeOK

LEMMA SettleType ==
  ASSUME TInv, NEW t \in Tab, NEW outcome, NEW s \in Sid \cup {0}, Settle(t, outcome, s)
  PROVE  /\ run' \in [Tab -> Run] /\ RaceOK'
         /\ holder' \in Tab \cup {NoTab}
         /\ call' \in [Tab -> Call]
         /\ out' \in [Tab -> Out]
<1>1. run' \in [Tab -> Run] /\ RaceOK'
  BY ConstantTypes DEF Settle, TInv, TypeOK, RaceOK, NoRun
<1>2. holder' \in Tab \cup {NoTab}
  BY DEF Settle, TInv, TypeOK
<1>3. call' \in [Tab -> Call]
  BY ConstantTypes DEF Settle, CallAfter, TInv, TypeOK, Call
<1>4. out' \in [Tab -> Out]
  BY ConstantTypes DEF Settle, OutAfter, TInv, TypeOK, Out, NoOut
<1> QED
  BY <1>1, <1>2, <1>3, <1>4

LEMMA CookieAfterType ==
  ASSUME TypeOK, NEW t \in Tab
  PROVE  CookieAfter(run[t].answer) \in Cookie
  BY ConstantTypes DEF CookieAfter, TypeOK, Run, Answer

\* The entry of a store, after SetBundle, Reset or a change of one field.
StoreType == [sid: Sid \cup {0}, fresh: BOOLEAN, boot: Boot]

LEMMA StoreValues ==
  /\ EmptyStore \in StoreType
  /\ \A s \in Sid \cup {0} : SetBundle(s) \in StoreType
  /\ \A b \in Boot : Reset(b) \in StoreType
  /\ \A x \in StoreType : [x EXCEPT !.boot = "complete"] \in StoreType
  /\ \A x \in StoreType : [x EXCEPT !.boot = "idle"] \in StoreType
  BY DEF EmptyStore, SetBundle, Reset, StoreType, Boot

LEMMA StoreExpired ==
  ASSUME NEW x \in StoreType
  PROVE  [x EXCEPT !.fresh = FALSE] \in StoreType
<1>1. ASSUME NEW b \in BOOLEAN
      PROVE  [x EXCEPT !.fresh = b] \in StoreType
  BY Zenon DEF StoreType
<1> QED
  BY <1>1

LEMMA StoreUpdate ==
  ASSUME TInv, NEW t \in Tab, NEW x \in StoreType, store' = [store EXCEPT ![t] = x]
  PROVE  store' \in [Tab -> StoreType]
  BY DEF TInv, TypeOK, StoreType

LEMMA TypeBootstrap ==
  ASSUME TInv, NEW t \in Tab, Bootstrap(t)
  PROVE  TInv'
<1>1. store' \in [Tab -> StoreType]
  <2>1. store \in [Tab -> StoreType]
    BY DEF TInv, TypeOK, StoreType
  <2>2. \/ store' = [store EXCEPT ![t] = [store[t] EXCEPT !.boot = "complete"]]
        \/ store' = [store EXCEPT ![t] = [store[t] EXCEPT !.boot = "idle"]]
    BY <2>1 DEF Bootstrap
  <2> QED
    BY <2>1, <2>2, StoreValues
<1>2. run' \in [Tab -> Run] /\ RaceOK'
  BY RefreshingType DEF Bootstrap, TInv, RaceOK, TypeOK
<1> QED
  BY <1>1, <1>2 DEF Bootstrap, TInv, TypeOK, StoreType

LEMMA TypeGetFreshHeaders ==
  ASSUME TInv, NEW t \in Tab, GetFreshHeaders(t)
  PROVE  TInv'
  BY RefreshingType DEF GetFreshHeaders, TInv, RaceOK, TypeOK

LEMMA TypeLockGranted ==
  ASSUME TInv, NEW t \in Tab, LockGranted(t)
  PROVE  TInv'
<1>1. CASE run[t].current
  <2> DEFINE r == Requested(run[t], store[t].sid)
  <2>1. r \in Run /\ r.pc = "sent"
    BY RequestedType DEF TInv, TypeOK
  <2>2. run' = [run EXCEPT ![t] = r] /\ holder' = t
    BY <1>1 DEF LockGranted
  <2> HIDE DEF r
  <2> QED
    BY <1>1, <2>1, <2>2 DEF LockGranted, TInv, TypeOK, RaceOK
<1>2. CASE ~run[t].current
  BY <1>2, SettleType DEF LockGranted, TInv, TypeOK
<1> QED
  BY <1>1, <1>2

LEMMA TypeServe ==
  ASSUME TInv, NEW t \in Tab, Serve(t)
  PROVE  TInv'
<1> DEFINE c == run[t].cookie
           v == Verdict(c, run[t].expect)
           r == Reply(run[t], AnswerTo(c, v))
<1>1. c \in Cookie
  BY DEF TInv, TypeOK, Run
<1>2. v \in {"rotate", "replay", "reuse", "denied"} => c.sid # 0 /\ c.sid \in Sid
  BY <1>1, VerdictType
<1>3. /\ row' = IF v = "denied" THEN Denied(c.sid) ELSE Rotated(c, v)
      /\ run' = [run EXCEPT ![t] = r]
  BY DEF Serve
<1> HIDE DEF v
<1>4. row' \in [Sid -> Row]
  BY <1>1, <1>2, <1>3, RotatedType, DeniedType DEF TInv, TypeOK
<1>5. r \in Run /\ r.pc = "served"
  BY <1>1, <1>2, AnswerType, ReplyType DEF TInv, TypeOK
<1> HIDE DEF r
<1> QED
  BY <1>3, <1>4, <1>5 DEF Serve, TInv, TypeOK, RaceOK

LEMMA TypeServeFault ==
  ASSUME TInv, NEW t \in Tab, NEW kind \in {"failed", "odd", "race"}, ServeFault(t, kind)
  PROVE  TInv'
<1> DEFINE r == Reply(run[t], [NoAnswer EXCEPT !.kind = kind])
<1>1. [NoAnswer EXCEPT !.kind = kind] \in Answer
  BY ConstantTypes DEF NoAnswer, Answer
<1>2. r \in Run /\ r.pc = "served"
  BY <1>1, ReplyType DEF TInv, TypeOK
<1>3. run' = [run EXCEPT ![t] = r]
  BY DEF ServeFault
<1>4. /\ acts' \in 0..MaxActs
      /\ UNCHANGED <<store, call, out, sign, events, holder, cookie, row, orphan>>
  BY DEF ServeFault, Spend, TInv, TypeOK
<1> HIDE DEF r
<1> QED
  BY <1>2, <1>3, <1>4 DEF TInv, TypeOK, RaceOK

LEMMA TypeServeLookupFails ==
  ASSUME TInv, NEW t \in Tab, ServeLookupFails(t)
  PROVE  TInv'
<1> DEFINE c == run[t].cookie
           r == Reply(run[t], AnswerTo(c, "denied"))
<1>1. c \in Cookie /\ c.sid # 0 /\ row' = Denied(c.sid) /\ run' = [run EXCEPT ![t] = r]
  BY DEF ServeLookupFails, TInv, TypeOK, Run
<1>2. c.sid \in Sid
  BY <1>1 DEF Cookie
<1>3. r \in Run /\ r.pc = "served"
  BY <1>1, AnswerType, ReplyType DEF TInv, TypeOK
<1>4. row' \in [Sid -> Row]
  BY <1>1, <1>2, DeniedType DEF TInv, TypeOK
<1>5. /\ acts' \in 0..MaxActs
      /\ UNCHANGED <<store, call, out, sign, events, holder, cookie, orphan>>
  BY DEF ServeLookupFails, Spend, TInv, TypeOK
<1> HIDE DEF r
<1> QED
  BY <1>1, <1>3, <1>4, <1>5 DEF TInv, TypeOK, RaceOK

LEMMA TypeLoseAnswer ==
  ASSUME TInv, NEW t \in Tab, LoseAnswer(t)
  PROVE  TInv'
<1>1. run' \in [Tab -> Run] /\ RaceOK'
  BY ConstantTypes DEF LoseAnswer, TInv, TypeOK, RaceOK, Run
<1> QED
  BY <1>1 DEF LoseAnswer, Spend, TInv, TypeOK

LEMMA TypeServeOrphan ==
  ASSUME TInv, NEW c \in orphan, ServeOrphan(c)
  PROVE  TInv'
<1>1. c \in Cookie
  BY DEF TInv, TypeOK
<1>2. row' \in [Sid -> Row]
  <2>1. Verdict(c, 0) \in {"rotate", "reuse"} => c.sid \in Sid
    BY <1>1, VerdictType
  <2>2. Rotated(c, Verdict(c, 0)) \in [Sid -> Row]
    BY <1>1, <2>1, RotatedType DEF TInv, TypeOK
  <2> QED
    BY <2>2 DEF ServeOrphan, TInv, TypeOK
<1>3. orphan' \subseteq Cookie
  BY DEF ServeOrphan, TInv, TypeOK
<1>4. UNCHANGED <<store, run, call, out, sign, events, holder, cookie, acts>>
  BY DEF ServeOrphan
<1> QED
  BY <1>2, <1>3, <1>4 DEF TInv, TypeOK, RaceOK

LEMMA TypeGraceEnds ==
  ASSUME TInv, NEW s \in Sid, GraceEnds(s)
  PROVE  TInv'
<1>0. row[s] \in Row
  BY DEF TInv, TypeOK
<1>1. ASSUME NEW g \in BOOLEAN
      PROVE  [row[s] EXCEPT !.grace = g] \in Row
  BY <1>0, RowFields, Zenon
<1>2. PICK g \in BOOLEAN : g = FALSE
  OBVIOUS
<1>3. row' = [row EXCEPT ![s] = [row[s] EXCEPT !.grace = g]]
  BY <1>2 DEF GraceEnds, TInv, TypeOK
<1>4. row' \in [Sid -> Row]
  BY <1>1, <1>3 DEF TInv, TypeOK
<1> QED
  BY <1>4 DEF GraceEnds, TInv, TypeOK, RaceOK

LEMMA CookieSid ==
  ASSUME NEW c \in Cookie
  PROVE  c.sid \in Sid \cup {0}
  BY DEF Cookie

\* The handlers that settle the refresh and store x.
LEMMA TypeSettled ==
  ASSUME TInv, NEW t \in Tab, NEW outcome, NEW s \in Sid \cup {0}, Answered(t),
         Settle(t, outcome, s), store' \in [Tab -> StoreType],
         events' \in [Tab -> Seq(Event)], UNCHANGED <<sign, row, orphan, acts>>
  PROVE  TInv'
<1>1. cookie' \in Cookie
  BY CookieAfterType DEF Answered, TInv
<1>2. /\ run' \in [Tab -> Run] /\ RaceOK'
      /\ holder' \in Tab \cup {NoTab}
      /\ call' \in [Tab -> Call]
      /\ out' \in [Tab -> Out]
  BY SettleType
<1> QED
  BY <1>1, <1>2 DEF TInv, TypeOK, StoreType

LEMMA TypeHandle ==
  ASSUME TInv, NEW t \in Tab, Handle(t)
  PROVE  TInv'
<1>0. 0 \in Sid \cup {0} /\ store \in [Tab -> StoreType] /\ store[t].sid \in Sid \cup {0}
  BY DEF TInv, TypeOK, StoreType
<1>e. events \in [Tab -> Seq(Event)]
  BY DEF TInv, TypeOK
<1>s. ASSUME NEW x \in StoreType, store' = [store EXCEPT ![t] = x]
      PROVE  store' \in [Tab -> StoreType]
  BY <1>s, StoreUpdate
<1>r. Reset("complete") \in StoreType /\ Reset("idle") \in StoreType
  BY StoreValues DEF Boot
<1>1. CASE Superseded(t)
  BY <1>1, <1>0, <1>e, TypeSettled DEF Superseded
<1>2. CASE Accept(t)
  <2>1. run[t].answer.cookie.sid \in Sid \cup {0}
    BY CookieSid DEF TInv, TypeOK, Run, Answer
  <2>2. store' \in [Tab -> StoreType]
    BY <1>2, <1>s, <2>1, StoreValues DEF Accept
  <2> QED
    BY <1>2, <1>e, <2>1, <2>2, TypeSettled DEF Accept, HandleAnswer
<1>3. CASE Raced(t)
  <2>1. CASE run[t].race < RaceDelays
    <3>1. run' \in [Tab -> Run] /\ RaceOK'
      <4> DEFINE r == [run[t] EXCEPT !.pc = "waiting"]
      <4>1. r \in Run /\ r.race = run[t].race
        BY PcType DEF TInv, TypeOK
      <4>2. run' = [run EXCEPT ![t] = r]
        BY <1>3, <2>1 DEF Raced, TInv, TypeOK
      <4> HIDE DEF r
      <4> QED
        BY <2>1, <4>1, <4>2 DEF TInv, TypeOK, RaceOK
    <3>2. cookie' \in Cookie
      BY <1>3, CookieAfterType DEF Raced, HandleAnswer, Answered, TInv
    <3> QED
      BY <1>3, <2>1, <3>1, <3>2 DEF Raced, TInv, TypeOK
  <2>2. CASE ~(run[t].race < RaceDelays)
    <3>1. store' \in [Tab -> StoreType]
      BY <1>3, <2>2, <1>s, <1>r DEF Raced
    <3> QED
      BY <1>3, <2>2, <1>0, <1>e, <3>1, TypeSettled DEF Raced, HandleAnswer
  <2> QED
    BY <2>1, <2>2
<1>4. CASE Mismatched(t)
  <2>1. CASE run[t].retry
    <3> DEFINE r0 == [run[t] EXCEPT !.race = 0, !.retry = FALSE]
               r == Requested(r0, 0)
    <3>1. r0 \in Run
      BY RetryType DEF TInv, TypeOK
    <3>2. r \in Run /\ r.pc = "sent"
      BY <1>0, <3>1, RequestedType DEF TInv, TypeOK
    <3>3. run' = [run EXCEPT ![t] = r] /\ store' = [store EXCEPT ![t] = Reset("idle")]
      BY <1>4, <2>1 DEF Mismatched
    <3>4. cookie' \in Cookie
      BY <1>4, CookieAfterType DEF Mismatched, HandleAnswer, Answered, TInv
    <3>5. UNCHANGED <<holder, call, out, sign, events, row, orphan, acts>>
      BY <1>4, <2>1 DEF Mismatched
    <3>6. store' \in [Tab -> StoreType]
      BY <1>s, <1>r, <3>3
    <3> HIDE DEF r
    <3> QED
      BY <3>2, <3>3, <3>4, <3>5, <3>6 DEF TInv, TypeOK, RaceOK, StoreType
  <2>2. CASE ~run[t].retry
    <3>1. store' \in [Tab -> StoreType]
      BY <1>4, <2>2, <1>s, <1>r DEF Mismatched
    <3> QED
      BY <1>4, <2>2, <1>0, <1>e, <3>1, TypeSettled DEF Mismatched, HandleAnswer
  <2> QED
    BY <2>1, <2>2
<1>5. CASE Unauthorized(t)
  <2>1. events' \in [Tab -> Seq(Event)]
    BY <1>5, <1>0, PublishType DEF Unauthorized, TInv
  <2>2. store' \in [Tab -> StoreType]
    BY <1>5, <1>s, <1>r DEF Unauthorized
  <2> QED
    BY <1>5, <1>0, <2>1, <2>2, TypeSettled DEF Unauthorized, HandleAnswer
<1>6. CASE Transient(t)
  <2>1. store' = [store EXCEPT ![t] = [store[t] EXCEPT !.boot = "idle"]]
    BY <1>6, <1>0 DEF Transient
  <2>2. store' \in [Tab -> StoreType]
    BY <1>0, <2>1, StoreValues
  <2> QED
    BY <1>6, <1>0, <1>e, <2>2, TypeSettled DEF Transient, HandleAnswer
<1>7. CASE Unexpected(t)
  <2>1. store' \in [Tab -> StoreType]
    BY <1>7, <1>s, <1>r DEF Unexpected
  <2> QED
    BY <1>7, <1>0, <1>e, <2>1, TypeSettled DEF Unexpected, HandleAnswer
<1> QED
  BY <1>1, <1>2, <1>3, <1>4, <1>5, <1>6, <1>7 DEF Handle

LEMMA TypeRaceDelayEnds ==
  ASSUME TInv, NEW t \in Tab, RaceDelayEnds(t)
  PROVE  TInv'
<1>1. CASE run[t].current
  <2> DEFINE r0 == [run[t] EXCEPT !.race = @ + 1]
             r == Requested(r0, store[t].sid)
  <2>1. r0 \in Run
    BY RaceType DEF RaceDelayEnds, TInv, TypeOK, RaceOK
  <2>2. r \in Run /\ r.pc = "sent"
    BY <2>1, RequestedType DEF TInv, TypeOK
  <2>3. run' = [run EXCEPT ![t] = r]
    BY <1>1 DEF RaceDelayEnds
  <2>4. UNCHANGED <<holder, call, out, store, sign, events, cookie, row, orphan, acts>>
    BY <1>1 DEF RaceDelayEnds
  <2> HIDE DEF r
  <2> QED
    BY <2>2, <2>3, <2>4 DEF TInv, TypeOK, RaceOK
<1>2. CASE ~run[t].current
  BY <1>2, SettleType DEF RaceDelayEnds, TInv, TypeOK
<1> QED
  BY <1>1, <1>2

LEMMA TypeBumped ==
  ASSUME TInv, NEW t \in Tab, run' = Bump(t)
  PROVE  run' \in [Tab -> Run] /\ RaceOK'
  BY BumpType DEF TInv, RaceOK, Alike

LEMMA TypeCallRejected ==
  ASSUME TInv, NEW t \in Tab, CallRejected(t)
  PROVE  TInv'
<1>1. run' \in [Tab -> Run] /\ RaceOK'
  BY RefreshingType DEF CallRejected, TInv, RaceOK, TypeOK
<1>2. call' \in [Tab -> Call]
  <2>1. call \in [Tab -> Call] /\ call[t] \in Call
    BY DEF TInv, TypeOK
  <2>2. [call[t] EXCEPT !.pc = "refreshing"] \in Call
    BY <2>1 DEF Call
  <2>3. call' = [call EXCEPT ![t] = [call[t] EXCEPT !.pc = "refreshing"]]
    BY DEF CallRejected
  <2> QED
    BY <2>1, <2>2, <2>3
<1> QED
  BY <1>1, <1>2 DEF CallRejected, TInv, TypeOK

LEMMA TypeRetryAnswered ==
  ASSUME TInv, NEW t \in Tab, RetryAnswered(t)
  PROVE  TInv'
<1>1. call' \in [Tab -> Call]
  BY ConstantTypes DEF RetryAnswered, TInv, TypeOK
<1>2. store' \in [Tab -> StoreType] /\ run' \in [Tab -> Run] /\ RaceOK'
  <2>1. CASE Accepted(call[t].sid, TRUE)
    BY <2>1 DEF RetryAnswered, TInv, TypeOK, RaceOK, StoreType
  <2>2. CASE ~Accepted(call[t].sid, TRUE)
    <3>1. Reset("complete") \in StoreType
      BY StoreValues DEF Boot
    <3> QED
      BY <2>2, <3>1, StoreUpdate, TypeBumped DEF RetryAnswered
  <2> QED
    BY <2>1, <2>2
<1> QED
  BY <1>1, <1>2 DEF RetryAnswered, TInv, TypeOK, StoreType

LEMMA TypeSignIn ==
  ASSUME TInv, NEW t \in Tab, SignIn(t)
  PROVE  TInv'
<1>1. PICK s \in Sid :
        /\ row' = [row EXCEPT ![s] = [status |-> "active", cur |-> 0, grace |-> FALSE,
                                      fence |-> FALSE, denied |-> FALSE]]
        /\ cookie' = [sid |-> s, n |-> 0]
        /\ sign' = [sign EXCEPT ![t] = s]
  BY DEF SignIn
<1>2. row' \in [Sid -> Row]
  BY <1>1 DEF TInv, TypeOK, Row
<1>3. cookie' \in Cookie
  BY <1>1 DEF Cookie
<1>4. sign' \in [Tab -> Sid \cup {0}]
  BY <1>1 DEF TInv, TypeOK
<1> QED
  BY <1>2, <1>3, <1>4 DEF SignIn, TInv, TypeOK, RaceOK

LEMMA TypeApplyLogin ==
  ASSUME TInv, NEW t \in Tab, ApplyLogin(t)
  PROVE  TInv'
<1>0. sign[t] \in Sid \cup {0}
  BY DEF TInv, TypeOK
<1>1. store' \in [Tab -> StoreType]
  BY <1>0, StoreValues, StoreUpdate DEF ApplyLogin
<1>2. run' \in [Tab -> Run] /\ RaceOK'
  BY TypeBumped DEF ApplyLogin
<1>3. events' \in [Tab -> Seq(Event)]
  BY <1>0, PublishType DEF ApplyLogin, TInv, TypeOK
<1>4. sign' \in [Tab -> Sid \cup {0}]
  BY DEF ApplyLogin, TInv, TypeOK
<1> QED
  BY <1>1, <1>2, <1>3, <1>4 DEF ApplyLogin, TInv, TypeOK, StoreType

LEMMA TypeRevoked ==
  ASSUME row \in [Sid -> Row], NEW s \in Sid
  PROVE  /\ Revoked(s) \in [Sid -> Row] /\ Revoked(s)[s].status = "revoked"
         /\ \A r \in Sid : /\ Revoked(s)[r].cur = row[r].cur /\ Revoked(s)[r].grace = row[r].grace
                           /\ Revoked(s)[r].denied = row[r].denied
                           /\ r # s => Revoked(s)[r] = row[r]
<1> DEFINE q == [row[s] EXCEPT !.status = "revoked", !.fence = FALSE]
<1>1. Revoked(s) = [row EXCEPT ![s] = q]
  BY DEF Revoked
<1>2. row[s] \in Row /\ FALSE \in BOOLEAN
  OBVIOUS
<1>3. q \in Row
  BY <1>2, RowFields, Zenon
<1>4. q.status = "revoked" /\ q.cur = row[s].cur /\ q.grace = row[s].grace /\ q.denied = row[s].denied
  BY <1>2 DEF Row
<1> HIDE DEF q
<1> QED
  BY <1>1, <1>3, <1>4

LEMMA TypeAskSignOut ==
  ASSUME TInv, NEW t \in Tab, NEW second \in BOOLEAN, AskSignOut(t, second)
  PROVE  out' \in [Tab -> Out] /\ row' \in [Sid -> Row]
<1>1. ASSUME NEW pc \in {"done", "mismatch"}, NEW clear \in BOOLEAN
      PROVE  [pc |-> pc, clear |-> clear, second |-> second] \in Out
  BY DEF Out
<1>2. PICK pc \in {"done", "mismatch"}, clear \in BOOLEAN :
        out' = [out EXCEPT ![t] = [pc |-> pc, clear |-> clear, second |-> second]]
  BY DEF AskSignOut
<1>3. out' \in [Tab -> Out]
  BY <1>1, <1>2 DEF TInv, TypeOK
<1>4. cookie.sid # 0 => cookie.sid \in Sid
  BY CookieSid DEF TInv, TypeOK
<1>5. RevokedByCookie \in [Sid -> Row]
  BY <1>4, TypeRevoked DEF RevokedByCookie, TInv, TypeOK
<1>6. store[t].sid # 0 => store[t].sid \in Sid
  BY DEF TInv, TypeOK
<1>7. \/ row' = row
      \/ store[t].sid # 0 /\ row' = Revoked(store[t].sid)
      \/ row' = RevokedByCookie
  BY DEF AskSignOut
<1>8. row' \in [Sid -> Row]
  <2>1. row \in [Sid -> Row]
    BY DEF TInv, TypeOK
  <2>2. store[t].sid # 0 => Revoked(store[t].sid) \in [Sid -> Row]
    BY <1>6, <2>1, TypeRevoked
  <2> QED
    BY <1>5, <1>7, <2>1, <2>2
<1> QED
  BY <1>3, <1>8

LEMMA TypeSignOut ==
  ASSUME TInv, NEW t \in Tab, SignOut(t) \/ SignOutAgain(t)
  PROVE  TInv'
<1>1. PICK second \in BOOLEAN : AskSignOut(t, second)
  BY DEF SignOut, SignOutAgain
<1>2. acts' \in 0..MaxActs
  <2>1. CASE SignOut(t)
    BY <2>1 DEF SignOut, Spend, TInv, TypeOK
  <2>2. CASE SignOutAgain(t)
    BY <2>2 DEF SignOutAgain, TInv, TypeOK
  <2> QED
    BY <2>1, <2>2
<1>3. UNCHANGED <<store, run, call, sign, events, holder, cookie, orphan>>
  BY DEF SignOut, SignOutAgain
<1> QED
  BY <1>1, <1>2, <1>3, TypeAskSignOut DEF TInv, TypeOK, RaceOK

LEMMA TypeSignOutMismatch ==
  ASSUME TInv, NEW t \in Tab, SignOutMismatch(t)
  PROVE  TInv'
<1>1. run' \in [Tab -> Run] /\ RaceOK'
  BY RefreshingType DEF SignOutMismatch, TInv, RaceOK, TypeOK
<1>2. [out[t] EXCEPT !.pc = "refreshing"] \in Out
  <2>1. ASSUME NEW o \in Out
        PROVE  [o EXCEPT !.pc = "refreshing"] \in Out
    BY DEF Out
  <2> QED
    BY <2>1 DEF TInv, TypeOK
<1>3. \/ out' = [out EXCEPT ![t] = NoOut]
      \/ out' = [out EXCEPT ![t] = [out[t] EXCEPT !.pc = "refreshing"]]
  BY DEF SignOutMismatch, TInv, TypeOK
<1>4. out' \in [Tab -> Out]
  BY <1>2, <1>3, ConstantTypes DEF TInv, TypeOK
<1> QED
  BY <1>1, <1>4 DEF SignOutMismatch, TInv, TypeOK

LEMMA TypeSignOutDone ==
  ASSUME TInv, NEW t \in Tab, SignOutDone(t)
  PROVE  TInv'
<1>1. run' \in [Tab -> Run] /\ RaceOK'
  BY TypeBumped DEF SignOutDone
<1>2. store' \in [Tab -> StoreType]
  BY StoreValues, StoreUpdate DEF SignOutDone, Boot
<1>3. out' \in [Tab -> Out] /\ cookie' \in Cookie
  BY ConstantTypes DEF SignOutDone, TInv, TypeOK
<1>4. events' \in [Tab -> Seq(Event)]
  BY PublishType DEF SignOutDone, TInv, TypeOK
<1> QED
  BY <1>1, <1>2, <1>3, <1>4 DEF SignOutDone, TInv, TypeOK, StoreType

LEMMA TypePageGone ==
  ASSUME TInv, NEW t \in Tab, NEW q \in Seq(Event), PageGone(t, q), acts' \in 0..MaxActs
  PROVE  TInv'
<1>1. run' \in [Tab -> Run] /\ RaceOK'
  BY ConstantTypes DEF PageGone, TInv, TypeOK, RaceOK, NoRun
<1>2. store' \in [Tab -> StoreType]
  BY StoreValues, StoreUpdate DEF PageGone
<1>3. call' \in [Tab -> Call] /\ out' \in [Tab -> Out] /\ sign' \in [Tab -> Sid \cup {0}]
  BY ConstantTypes DEF PageGone, TInv, TypeOK
<1>4. events' \in [Tab -> Seq(Event)] /\ holder' \in Tab \cup {NoTab}
  BY DEF PageGone, TInv, TypeOK
<1>5. orphan' \subseteq Cookie
  <2>1. run[t].cookie \in Cookie
    BY DEF TInv, TypeOK, Run
  <2> QED
    BY <2>1 DEF PageGone, TInv, TypeOK
<1>6. UNCHANGED <<cookie, row>>
  BY DEF PageGone
<1> QED
  BY <1>1, <1>2, <1>3, <1>4, <1>5, <1>6 DEF TInv, TypeOK, StoreType

LEMMA TailType ==
  ASSUME NEW S, NEW q \in Seq(S), q # <<>>
  PROVE  Tail(q) \in Seq(S)
  OBVIOUS

LEMMA TypeDeliver ==
  ASSUME TInv, NEW t \in Tab, Deliver(t)
  PROVE  TInv'
<1> DEFINE rest == Tail(events[t])
<1>0. rest \in Seq(Event)
  BY TailType DEF Deliver, TInv, TypeOK
<1> HIDE DEF rest
<1>1. acts' \in 0..MaxActs
  BY DEF Deliver, TInv, TypeOK
<1>2. CASE PageGone(t, rest)
  BY <1>0, <1>1, <1>2, TypePageGone
<1>3. CASE /\ store' = [store EXCEPT ![t] = Reset("complete")] /\ run' = Bump(t)
           /\ events' = [events EXCEPT ![t] = rest]
           /\ UNCHANGED <<call, out, sign, holder, cookie, row, orphan>>
  <2>1. store' \in [Tab -> StoreType]
    BY <1>3, StoreValues, StoreUpdate DEF Boot
  <2>2. run' \in [Tab -> Run] /\ RaceOK'
    BY <1>3, TypeBumped
  <2> QED
    BY <1>0, <1>1, <1>3, <2>1, <2>2 DEF TInv, TypeOK, StoreType
<1>4. CASE /\ events' = [events EXCEPT ![t] = rest]
           /\ UNCHANGED <<store, run, call, out, sign, holder, cookie, row, orphan>>
  BY <1>0, <1>1, <1>4 DEF TInv, TypeOK, RaceOK
<1> QED
  BY <1>2, <1>3, <1>4 DEF Deliver, rest

LEMMA TypeReload ==
  ASSUME TInv, NEW t \in Tab, Reload(t)
  PROVE  TInv'
<1>1. <<>> \in Seq(Event)
  OBVIOUS
<1>2. acts' \in 0..MaxActs
  BY DEF Reload, Spend, TInv, TypeOK
<1> QED
  BY <1>1, <1>2, TypePageGone DEF Reload

LEMMA TypeExpire ==
  ASSUME TInv, NEW t \in Tab, Expire(t)
  PROVE  TInv'
<1>1. store[t] \in StoreType
  BY DEF TInv, TypeOK, StoreType
<1>2. store' = [store EXCEPT ![t] = [store[t] EXCEPT !.fresh = FALSE]]
  BY DEF Expire, TInv, TypeOK
<1>3. store' \in [Tab -> StoreType]
  BY <1>1, <1>2, StoreExpired, StoreUpdate
<1>4. /\ acts' \in 0..MaxActs
      /\ UNCHANGED <<run, call, out, sign, events, holder, cookie, row, orphan>>
  BY DEF Expire, Spend, TInv, TypeOK
<1> QED
  BY <1>3, <1>4 DEF TInv, TypeOK, RaceOK, StoreType

LEMMA TypeRevokeElsewhere ==
  ASSUME TInv, NEW s \in Sid, RevokeElsewhere(s)
  PROVE  TInv'
  BY TypeRevoked DEF RevokeElsewhere, Spend, TInv, TypeOK, RaceOK

LEMMA TypeFence ==
  ASSUME TInv, NEW s \in Sid, RevokeHalts(s) \/ FenceEnds(s)
  PROVE  TInv'
<1>1. PICK b \in BOOLEAN : row' = [row EXCEPT ![s] = [row[s] EXCEPT !.fence = b]]
  BY Zenon DEF RevokeHalts, FenceEnds
<1>2. row' \in [Sid -> Row]
  <2>1. row[s] \in Row
    BY DEF TInv, TypeOK
  <2>2. [row[s] EXCEPT !.fence = b] \in Row
    BY <2>1, RowFields, Zenon
  <2> QED
    BY <1>1, <2>2 DEF TInv, TypeOK
<1>3. /\ acts' \in 0..MaxActs
      /\ UNCHANGED <<store, run, call, out, sign, events, holder, cookie, orphan>>
  BY DEF RevokeHalts, FenceEnds, Spend, TInv, TypeOK
<1> QED
  BY <1>2, <1>3 DEF TInv, TypeOK, RaceOK

LEMMA TypeInit ==
  ASSUME Init
  PROVE  TInv
<1>1. EmptyStore \in StoreType
  BY StoreValues
<1>2. row \in [Sid -> Row]
  BY DEF Init, Row
<1>3. RaceOK
  BY DEF Init, RaceOK, NoRun
<1>4. cookie \in Cookie /\ run \in [Tab -> Run] /\ call \in [Tab -> Call] /\ out \in [Tab -> Out]
  BY ConstantTypes DEF Init
<1>5. store \in [Tab -> StoreType]
  BY <1>1 DEF Init
<1> QED
  BY <1>2, <1>3, <1>4, <1>5 DEF Init, TInv, TypeOK, StoreType

LEMMA TypeStep ==
  ASSUME TInv, [Next]_vars
  PROVE  TInv'
<1>1. ASSUME NEW t \in Tab, PageStep(t)
      PROVE  TInv'
  BY <1>1, TypeLockGranted, TypeHandle, TypeRaceDelayEnds, TypeRetryAnswered, TypeApplyLogin,
     TypeSignOut, TypeSignOutMismatch, TypeSignOutDone, TypeDeliver DEF PageStep
<1>2. ASSUME NEW t \in Tab, UserStep(t)
      PROVE  TInv'
  BY <1>2, TypeBootstrap, TypeGetFreshHeaders, TypeCallRejected, TypeSignIn, TypeSignOut
     DEF UserStep
<1>3. ASSUME NEW t \in Tab, World(t)
      PROVE  TInv'
  BY <1>3, TypeServeFault, TypeServeLookupFails, TypeLoseAnswer, TypeReload, TypeExpire DEF World
<1>4. CASE UNCHANGED vars
  BY <1>4 DEF vars, TInv, TypeOK, RaceOK
<1> QED
  BY <1>1, <1>2, <1>3, <1>4, TypeServe, TypeServeOrphan, TypeGraceEnds, TypeRevokeElsewhere,
     TypeFence DEF Next

\* Type correctness, for any number of tabs, logins and actions and under all
\* faults: no operation of the refresh runner, the HTTP client, the sign-in and
\* sign-out flows or the server leaves the state space, no event of session 0 is
\* published, and the attempts after a race stay below the listed delays.
THEOREM AuthTypeCorrect == Spec => []TypeOK
<1>1. Init => TInv
  BY TypeInit
<1>2. TInv /\ [Next]_vars => TInv'
  BY TypeStep
<1>3. TInv => TypeOK
  BY DEF TInv
<1> QED
  BY <1>1, <1>2, <1>3, PTL DEF Spec

-----------------------------------------------------------------------------
(* The inductive invariant behind NoFalseReuse: tabs that hold an exclusive  *)
(* browser lock while they refresh, and requests that are served within the  *)
(* replay window.                                                            *)

Orderly == Locks = TRUE /\ "slow" \notin Faults

\* A cookie the server has issued, and whose secret it still accepts if it is
\* the one that was replaced last.
Issued(c) ==
  c.sid # 0 =>
    LET r == row[c.sid] IN
    /\ r.status # "none" /\ c.n <= r.cur
    /\ r.status = "active" /\ r.grace = FALSE => c.n + 1 # r.cur

\* No request of a closed page presents a newer secret than c.
Newer(c) == \A o \in orphan : o.sid = c.sid /\ c.sid # 0 => o.n <= c.n

\* A refresh that has begun holds the lock.  What it presents was in the jar;
\* what it was answered is the current secret, which nobody presents yet.
RunOK(t) ==
  /\ run[t].pc \in {"sent", "served", "waiting"} => holder = t
  /\ run[t].pc = "sent" =>
       /\ Issued(run[t].cookie) /\ Newer(run[t].cookie)
       /\ cookie.sid = run[t].cookie.sid /\ cookie.sid # 0 => cookie.n >= run[t].cookie.n
  /\ run[t].pc = "served" /\ run[t].answer.set = "write" =>
       LET c == run[t].answer.cookie IN
       /\ run[t].answer.kind = "ok"
       /\ c.sid # 0 /\ row[c.sid].status # "none" /\ c.n = row[c.sid].cur
       /\ \A o \in orphan : o.sid = c.sid => o.n < c.n

JarOK == Issued(cookie) /\ Newer(cookie) /\ \A o \in orphan : Issued(o)

Busy == {"sent", "served", "waiting"}

RInv == (\A t \in Tab : RunOK(t)) /\ JarOK /\ NoFalseReuse

LEMMA CookieFields ==
  ASSUME NEW c \in Cookie
  PROVE  /\ c.sid \in Sid \cup {0} /\ c.n \in Nat
         /\ c = [sid |-> c.sid, n |-> c.n]
  BY DEF Cookie

LEMMA FieldTypes ==
  ASSUME TInv
  PROVE  /\ cookie \in Cookie
         /\ \A o \in orphan : o \in Cookie
         /\ \A t \in Tab : run[t].cookie \in Cookie /\ run[t].answer.cookie \in Cookie
         /\ \A s \in Sid : row[s].cur \in Nat /\ row[s].grace \in BOOLEAN
  BY DEF TInv, TypeOK, Run, Answer, Row

\* The refresh of at most one tab has begun.
LEMMA OneBusy ==
  ASSUME RInv, NEW t \in Tab, holder \in {t, NoTab}, NEW u \in Tab, u # t
  PROVE  run[u].pc \notin Busy
  BY DEF RInv, RunOK, Busy

\* A step that at most revokes or denies sessions.
RowsKept ==
  \A s \in Sid : /\ row'[s].cur = row[s].cur /\ row'[s].grace = row[s].grace
                 /\ (row[s].denied => row'[s].denied)
                 /\ \/ row'[s].status = row[s].status
                    \/ row[s].status = "active" /\ row'[s].status = "revoked"

LEMMA IssuedKept ==
  ASSUME RowsKept, NEW c \in Cookie, Issued(c)
  PROVE  Issued(c)'
  BY CookieFields DEF RowsKept, Issued

LEMMA NewerKept ==
  ASSUME NEW c \in Cookie, Newer(c), orphan' \subseteq orphan
  PROVE  Newer(c)'
  BY DEF Newer

\* What a step that sends no request and gets no new secret does to a refresh.
RunKept(t) ==
  \/ run'[t].pc \notin Busy
  \/ Alike(run'[t], run[t]) /\ (holder = t => holder' = t)
  \/ /\ run[t].pc \in Busy /\ run'[t].pc \in {"served", "waiting"}
     /\ run'[t].answer.set # "write" /\ (holder = t => holder' = t)

LEMMA QuietStep ==
  ASSUME RInv, TInv, TInv', RowsKept, orphan' = orphan, cookie' \in {cookie, NoCookie},
         \A t \in Tab : RunKept(t)
  PROVE  RInv'
<1>1. JarOK'
  <2>1. Issued(NoCookie)' /\ Newer(NoCookie)'
    BY DEF Issued, Newer, NoCookie
  <2>2. Issued(cookie)' /\ Newer(cookie)'
    <3>1. cookie' = cookie => Issued(cookie)' /\ Newer(cookie)'
      BY FieldTypes DEF RInv, JarOK, Issued, Newer, RowsKept, Cookie
    <3>2. cookie' = NoCookie => Issued(cookie)' /\ Newer(cookie)'
      BY DEF Issued, Newer, NoCookie
    <3> QED
      BY <3>1, <3>2
  <2>3. \A o \in orphan : Issued(o)'
    BY FieldTypes, IssuedKept DEF RInv, JarOK
  <2> QED
    BY <2>2, <2>3 DEF JarOK
<1>2. NoFalseReuse'
  BY DEF RInv, NoFalseReuse, RowsKept
<1>3. ASSUME NEW t \in Tab
      PROVE  RunOK(t)'
  <2>1. RunOK(t) /\ RunKept(t)
    BY DEF RInv
  <2>2. CASE run'[t].pc \notin Busy
    BY <2>2 DEF RunOK, Busy
  <2>3. CASE Alike(run'[t], run[t]) /\ (holder = t => holder' = t)
    <3>1. run'[t].pc \in Busy => holder' = t
      BY <2>1, <2>3 DEF RunOK, Busy, Alike
    <3>2. ASSUME run'[t].pc = "sent"
          PROVE  /\ Issued(run[t].cookie)' /\ Newer(run[t].cookie)'
                 /\ cookie'.sid = run'[t].cookie.sid /\ cookie'.sid # 0
                      => cookie'.n >= run'[t].cookie.n
      <4>1. run[t].pc = "sent" /\ run'[t].cookie = run[t].cookie
        BY <2>3, <3>2 DEF Alike
      <4>2. Issued(run[t].cookie) /\ Newer(run[t].cookie)
        BY <2>1, <4>1 DEF RunOK
      <4>3. /\ row'[run[t].cookie.sid].cur = row'[run'[t].cookie.sid].cur
            /\ Issued(run[t].cookie)' /\ Newer(run[t].cookie)'
        BY <4>1, <4>2, FieldTypes, CookieFields DEF RowsKept, Issued, Newer
      <4> QED
        BY <2>1, <4>1, <4>3 DEF RunOK, NoCookie
    <3>3. ASSUME run'[t].pc = "served", run'[t].answer.set = "write"
          PROVE  /\ run'[t].answer.kind = "ok" /\ run'[t].answer.cookie.sid # 0
                 /\ row'[run'[t].answer.cookie.sid].status # "none"
                 /\ run'[t].answer.cookie.n = row'[run'[t].answer.cookie.sid].cur
                 /\ \A o \in orphan : o.sid = run'[t].answer.cookie.sid
                                     => o.n < run'[t].answer.cookie.n
      <4>1. run[t].pc = "served" /\ run'[t].answer = run[t].answer
        BY <2>3, <3>3 DEF Alike
      <4> QED
        BY <2>1, <3>3, <4>1, FieldTypes, CookieFields DEF RunOK, RowsKept
    <3> QED
      BY <3>1, <3>2, <3>3 DEF RunOK, Busy
  <2>4. CASE /\ run[t].pc \in Busy /\ run'[t].pc \in {"served", "waiting"}
             /\ run'[t].answer.set # "write" /\ (holder = t => holder' = t)
    BY <2>1, <2>4 DEF RunOK, Busy
  <2> QED
    BY <2>1, <2>2, <2>3, <2>4 DEF RunKept
<1> QED
  BY <1>1, <1>2, <1>3 DEF RInv

\* A request is sent with the cookie of the browser, under the lock.
LEMMA SendStep ==
  ASSUME RInv, TInv, TInv', NEW t \in Tab, holder \in {t, NoTab}, holder' = t,
         UNCHANGED <<row, orphan>>, cookie' \in {cookie, NoCookie},
         run'[t].pc = "sent", run'[t].cookie = cookie,
         \A u \in Tab : u # t => run'[u] = run[u]
  PROVE  RInv'
<1>1. \A u \in Tab : u # t => run'[u].pc \notin Busy
  BY OneBusy
<1>2. JarOK' /\ NoFalseReuse'
  <2>1. Issued(cookie)' /\ Newer(cookie)'
    <3>1. CASE cookie' = cookie
      BY <3>1 DEF RInv, JarOK, Issued, Newer
    <3>2. CASE cookie' = NoCookie
      BY <3>2 DEF Issued, Newer, NoCookie
    <3> QED
      BY <3>1, <3>2
  <2> QED
    BY <2>1 DEF RInv, JarOK, NoFalseReuse, Issued
<1>3. RunOK(t)'
  <2>1. Issued(run[t].cookie)' /\ Newer(run[t].cookie)'
    BY DEF RInv, JarOK, Issued, Newer
  <2>2. cookie'.sid = cookie.sid /\ cookie'.sid # 0 => cookie'.n >= cookie.n
    BY FieldTypes, CookieFields DEF NoCookie
  <2> QED
    BY <2>1, <2>2 DEF RunOK
<1>4. ASSUME NEW u \in Tab, u # t
      PROVE  RunOK(u)'
  BY <1>1, <1>4 DEF RunOK, Busy
<1> QED
  BY <1>2, <1>3, <1>4 DEF RInv

\* The browser stores the secret of an answer.
LEMMA JarStep ==
  ASSUME RInv, TInv, TInv', NEW t \in Tab, run[t].pc = "served", run[t].answer.set = "write",
         cookie' = run[t].answer.cookie, run' = [run EXCEPT ![t] = NoRun],
         UNCHANGED <<row, orphan>>
  PROVE  RInv'
<1>1. holder = t /\ RunOK(t)
  BY DEF RInv, RunOK
<1>2. \A u \in Tab : run'[u].pc \notin Busy
  <2>1. \A u \in Tab : u # t => run[u].pc \notin Busy
    BY <1>1, OneBusy
  <2>2. run'[t] = NoRun /\ \A u \in Tab : u # t => run'[u] = run[u]
    BY DEF TInv, TypeOK
  <2> QED
    BY <2>1, <2>2 DEF NoRun, Busy
<1>3. Issued(cookie)' /\ Newer(cookie)'
  BY <1>1, FieldTypes, CookieFields DEF RunOK, Issued, Newer
<1>4. \A o \in orphan : Issued(o)'
  BY DEF RInv, JarOK, Issued
<1>5. JarOK' /\ NoFalseReuse'
  BY <1>3, <1>4 DEF JarOK, RInv, NoFalseReuse
<1> QED
  BY <1>2, <1>5 DEF RInv, RunOK, Busy

\* What RotateUserSessionRefresh decides about an issued cookie: never a reuse.
LEMMA SecretMeaning ==
  ASSUME TInv, NEW c \in Cookie, Issued(c), c.sid # 0
  PROVE  LET v == Secret(c) IN
         /\ v \in {"revoked", "rotate", "replay", "unknown"}
         /\ v = "rotate" => c.sid \in Sid /\ row[c.sid].status = "active" /\ c.n = row[c.sid].cur
         /\ v = "replay" => c.sid \in Sid /\ row[c.sid].status = "active" /\ c.n + 1 = row[c.sid].cur
  BY CookieFields DEF Secret, Issued, TInv, TypeOK, Row

LEMMA VerdictMeaning ==
  ASSUME TInv, NEW c \in Cookie, Issued(c), NEW e
  PROVE  LET v == Verdict(c, e) IN
         /\ v # "reuse"
         /\ v = "denied" => c.sid \in Sid
         /\ v = "rotate" => c.sid \in Sid /\ row[c.sid].status = "active" /\ c.n = row[c.sid].cur
         /\ v = "replay" => c.sid \in Sid /\ row[c.sid].status = "active" /\ c.n + 1 = row[c.sid].cur
<1>1. CASE c.sid = 0 \/ e \notin {0, c.sid}
  BY <1>1 DEF Verdict
<1>2. CASE c.sid # 0 /\ e \in {0, c.sid}
  <2>1. Verdict(c, e) = "denied" \/ Verdict(c, e) = Secret(c)
    BY <1>2 DEF Verdict
  <2>2. c.sid \in Sid
    BY <1>2, CookieFields
  <2> QED
    BY <1>2, <2>1, <2>2, SecretMeaning
<1> QED
  BY <1>1, <1>2

LEMMA RowRotated ==
  ASSUME TInv, NEW c \in Cookie, c.sid \in Sid, NEW v, v = "rotate", row' = Rotated(c, v)
  PROVE  /\ row'[c.sid].status = "active"
         /\ row'[c.sid].cur = row[c.sid].cur + 1
         /\ row'[c.sid].grace = TRUE
         /\ row'[c.sid].denied = row[c.sid].denied
         /\ \A s \in Sid : s # c.sid => row'[s] = row[s]
<1>1. row \in [Sid -> Row]
  BY DEF TInv, TypeOK
<1>2. /\ \A s \in Sid : s # c.sid => Rotated(c, v)[s] = row[s]
      /\ v = "rotate" => /\ Rotated(c, v)[c.sid].status = "active"
                         /\ Rotated(c, v)[c.sid].cur = row[c.sid].cur + 1
                         /\ Rotated(c, v)[c.sid].grace = TRUE
                         /\ Rotated(c, v)[c.sid].denied = row[c.sid].denied
  BY <1>1, RotatedType, Zenon
<1> QED
  BY <1>2, Zenon

\* A rotation keeps every issued cookie issued.
LEMMA IssuedRotated ==
  ASSUME TInv, NEW c \in Cookie, c.sid \in Sid, row[c.sid].status = "active",
         NEW v, v = "rotate", row' = Rotated(c, v), NEW o \in Cookie, Issued(o)
  PROVE  Issued(o)'
<1>1. /\ row'[c.sid].status = "active" /\ row'[c.sid].cur = row[c.sid].cur + 1
      /\ row'[c.sid].grace = TRUE
      /\ \A s \in Sid : s # c.sid => row'[s] = row[s]
  BY RowRotated, Zenon
<1> QED
  BY <1>1, FieldTypes, CookieFields DEF Issued

LEMMA AnswerMeaning ==
  ASSUME NEW c \in Cookie, NEW v
  PROVE  LET a == AnswerTo(c, v) IN
         /\ a.set = "write" => v \in {"rotate", "replay"} /\ a.kind = "ok"
         /\ v \in {"rotate", "replay"} => a.cookie.sid = c.sid /\ a.cookie.n = c.n + 1
<1>1. CASE v \in {"rotate", "replay"}
  <2> DEFINE d == [c EXCEPT !.n = @ + 1]
  <2>1. AnswerTo(c, v) = [kind |-> "ok", set |-> "write", cookie |-> d]
    BY <1>1 DEF AnswerTo
  <2>2. d.sid = c.sid /\ d.n = c.n + 1
    BY DEF Cookie
  <2> HIDE DEF d
  <2> QED
    BY <1>1, <2>1, <2>2
<1>2. CASE v \notin {"rotate", "replay"}
  BY <1>2 DEF AnswerTo
<1> QED
  BY <1>1, <1>2

LEMMA DeniedKept ==
  ASSUME TInv, NEW s \in Sid, row' = Denied(s)
  PROVE  RowsKept
<1>1. row \in [Sid -> Row]
  BY DEF TInv, TypeOK
<1>2. /\ \A r \in Sid : /\ row'[r].status = row[r].status /\ row'[r].cur = row[r].cur
                          /\ row'[r].grace = row[r].grace /\ (r # s => row'[r] = row[r])
      /\ row'[s].denied
  BY <1>1, DeniedType, Zenon
<1> QED
  BY <1>2, Zenon DEF RowsKept

\* A refresh is answered with 401 although its session is active.
LEMMA ReuseDenied ==
  ASSUME RInv, TInv, TInv', NEW t \in Tab, NEW c \in Cookie, NEW v, v = "denied",
         c.sid \in Sid, row' = Denied(c.sid), run[t].pc = "sent",
         run' = [run EXCEPT ![t] = Reply(run[t], AnswerTo(c, v))],
         UNCHANGED <<holder, cookie, orphan>>
  PROVE  RInv'
<1> DEFINE a == AnswerTo(c, v)
<1>1. a.set = "clear"
  BY DEF AnswerTo
<1> HIDE DEF a
<1>2. run' = [run EXCEPT ![t] = Reply(run[t], a)]
  BY DEF a
<1>3. ASSUME NEW r \in Run
      PROVE  Reply(r, a).pc = "served" /\ Reply(r, a).answer = a
  BY DEF Reply, Run
<1>4. /\ run'[t].pc = "served" /\ run'[t].answer.set = "clear"
      /\ \A u \in Tab : u # t => run'[u] = run[u]
  BY <1>1, <1>2, <1>3 DEF TInv, TypeOK
<1>5. \A u \in Tab : RunKept(u)
  BY <1>4 DEF RunKept, Alike, Busy
<1>6. RowsKept
  BY DeniedKept
<1> QED
  BY <1>5, <1>6, QuietStep

LEMMA ReuseServe ==
  ASSUME RInv, TInv, TInv', NEW t \in Tab, Serve(t)
  PROVE  RInv'
<1> DEFINE c == run[t].cookie
           v == Verdict(c, run[t].expect)
           a == AnswerTo(c, v)
<1>1. c \in Cookie /\ run[t].pc = "sent"
  BY FieldTypes DEF Serve
<1>2. holder = t /\ Issued(c) /\ Newer(c)
  BY <1>1 DEF RInv, RunOK
<1>3. /\ v # "reuse" /\ (v = "denied" => c.sid \in Sid)
      /\ v = "rotate" => c.sid \in Sid /\ row[c.sid].status = "active" /\ c.n = row[c.sid].cur
      /\ v = "replay" => c.sid \in Sid /\ row[c.sid].status = "active" /\ c.n + 1 = row[c.sid].cur
  BY <1>1, <1>2, VerdictMeaning
<1>4. /\ a.set = "write" => v \in {"rotate", "replay"} /\ a.kind = "ok"
      /\ v \in {"rotate", "replay"} => a.cookie.sid = c.sid /\ a.cookie.n = c.n + 1
  BY <1>1, AnswerMeaning
<1>5. /\ row' = IF v = "denied" THEN Denied(c.sid) ELSE Rotated(c, v)
      /\ UNCHANGED <<holder, cookie, orphan>>
  BY DEF Serve
<1>6. /\ run'[t].pc = "served" /\ run'[t].answer = a
      /\ \A u \in Tab : u # t => run'[u] = run[u]
  <2>1. run' = [run EXCEPT ![t] = Reply(run[t], a)]
    BY DEF Serve
  <2>2. ASSUME NEW r \in Run, NEW b
        PROVE  Reply(r, b).pc = "served" /\ Reply(r, b).answer = b
    BY DEF Reply, Run
  <2> QED
    BY <2>1, <2>2 DEF TInv, TypeOK
<1>d. CASE v = "denied"
  <2>1. run' = [run EXCEPT ![t] = Reply(run[t], AnswerTo(c, v))]
    BY DEF Serve
  <2> HIDE DEF c, v
  <2> QED
    BY <1>1, <1>3, <1>5, <1>d, <2>1, ReuseDenied
<1> HIDE DEF a, v
<1>7. CASE v = "rotate"
  <2>0. row' = Rotated(c, v)
    BY <1>5, <1>7
  <2>1. \A o \in Cookie : Issued(o) => Issued(o)'
    BY <1>1, <1>3, <1>7, <2>0, IssuedRotated
  <2>2. /\ row'[c.sid].status = "active" /\ row'[c.sid].cur = row[c.sid].cur + 1
        /\ \A s \in Sid : s # c.sid => row'[s] = row[s]
    BY <1>1, <1>3, <1>7, <2>0, RowRotated, Zenon
  <2>3. JarOK'
    BY <1>5, <2>1, FieldTypes DEF RInv, JarOK, Newer
  <2>4. NoFalseReuse'
    BY <2>2 DEF RInv, NoFalseReuse
  <2>5. RunOK(t)'
    <3>1. /\ a.cookie.sid = c.sid /\ a.cookie.n = row'[c.sid].cur /\ c.sid # 0
          /\ \A o \in orphan : o.sid = c.sid => o.n < a.cookie.n
      <4>1. c.sid # 0 /\ c.n \in Nat /\ \A o \in orphan : o.n \in Nat
        BY <1>1, <1>3, <1>7, FieldTypes, CookieFields DEF Sid
      <4> HIDE DEF c
      <4> QED
        BY <1>2, <1>3, <1>4, <1>7, <2>2, <4>1 DEF Newer
    <3> QED
      BY <1>2, <1>4, <1>5, <1>6, <1>7, <2>2, <3>1 DEF RunOK
  <2>6. ASSUME NEW u \in Tab, u # t
        PROVE  RunOK(u)'
    BY <1>2, <1>6, <2>6, OneBusy DEF RunOK, Busy
  <2> QED
    BY <2>3, <2>4, <2>5, <2>6 DEF RInv
<1>8. CASE v \notin {"rotate", "denied"}
  <2>1. row' = row
    BY <1>1, <1>3, <1>5, <1>8 DEF Rotated
  <2>2. JarOK' /\ NoFalseReuse'
    BY <1>5, <2>1 DEF RInv, JarOK, NoFalseReuse, Issued, Newer
  <2>3. RunOK(t)'
    <3>1. CASE v = "replay"
      <4>1. /\ a.cookie.sid = c.sid /\ a.cookie.n = row[c.sid].cur /\ c.sid # 0
            /\ \A o \in orphan : o.sid = c.sid => o.n < a.cookie.n
        <5>1. c.sid # 0 /\ c.n \in Nat /\ \A o \in orphan : o.n \in Nat
          BY <1>1, <1>3, <3>1, FieldTypes, CookieFields DEF Sid
        <5> HIDE DEF c
        <5> QED
          BY <1>2, <1>3, <1>4, <3>1, <5>1 DEF Newer
      <4> QED
        BY <1>2, <1>3, <1>4, <1>5, <1>6, <2>1, <3>1, <4>1 DEF RunOK
    <3>2. CASE v # "replay"
      BY <1>2, <1>4, <1>5, <1>6, <1>8, <3>2 DEF RunOK
    <3> QED
      BY <3>1, <3>2
  <2>4. ASSUME NEW u \in Tab, u # t
        PROVE  RunOK(u)'
    BY <1>2, <1>6, <2>4, OneBusy DEF RunOK, Busy
  <2> QED
    BY <2>2, <2>3, <2>4 DEF RInv
<1> QED
  BY <1>7, <1>8, <1>d

LEMMA ReuseServeOrphan ==
  ASSUME RInv, TInv, TInv', NEW c \in orphan, ServeOrphan(c)
  PROVE  RInv'
<1> DEFINE v == Verdict(c, 0)
<1>1. c \in Cookie /\ Issued(c)
  BY FieldTypes DEF RInv, JarOK
<1>2. /\ v # "reuse"
      /\ v = "rotate" => c.sid \in Sid /\ row[c.sid].status = "active" /\ c.n = row[c.sid].cur
  BY <1>1, VerdictMeaning
<1>3. /\ orphan' \subseteq orphan /\ UNCHANGED <<run, holder, cookie>>
      /\ row' = row \/ row' = Rotated(c, v)
  BY DEF ServeOrphan
<1> HIDE DEF v
<1>4. CASE row' = row
  BY <1>3, <1>4 DEF RInv, RunOK, JarOK, NoFalseReuse, Issued, Newer
<1>5. CASE row' # row
  <2>1. v = "rotate" /\ row' = Rotated(c, v)
    BY <1>1, <1>2, <1>3, <1>5 DEF Rotated
  <2>2. \A o \in Cookie : Issued(o) => Issued(o)'
    BY <1>1, <1>2, <2>1, IssuedRotated
  <2>3. /\ row'[c.sid].status = "active"
        /\ \A s \in Sid : s # c.sid => row'[s] = row[s]
    BY <1>1, <1>2, <2>1, RowRotated, Zenon
  <2>4. JarOK'
    BY <1>3, <2>2, FieldTypes DEF RInv, JarOK, Newer
  <2>5. NoFalseReuse'
    BY <2>3 DEF RInv, NoFalseReuse
  <2>6. ASSUME NEW t \in Tab
        PROVE  RunOK(t)'
    <3>1. RunOK(t)
      BY DEF RInv
    <3>2. CASE run[t].pc = "sent"
      <4>1. Issued(run[t].cookie)' /\ Newer(run[t].cookie)'
        BY <1>3, <2>2, <3>1, <3>2, FieldTypes DEF RunOK, Newer
      <4> QED
        BY <1>3, <3>1, <3>2, <4>1 DEF RunOK
    <3>3. CASE run[t].pc = "served" /\ run[t].answer.set = "write"
      <4> DEFINE d == run[t].answer.cookie
      <4>1. d.sid # c.sid /\ d.sid \in Sid
        BY <1>1, <1>2, <2>1, <3>1, <3>3, FieldTypes, CookieFields DEF RunOK
      <4>2. row'[d.sid] = row[d.sid]
        BY <2>3, <4>1
      <4> QED
        BY <1>3, <3>1, <3>3, <4>2 DEF RunOK
    <3>4. CASE ~(run[t].pc = "sent") /\ ~(run[t].pc = "served" /\ run[t].answer.set = "write")
      BY <1>3, <3>1, <3>4 DEF RunOK
    <3> QED
      BY <3>2, <3>3, <3>4
  <2> QED
    BY <2>4, <2>5, <2>6 DEF RInv
<1> QED
  BY <1>4, <1>5

LEMMA ReuseGraceEnds ==
  ASSUME Orderly, RInv, TInv, TInv', NEW s \in Sid, GraceEnds(s)
  PROVE  RInv'
<1> DEFINE last == [sid |-> s, n |-> row[s].cur - 1]
<1>1. /\ ~Presents(last)
      /\ UNCHANGED <<run, holder, cookie, orphan>>
      /\ \A r \in Sid : row'[r].cur = row[r].cur /\ row'[r].status = row[r].status
      /\ \A r \in Sid : r # s => row'[r] = row[r]
  BY DEF GraceEnds, Orderly, TInv, TypeOK, Row
<1> HIDE DEF last
<1>2. ASSUME NEW c \in Cookie, Issued(c), c # last
      PROVE  Issued(c)'
  <2>1. CASE c.sid = s
    <3>1. c.n + 1 # row[s].cur
      <4>1. c = [sid |-> s, n |-> c.n] /\ c.n \in Nat /\ row[s].cur \in Nat
        BY <2>1, CookieFields, FieldTypes
      <4> QED
        BY <1>2, <4>1 DEF last
    <3> QED
      BY <1>1, <1>2, <2>1, <3>1 DEF Issued
  <2>2. CASE c.sid # s
    BY <1>1, <1>2, <2>2, CookieFields DEF Issued
  <2> QED
    BY <2>1, <2>2
<1>3. cookie # last /\ \A o \in orphan : o # last
  BY <1>1 DEF Presents
<1>4. \A t \in Tab : run[t].pc = "sent" => run[t].cookie # last
  BY <1>1 DEF Presents
<1>5. JarOK'
  <2>1. Issued(cookie)'
    <3>1. Issued(cookie)
      BY DEF RInv, JarOK
    <3> QED
      BY <1>1, <1>2, <1>3, <3>1, FieldTypes DEF Issued
  <2>2. \A o \in orphan : Issued(o)'
    BY <1>2, <1>3, FieldTypes DEF RInv, JarOK
  <2> QED
    BY <1>1, <2>1, <2>2 DEF RInv, JarOK, Newer
<1>6. NoFalseReuse'
  BY <1>1 DEF RInv, NoFalseReuse
<1>7. ASSUME NEW t \in Tab
      PROVE  RunOK(t)'
  <2>1. RunOK(t)
    BY DEF RInv
  <2>2. ASSUME run[t].pc = "sent"
        PROVE  Issued(run[t].cookie)' /\ Newer(run[t].cookie)'
    <3>1. Issued(run[t].cookie) /\ Newer(run[t].cookie)
      BY <2>1, <2>2 DEF RunOK
    <3> QED
      BY <1>1, <1>2, <1>4, <2>2, <3>1, FieldTypes DEF Issued, Newer
  <2> QED
    BY <1>1, <2>1, <2>2, FieldTypes, CookieFields DEF RunOK
<1> QED
  BY <1>5, <1>6, <1>7 DEF RInv

LEMMA ReuseSignIn ==
  ASSUME RInv, TInv, TInv', NEW t \in Tab, SignIn(t)
  PROVE  RInv'
<1>1. PICK s \in Sid :
        /\ row[s].status = "none"
        /\ row' = [row EXCEPT ![s] = [status |-> "active", cur |-> 0, grace |-> FALSE,
                                      fence |-> FALSE, denied |-> FALSE]]
        /\ cookie' = [sid |-> s, n |-> 0]
  BY DEF SignIn
<1>2. UNCHANGED <<run, holder, orphan>>
  BY DEF SignIn
<1>3. /\ \A r \in Sid : r # s => row'[r] = row[r]
      /\ row'[s].status = "active" /\ row'[s].cur = 0
  BY <1>1 DEF TInv, TypeOK
<1>s. s # 0
  BY DEF Sid
<1>4. ASSUME NEW c \in Cookie, Issued(c)
      PROVE  Issued(c)' /\ c.sid # s
  <2>1. c.sid # s
    BY <1>1, <1>4, <1>s DEF Issued
  <2> QED
    BY <1>3, <1>4, <2>1, CookieFields DEF Issued
<1>5. JarOK'
  <2>1. \A o \in orphan : Issued(o)' /\ o.sid # s
    BY <1>4, FieldTypes DEF RInv, JarOK
  <2>2. Issued(cookie)' /\ Newer(cookie)'
    BY <1>1, <1>2, <1>3, <2>1 DEF Issued, Newer
  <2> QED
    BY <1>2, <2>1, <2>2 DEF JarOK
<1>6. NoFalseReuse'
  BY <1>3 DEF RInv, NoFalseReuse
<1>7. ASSUME NEW u \in Tab
      PROVE  RunOK(u)'
  <2>1. RunOK(u)
    BY DEF RInv
  <2>2. ASSUME run[u].pc = "sent"
        PROVE  Issued(run[u].cookie)' /\ Newer(run[u].cookie)' /\ run[u].cookie.sid # s
    <3>1. Issued(run[u].cookie) /\ Newer(run[u].cookie)
      BY <2>1, <2>2 DEF RunOK
    <3> QED
      BY <1>2, <1>4, <3>1, FieldTypes DEF Issued, Newer
  <2>3. ASSUME run[u].pc = "served", run[u].answer.set = "write"
        PROVE  row'[run[u].answer.cookie.sid] = row[run[u].answer.cookie.sid]
    BY <1>1, <1>3, <2>1, <2>3, FieldTypes, CookieFields DEF RunOK
  <2> QED
    BY <1>1, <1>2, <2>1, <2>2, <2>3 DEF RunOK
<1> QED
  BY <1>5, <1>6, <1>7 DEF RInv

LEMMA ReusePageGone ==
  ASSUME RInv, TInv, TInv', NEW t \in Tab, NEW q, PageGone(t, q)
  PROVE  RInv'
<1>1. /\ run' = [run EXCEPT ![t] = NoRun]
      /\ holder' = IF holder = t THEN NoTab ELSE holder
      /\ orphan' = IF run[t].pc = "sent" THEN orphan \cup {run[t].cookie} ELSE orphan
      /\ UNCHANGED <<cookie, row>>
  BY DEF PageGone
<1>2. run'[t].pc \notin Busy /\ \A u \in Tab : u # t => run'[u] = run[u]
  BY <1>1 DEF TInv, TypeOK, NoRun, Busy
<1>3. CASE run[t].pc = "sent"
  <2>1. /\ holder = t /\ Issued(run[t].cookie)
        /\ cookie.sid = run[t].cookie.sid /\ cookie.sid # 0 => cookie.n >= run[t].cookie.n
    BY <1>3 DEF RInv, RunOK
  <2>2. \A u \in Tab : run'[u].pc \notin Busy
    BY <1>2, <2>1, OneBusy
  <2>3. JarOK'
    <3>1. Issued(cookie)' /\ \A o \in orphan : Issued(o)'
      BY <1>1 DEF RInv, JarOK, Issued
    <3>2. ASSUME NEW o \in orphan'
          PROVE  Issued(o)'
      BY <1>1, <1>3, <2>1, <3>1 DEF Issued
    <3>3. Newer(cookie)'
      BY <1>1, <1>3, <2>1, FieldTypes, CookieFields DEF RInv, JarOK, Newer
    <3> QED
      BY <3>1, <3>2, <3>3 DEF JarOK
  <2>4. NoFalseReuse'
    BY <1>1 DEF RInv, NoFalseReuse
  <2> QED
    BY <2>2, <2>3, <2>4 DEF RInv, RunOK, Busy
<1>4. CASE run[t].pc # "sent"
  <2>1. RowsKept
    BY <1>1 DEF RowsKept
  <2>2. \A u \in Tab : RunKept(u)
    BY <1>1, <1>2 DEF RunKept, Alike
  <2> QED
    BY <1>1, <1>4, <2>1, <2>2, QuietStep
<1> QED
  BY <1>3, <1>4

-----------------------------------------------------------------------------
(* The steps of a page.                                                     *)

\* A step of tab t that does nothing to the other tabs' refreshes.
LEMMA OthersKept ==
  ASSUME NEW t \in Tab, \A u \in Tab : u # t => run'[u] = run[u],
         holder' = holder \/ (holder = t /\ holder' = NoTab)
  PROVE  \A u \in Tab : u # t => RunKept(u)
  BY DEF RunKept, Alike

LEMMA RowsSame ==
  ASSUME row' = row
  PROVE  RowsKept
  BY DEF RowsKept

\* A step that changes neither the rows nor the cookies nor who holds the lock,
\* and starts or bumps a refresh.
LEMMA ReuseRefreshing ==
  ASSUME Orderly, RInv, TInv, TInv', NEW t \in Tab, run' = Refreshing(t),
         UNCHANGED <<holder, cookie, row, orphan>>
  PROVE  RInv'
<1>1. ASSUME NEW u \in Tab
      PROVE  RunKept(u)
  <2>1. run' = run \/ run' = [run EXCEPT ![t] = [NoRun EXCEPT !.pc = "queued"]]
    BY DEF Refreshing, Orderly
  <2>2. run'[u] = run[u] \/ run'[u].pc = "queued"
    BY <2>1 DEF TInv, TypeOK, NoRun
  <2> QED
    BY <2>2 DEF RunKept, Alike, Busy
<1> QED
  BY <1>1, RowsSame, QuietStep

LEMMA ReuseBump ==
  ASSUME RInv, TInv, TInv', NEW t \in Tab, run' = Bump(t),
         UNCHANGED <<holder, row, orphan>>, cookie' \in {cookie, NoCookie}
  PROVE  RInv'
<1>1. \A u \in Tab : RunKept(u)
  BY BumpType DEF RunKept, TInv
<1> QED
  BY <1>1, RowsSame, QuietStep

LEMMA ReuseRevoke ==
  ASSUME RInv, TInv, TInv', RowsKept, UNCHANGED <<run, holder, cookie, orphan>>
  PROVE  RInv'
<1>1. \A u \in Tab : RunKept(u)
  BY DEF RunKept, Alike
<1> QED
  BY <1>1, QuietStep

\* The refresh of t settles without a new secret.
LEMMA ReuseSettle ==
  ASSUME RInv, TInv, TInv', NEW t \in Tab, NEW outcome, NEW s, Settle(t, outcome, s),
         UNCHANGED <<row, orphan>>, cookie' \in {cookie, NoCookie}
  PROVE  RInv'
<1>1. run'[t].pc \notin Busy /\ \A u \in Tab : u # t => run'[u] = run[u]
  BY DEF Settle, TInv, TypeOK, NoRun, Busy
<1>2. holder' = holder \/ (holder = t /\ holder' = NoTab)
  BY DEF Settle
<1>3. \A u \in Tab : RunKept(u)
  BY <1>1, <1>2, OthersKept DEF RunKept
<1> QED
  BY <1>3, RowsSame, QuietStep

\* An answer is handled by settling the refresh.
LEMMA ReuseAnswered ==
  ASSUME RInv, TInv, TInv', NEW t \in Tab, Answered(t), NEW outcome, NEW s,
         Settle(t, outcome, s), UNCHANGED <<row, orphan>>
  PROVE  RInv'
<1>1. CASE run[t].answer.set = "write"
  BY <1>1, JarStep DEF Answered, CookieAfter, Settle
<1>2. CASE run[t].answer.set # "write"
  <2>1. cookie' \in {cookie, NoCookie}
    BY <1>2 DEF Answered, CookieAfter
  <2> QED
    BY <2>1, ReuseSettle
<1> QED
  BY <1>1, <1>2

\* Only an answer with a bundle writes the cookie.
LEMMA NoSecret ==
  ASSUME RInv, NEW t \in Tab, Answered(t), run[t].answer.kind # "ok"
  PROVE  /\ holder = t /\ run[t].answer.set # "write"
         /\ cookie' \in {cookie, NoCookie}
  BY DEF RInv, RunOK, Answered, CookieAfter

LEMMA RequestedFields ==
  ASSUME NEW r \in Run, NEW x
  PROVE  Requested(r, x).pc = "sent" /\ Requested(r, x).cookie = cookie
  BY DEF Requested, Run

LEMMA ReuseHandle ==
  ASSUME RInv, TInv, TInv', NEW t \in Tab, Handle(t)
  PROVE  RInv'
<1>1. CASE Superseded(t)
  BY <1>1, ReuseAnswered DEF Superseded
<1>2. CASE Accept(t)
  BY <1>2, ReuseAnswered DEF Accept, HandleAnswer
<1>3. CASE Raced(t)
  <2>1. CASE run[t].race < RaceDelays
    <3>1. /\ holder = t /\ run[t].answer.set # "write" /\ cookie' \in {cookie, NoCookie}
          /\ run[t].pc = "served"
      BY <1>3, NoSecret DEF Raced, HandleAnswer, Answered
    <3>2. /\ run' = [run EXCEPT ![t].pc = "waiting"]
          /\ UNCHANGED <<holder, row, orphan>>
      BY <1>3, <2>1 DEF Raced
    <3>3. run'[t].pc = "waiting" /\ run'[t].answer = run[t].answer
      BY <3>2 DEF TInv, TypeOK, Run
    <3>4. \A u \in Tab : u # t => run'[u] = run[u]
      BY <3>2 DEF TInv, TypeOK
    <3>5. \A u \in Tab : RunKept(u)
      BY <3>1, <3>2, <3>3, <3>4, OthersKept DEF RunKept, Busy
    <3> QED
      BY <3>1, <3>2, <3>5, RowsSame, QuietStep
  <2>2. CASE ~(run[t].race < RaceDelays)
    BY <1>3, <2>2, ReuseAnswered DEF Raced, HandleAnswer
  <2> QED
    BY <2>1, <2>2
<1>4. CASE Mismatched(t)
  <2>1. CASE run[t].retry
    <3> DEFINE r0 == [run[t] EXCEPT !.race = 0, !.retry = FALSE]
               r == Requested(r0, 0)
    <3>1. r0 \in Run
      BY RetryType DEF TInv, TypeOK
    <3>2. r.pc = "sent" /\ r.cookie = cookie
      BY <3>1, RequestedFields
    <3>3. run' = [run EXCEPT ![t] = r] /\ UNCHANGED <<holder, row, orphan>>
      BY <1>4, <2>1 DEF Mismatched
    <3>4. holder = t /\ cookie' \in {cookie, NoCookie}
      BY <1>4, NoSecret DEF Mismatched, HandleAnswer
    <3> HIDE DEF r
    <3>5. /\ run'[t].pc = "sent" /\ run'[t].cookie = cookie
          /\ \A u \in Tab : u # t => run'[u] = run[u]
      BY <3>2, <3>3 DEF TInv, TypeOK
    <3> QED
      BY <3>3, <3>4, <3>5, SendStep
  <2>2. CASE ~run[t].retry
    BY <1>4, <2>2, ReuseAnswered DEF Mismatched, HandleAnswer
  <2> QED
    BY <2>1, <2>2
<1>5. CASE Unauthorized(t)
  BY <1>5, ReuseAnswered DEF Unauthorized, HandleAnswer
<1>6. CASE Transient(t)
  BY <1>6, ReuseAnswered DEF Transient, HandleAnswer
<1>7. CASE Unexpected(t)
  BY <1>7, ReuseAnswered DEF Unexpected, HandleAnswer
<1> QED
  BY <1>1, <1>2, <1>3, <1>4, <1>5, <1>6, <1>7 DEF Handle

LEMMA ReuseLockGranted ==
  ASSUME RInv, TInv, TInv', NEW t \in Tab, LockGranted(t)
  PROVE  RInv'
<1>1. CASE run[t].current
  <2> DEFINE r == Requested(run[t], store[t].sid)
  <2>1. r.pc = "sent" /\ r.cookie = cookie
    BY RequestedFields DEF TInv, TypeOK
  <2>2. run' = [run EXCEPT ![t] = r] /\ holder' = t /\ holder = NoTab
    BY <1>1 DEF LockGranted
  <2> HIDE DEF r
  <2>3. /\ run'[t].pc = "sent" /\ run'[t].cookie = cookie
        /\ \A u \in Tab : u # t => run'[u] = run[u]
    BY <2>1, <2>2 DEF TInv, TypeOK
  <2>4. UNCHANGED <<row, orphan, cookie>>
    BY DEF LockGranted
  <2> QED
    BY <2>2, <2>3, <2>4, SendStep
<1>2. CASE ~run[t].current
  BY <1>2, ReuseSettle DEF LockGranted
<1> QED
  BY <1>1, <1>2

LEMMA ReuseRaceDelayEnds ==
  ASSUME RInv, TInv, TInv', NEW t \in Tab, RaceDelayEnds(t)
  PROVE  RInv'
<1>1. CASE run[t].current
  <2> DEFINE r0 == [run[t] EXCEPT !.race = run[t].race + 1]
             r == Requested(r0, store[t].sid)
  <2>1. r0 \in Run
    BY RaceType DEF RaceDelayEnds, TInv, TypeOK, RaceOK
  <2>2. r.pc = "sent" /\ r.cookie = cookie
    BY <2>1, RequestedFields
  <2>3. run' = [run EXCEPT ![t] = r]
    BY <1>1 DEF RaceDelayEnds
  <2>4. UNCHANGED <<holder, row, orphan, cookie>>
    BY <1>1 DEF RaceDelayEnds
  <2>5. holder = t
    BY DEF RaceDelayEnds, RInv, RunOK
  <2> HIDE DEF r
  <2>6. /\ run'[t].pc = "sent" /\ run'[t].cookie = cookie
        /\ \A u \in Tab : u # t => run'[u] = run[u]
    BY <2>2, <2>3 DEF TInv, TypeOK
  <2> QED
    BY <2>4, <2>5, <2>6, SendStep
<1>2. CASE ~run[t].current
  BY <1>2, ReuseSettle DEF RaceDelayEnds
<1> QED
  BY <1>1, <1>2

\* An answer without a secret, or none.
LEMMA ReuseFault ==
  ASSUME RInv, TInv, TInv', NEW t \in Tab, NEW kind,
         ServeFault(t, kind) \/ LoseAnswer(t)
  PROVE  RInv'
<1>1. /\ run[t].pc \in Busy /\ run'[t].pc = "served" /\ run'[t].answer.set = "keep"
      /\ \A u \in Tab : u # t => run'[u] = run[u]
  <2>1. CASE ServeFault(t, kind)
    <3> DEFINE a == [NoAnswer EXCEPT !.kind = kind]
    <3>1. a.set = "keep"
      BY DEF NoAnswer
    <3>2. run' = [run EXCEPT ![t] = Reply(run[t], a)] /\ run[t].pc = "sent"
      BY <2>1 DEF ServeFault
    <3> HIDE DEF a
    <3>3. ASSUME NEW r \in Run
          PROVE  Reply(r, a).pc = "served" /\ Reply(r, a).answer = a
      BY DEF Reply, Run
    <3> QED
      BY <3>1, <3>2, <3>3 DEF TInv, TypeOK, Busy
  <2>2. CASE LoseAnswer(t)
    BY <2>2 DEF LoseAnswer, NoAnswer, TInv, TypeOK, Run, Busy
  <2> QED
    BY <2>1, <2>2
<1>2. UNCHANGED <<holder, cookie, row, orphan>>
  BY DEF ServeFault, LoseAnswer
<1>3. \A u \in Tab : RunKept(u)
  BY <1>1, <1>2, OthersKept DEF RunKept
<1> QED
  BY <1>2, <1>3, RowsSame, QuietStep

LEMMA RevokedKept ==
  ASSUME TInv, NEW s \in Sid, row[s].status = "active", row' = Revoked(s)
  PROVE  RowsKept /\ row'[s].status = "revoked"
<1>1. row \in [Sid -> Row]
  BY DEF TInv, TypeOK
<1>2. /\ row'[s].status = "revoked"
      /\ \A r \in Sid : /\ row'[r].cur = row[r].cur /\ row'[r].grace = row[r].grace
                        /\ row'[r].denied = row[r].denied /\ (r # s => row'[r] = row[r])
  BY <1>1, TypeRevoked, Zenon
<1> QED
  BY <1>2, Zenon DEF RowsKept

\* A deny fence is raised, or runs out.
LEMMA FenceKept ==
  ASSUME TInv, NEW s \in Sid, RevokeHalts(s) \/ FenceEnds(s)
  PROVE  RowsKept
<1>1. PICK b \in BOOLEAN : row' = [row EXCEPT ![s] = [row[s] EXCEPT !.fence = b]]
  BY Zenon DEF RevokeHalts, FenceEnds
<1> DEFINE q == [row[s] EXCEPT !.fence = b]
<1>2. row[s] \in Row /\ row \in [Sid -> Row]
  BY DEF TInv, TypeOK
<1>3. /\ q.status = row[s].status /\ q.cur = row[s].cur /\ q.grace = row[s].grace
      /\ q.denied = row[s].denied
  BY <1>2 DEF Row
<1> HIDE DEF q
<1>4. row'[s] = q /\ \A r \in Sid : r # s => row'[r] = row[r]
  BY <1>1, <1>2 DEF q
<1> QED
  BY <1>3, <1>4, Zenon DEF RowsKept

LEMMA ReuseLookupFails ==
  ASSUME RInv, TInv, TInv', NEW t \in Tab, ServeLookupFails(t)
  PROVE  RInv'
<1> DEFINE c == run[t].cookie
           v == "denied"
<1>1. /\ run[t].pc = "sent" /\ c.sid # 0 /\ row' = Denied(c.sid)
      /\ run' = [run EXCEPT ![t] = Reply(run[t], AnswerTo(c, v))]
      /\ UNCHANGED <<holder, cookie, orphan>>
  BY DEF ServeLookupFails
<1>2. c \in Cookie /\ c.sid \in Sid
  BY <1>1, FieldTypes, CookieFields
<1>3. v = "denied"
  OBVIOUS
<1> HIDE DEF c, v
<1> QED
  BY <1>1, <1>2, <1>3, ReuseDenied

LEMMA ReuseSignOut ==
  ASSUME RInv, TInv, TInv', NEW t \in Tab, SignOut(t) \/ SignOutAgain(t)
  PROVE  RInv'
<1>1. PICK second \in BOOLEAN : AskSignOut(t, second)
  BY DEF SignOut, SignOutAgain
<1>2. UNCHANGED <<run, holder, cookie, orphan>>
  BY DEF SignOut, SignOutAgain
<1>3. store[t].sid # 0 => store[t].sid \in Sid
  BY DEF TInv, TypeOK
<1>4. \/ row' = row
      \/ /\ store[t].sid # 0 /\ row[store[t].sid].status = "active"
         /\ row' = Revoked(store[t].sid)
      \/ row' = RevokedByCookie
  BY <1>1 DEF AskSignOut
<1>5. CASE row' = RevokedByCookie
  <2>1. Issued(cookie) /\ cookie \in Cookie
    BY FieldTypes DEF RInv, JarOK
  <2>2. cookie.sid # 0 /\ Secret(cookie) \in {"rotate", "replay"}
          => cookie.sid \in Sid /\ row[cookie.sid].status = "active"
    BY <2>1, SecretMeaning
  <2>3. RowsKept
    BY <1>5, <2>2, RevokedKept, RowsSame DEF RevokedByCookie
  <2> QED
    BY <1>2, <2>3, ReuseRevoke
<1>6. CASE row' # RevokedByCookie
  <2>1. RowsKept
    BY <1>3, <1>4, <1>6, RevokedKept, RowsSame
  <2> QED
    BY <1>2, <2>1, ReuseRevoke
<1> QED
  BY <1>5, <1>6

LEMMA ReuseQuiet ==
  ASSUME RInv, TInv, TInv', UNCHANGED <<run, holder, cookie, row, orphan>>
  PROVE  RInv'
  BY ReuseRevoke, RowsSame

LEMMA ReuseDeliver ==
  ASSUME RInv, TInv, TInv', NEW t \in Tab, Deliver(t)
  PROVE  RInv'
<1>1. CASE PageGone(t, Tail(events[t]))
  BY <1>1, ReusePageGone
<1>2. CASE run' = Bump(t) /\ UNCHANGED <<holder, cookie, row, orphan>>
  BY <1>2, ReuseBump
<1>3. CASE UNCHANGED <<run, holder, cookie, row, orphan>>
  BY <1>3, ReuseQuiet
<1> QED
  BY <1>1, <1>2, <1>3 DEF Deliver

LEMMA ReusePage ==
  ASSUME Orderly, RInv, TInv, TInv', NEW t \in Tab, PageStep(t)
  PROVE  RInv'
<1>1. CASE RetryAnswered(t)
  BY <1>1, ReuseBump, ReuseQuiet DEF RetryAnswered
<1>2. CASE ApplyLogin(t)
  BY <1>2, ReuseBump DEF ApplyLogin
<1>3. CASE SignOutMismatch(t)
  BY <1>3, ReuseRefreshing, ReuseQuiet DEF SignOutMismatch
<1>4. CASE SignOutDone(t)
  BY <1>4, ReuseBump DEF SignOutDone
<1> QED
  BY <1>1, <1>2, <1>3, <1>4, ReuseLockGranted, ReuseHandle, ReuseRaceDelayEnds, ReuseSignOut,
     ReuseDeliver DEF PageStep

LEMMA ReuseUser ==
  ASSUME Orderly, RInv, TInv, TInv', NEW t \in Tab, UserStep(t)
  PROVE  RInv'
<1>1. CASE Bootstrap(t)
  BY <1>1, ReuseRefreshing, ReuseQuiet DEF Bootstrap
<1>2. CASE GetFreshHeaders(t)
  BY <1>2, ReuseRefreshing DEF GetFreshHeaders
<1>3. CASE CallRejected(t)
  BY <1>3, ReuseRefreshing DEF CallRejected
<1> QED
  BY <1>1, <1>2, <1>3, ReuseSignIn, ReuseSignOut DEF UserStep

LEMMA ReuseWorld ==
  ASSUME RInv, TInv, TInv', NEW t \in Tab, World(t)
  PROVE  RInv'
<1>1. CASE Reload(t)
  BY <1>1, ReusePageGone DEF Reload
<1>2. CASE Expire(t)
  BY <1>2, ReuseQuiet DEF Expire
<1> QED
  BY <1>1, <1>2, ReuseFault, ReuseLookupFails DEF World

LEMMA ReuseInit ==
  ASSUME Init
  PROVE  RInv
  BY DEF Init, RInv, RunOK, JarOK, NoFalseReuse, Issued, Newer, NoRun, NoCookie

LEMMA ReuseStep ==
  ASSUME Orderly, RInv, TInv, TInv', [Next]_vars
  PROVE  RInv'
<1>1. CASE UNCHANGED vars
  BY <1>1, ReuseQuiet DEF vars
<1>2. ASSUME NEW s \in Sid, RevokeElsewhere(s)
      PROVE  RInv'
  BY <1>2, RevokedKept, ReuseRevoke DEF RevokeElsewhere
<1>3. ASSUME NEW s \in Sid, RevokeHalts(s) \/ FenceEnds(s)
      PROVE  RInv'
  <2>1. UNCHANGED <<run, holder, cookie, orphan>>
    BY <1>3 DEF RevokeHalts, FenceEnds
  <2> QED
    BY <1>3, <2>1, FenceKept, ReuseRevoke
<1> QED
  BY <1>1, <1>2, <1>3, ReusePage, ReuseServe, ReuseUser, ReuseWorld, ReuseServeOrphan, ReuseGraceEnds
     DEF Next

\* For any number of tabs and logins, and whatever is lost, refused, reloaded or
\* signed out in whatever order: as long as the browser grants its lock
\* exclusively and requests are served inside the replay window, no session is
\* revoked by RotateUserSessionRefresh for the reuse of a refresh secret.
THEOREM NoSessionLostToReuse == Orderly => (Spec => []NoFalseReuse)
<1> SUFFICES ASSUME Orderly
             PROVE  Spec => []NoFalseReuse
  OBVIOUS
<1>1. Init => TInv /\ RInv
  BY TypeInit, ReuseInit
<1>2. TInv /\ RInv /\ [Next]_vars => TInv' /\ RInv'
  BY TypeStep, ReuseStep
<1>3. TInv /\ RInv => NoFalseReuse
  BY DEF RInv
<1> QED
  BY <1>1, <1>2, <1>3, PTL DEF Spec

-----------------------------------------------------------------------------
(* The inductive invariant behind RejectionIsTrue and SessionCanContinue: as *)
(* above, and no answer of an earlier session is still under way when the    *)
(* next login is answered.                                                   *)

Calm == Orderly /\ "late" \notin Faults

\* The login the cookie of the browser belongs to, as long as it lasts and the
\* server has not denied it.
Alive(s) == Newest(s) /\ row[s].status = "active" /\ ~row[s].denied

\* Logins are numbered in the order in which they happen.
InOrder == \A s \in Sid : row[s].status = "none" => Newest(s)

\* What tab t has under way presents the cookie of the browser and does not take
\* it away.
KeepsJar(t) ==
  /\ run[t].pc = "sent" => run[t].cookie = cookie
  /\ run[t].pc = "served" =>
       /\ run[t].answer.kind # "unauthorized" /\ run[t].answer.set # "clear"
       /\ run[t].answer.set = "write" => run[t].answer.cookie.sid = cookie.sid
  /\ out[t].pc = "done" => ~out[t].clear

\* The browser holds the current secret of s, or the one before it while that is
\* still accepted.
HasSecret(s) ==
  /\ cookie.sid = s
  /\ cookie.n = row[s].cur \/ (cookie.n + 1 = row[s].cur /\ row[s].grace = TRUE)

Living(s) == HasSecret(s) /\ \A t \in Tab : KeepsJar(t)

LInv == InOrder /\ \A s \in Sid : Alive(s) => Living(s)

LEMMA AliveKept ==
  ASSUME LInv, RowsKept
  PROVE  InOrder' /\ \A s \in Sid : Alive(s)' => Alive(s)
  BY DEF LInv, InOrder, RowsKept, Alive, Newest

\* What a step that leaves the cookie alone does to the refresh of a tab, and to
\* its sign-out.
RunTame(t) ==
  \/ run'[t].pc \notin {"sent", "served"}
  \/ Alike(run'[t], run[t])
  \/ run'[t].pc = "sent" /\ run'[t].cookie = cookie
  \/ /\ run'[t].pc = "served" /\ run'[t].answer.set = "keep"
     /\ run'[t].answer.kind # "unauthorized"

OutTame(t) == out'[t] = out[t] \/ out'[t].pc # "done" \/ ~out'[t].clear

LEMMA TameKeeps ==
  ASSUME NEW t \in Tab, KeepsJar(t), cookie' = cookie, RunTame(t), OutTame(t)
  PROVE  KeepsJar(t)'
<1>1. out'[t].pc = "done" => ~out'[t].clear
  BY DEF KeepsJar, OutTame
<1>2. run'[t].pc = "sent" => run'[t].cookie = cookie
  BY DEF KeepsJar, RunTame, Alike
<1>3. run'[t].pc = "served" =>
        /\ run'[t].answer.kind # "unauthorized" /\ run'[t].answer.set # "clear"
        /\ run'[t].answer.set = "write" => run'[t].answer.cookie.sid = cookie.sid
  BY DEF KeepsJar, RunTame, Alike
<1> QED
  BY <1>1, <1>2, <1>3 DEF KeepsJar

LEMMA LiveTame ==
  ASSUME LInv, RowsKept, cookie' = cookie, \A t \in Tab : RunTame(t) /\ OutTame(t)
  PROVE  LInv'
<1>1. InOrder' /\ \A s \in Sid : Alive(s)' => Alive(s)
  BY AliveKept
<1>2. ASSUME NEW s \in Sid, Alive(s)'
      PROVE  Living(s)'
  <2>1. Living(s)
    BY <1>1, <1>2 DEF LInv
  <2>2. HasSecret(s)'
    BY <2>1 DEF Living, HasSecret, RowsKept
  <2>3. \A t \in Tab : KeepsJar(t)'
    BY <2>1, TameKeeps DEF Living
  <2> QED
    BY <2>2, <2>3 DEF Living
<1> QED
  BY <1>1, <1>2 DEF LInv

\* A step after which the newest session is over.
LEMMA LiveOver ==
  ASSUME LInv, RowsKept, \A s \in Sid : Alive(s) => row'[s].status # "active"
  PROVE  LInv'
<1>1. InOrder' /\ \A s \in Sid : Alive(s)' => Alive(s)
  BY AliveKept
<1>2. \A s \in Sid : ~Alive(s)'
  BY <1>1 DEF Alive
<1> QED
  BY <1>1, <1>2 DEF LInv

\* What the server decides about the cookie of the browser.
LEMMA LiveSecret ==
  ASSUME TInv, LInv, NEW s \in Sid, Alive(s)
  PROVE  cookie.sid = s /\ s # 0 /\ Secret(cookie) \in {"rotate", "replay"}
<1>1. /\ cookie.sid = s /\ s # 0 /\ row[s].status = "active"
      /\ cookie.n = row[s].cur \/ (cookie.n + 1 = row[s].cur /\ row[s].grace = TRUE)
  BY DEF LInv, Living, HasSecret, Alive, Sid
<1>2. cookie.n \in Nat /\ row[s].cur \in Nat
  BY FieldTypes, CookieFields
<1> QED
  BY <1>1, <1>2 DEF Secret

LEMMA LiveVerdict ==
  ASSUME TInv, LInv, NEW s \in Sid, Alive(s), NEW e
  PROVE  Verdict(cookie, e) \in {"mismatch", "rotate", "replay", "denied"}
  BY LiveSecret DEF Verdict

\* The refresh under way presents the cookie of the browser: when it is denied, no
\* session that was not denied is left.
LEMMA LiveDenied ==
  ASSUME LInv, TInv, NEW t \in Tab, run[t].pc = "sent", run[t].cookie.sid \in Sid,
         row' = Denied(run[t].cookie.sid)
  PROVE  LInv'
<1>1. RowsKept
  BY DeniedKept
<1>2. InOrder' /\ \A s \in Sid : Alive(s)' => Alive(s)
  BY <1>1, AliveKept
<1>3. row'[run[t].cookie.sid].denied
  BY DeniedType DEF TInv, TypeOK
<1>4. ASSUME NEW s \in Sid, Alive(s)
      PROVE  run[t].cookie.sid = s
  BY <1>4 DEF LInv, Living, KeepsJar, HasSecret
<1>5. \A s \in Sid : ~Alive(s)'
  BY <1>2, <1>3, <1>4 DEF Alive
<1> QED
  BY <1>2, <1>5 DEF LInv

LEMMA LiveServe ==
  ASSUME LInv, RInv, TInv, TInv', NEW t \in Tab, Serve(t)
  PROVE  LInv'
<1> DEFINE c == run[t].cookie
           v == Verdict(c, run[t].expect)
           a == AnswerTo(c, v)
<1>1. c \in Cookie /\ run[t].pc = "sent"
  BY FieldTypes DEF Serve
<1>2. holder = t /\ Issued(c)
  BY <1>1 DEF RInv, RunOK
<1>3. /\ v # "reuse" /\ (v = "denied" => c.sid \in Sid)
      /\ v = "rotate" => c.sid \in Sid /\ row[c.sid].status = "active" /\ c.n = row[c.sid].cur
  BY <1>1, <1>2, VerdictMeaning
<1>4. /\ row' = IF v = "denied" THEN Denied(c.sid) ELSE Rotated(c, v)
      /\ UNCHANGED <<out, cookie>>
  BY DEF Serve
<1>d. CASE v = "denied"
  BY <1>1, <1>3, <1>4, <1>d, LiveDenied
<1>r. SUFFICES ASSUME v # "denied"
               PROVE  LInv'
  BY <1>d
<1>5. /\ run'[t].pc = "served" /\ run'[t].answer = a
      /\ \A u \in Tab : u # t => run'[u] = run[u]
  <2>1. run' = [run EXCEPT ![t] = Reply(run[t], a)]
    BY DEF Serve
  <2>2. ASSUME NEW r \in Run, NEW b
        PROVE  Reply(r, b).pc = "served" /\ Reply(r, b).answer = b
    BY DEF Reply, Run
  <2> QED
    BY <2>1, <2>2 DEF TInv, TypeOK
<1>6. /\ v \in {"rotate", "replay"} => a.kind = "ok" /\ a.set = "write" /\ a.cookie.sid = c.sid
      /\ v = "mismatch" => a.kind = "mismatch" /\ a.set = "keep"
  <2>1. v \in {"rotate", "replay"} => a.cookie.sid = c.sid
    BY <1>1, AnswerMeaning
  <2>2. v \in {"rotate", "replay"} => a.kind = "ok" /\ a.set = "write"
    BY DEF AnswerTo
  <2>3. v = "mismatch" => a.kind = "mismatch" /\ a.set = "keep"
    BY DEF AnswerTo
  <2> QED
    BY <2>1, <2>2, <2>3
<1>7. ASSUME NEW s \in Sid, Alive(s)
      PROVE  c = cookie /\ v \in {"mismatch", "rotate", "replay"} /\ cookie.sid = s
  <2>1. c = cookie /\ cookie.sid = s
    BY <1>1, <1>7 DEF LInv, Living, KeepsJar, HasSecret
  <2> QED
    BY <1>7, <1>r, <2>1, LiveVerdict
<1>8. /\ \A s \in Sid : s # c.sid => row'[s] = row[s]
      /\ v = "rotate" => /\ row'[c.sid].status = "active" /\ row'[c.sid].grace = TRUE
                         /\ row'[c.sid].cur = row[c.sid].cur + 1
                         /\ row'[c.sid].denied = row[c.sid].denied
      /\ v # "rotate" => row' = row
  <2>1. CASE v = "rotate"
    <3>1. row' = Rotated(c, v)
      BY <1>4, <1>r
    <3> QED
      BY <1>1, <1>3, <2>1, <3>1, RowRotated, Zenon
  <2>2. CASE v # "rotate"
    BY <1>3, <1>4, <1>r, <2>2 DEF Rotated
  <2> QED
    BY <2>1, <2>2
<1> HIDE DEF a, v, c
<1>9. InOrder' /\ \A s \in Sid : Alive(s)' => Alive(s)
  <2>1. \A s \in Sid : row'[s].status = row[s].status /\ row'[s].denied = row[s].denied
    BY <1>3, <1>8
  <2> QED
    BY <2>1 DEF LInv, InOrder, Alive, Newest
<1>10. ASSUME NEW s \in Sid, Alive(s)'
       PROVE  Living(s)'
  <2>1. Alive(s) /\ Living(s)
    BY <1>9, <1>10 DEF LInv
  <2>2. HasSecret(s)'
    BY <1>3, <1>4, <1>7, <1>8, <2>1, FieldTypes DEF Living, HasSecret
  <2>3. ASSUME NEW u \in Tab, u # t
        PROVE  KeepsJar(u)'
    BY <1>4, <1>5, <2>1, <2>3 DEF Living, KeepsJar
  <2>4. KeepsJar(t)'
    BY <1>4, <1>5, <1>6, <1>7, <2>1 DEF Living, KeepsJar
  <2> QED
    BY <2>2, <2>3, <2>4 DEF Living
<1> QED
  BY <1>9, <1>10 DEF LInv

\* A request of a closed page presents no newer secret than the browser's.
LEMMA LiveServeOrphan ==
  ASSUME LInv, RInv, TInv, TInv', NEW c \in orphan, ServeOrphan(c)
  PROVE  LInv'
<1> DEFINE v == Verdict(c, 0)
<1>1. c \in Cookie /\ Issued(c)
  BY FieldTypes DEF RInv, JarOK
<1>2. /\ v # "reuse"
      /\ v = "rotate" => c.sid \in Sid /\ row[c.sid].status = "active" /\ c.n = row[c.sid].cur
  BY <1>1, VerdictMeaning
<1>3. /\ UNCHANGED <<run, out, cookie>>
      /\ row' = row \/ row' = Rotated(c, v)
  BY DEF ServeOrphan
<1> HIDE DEF v
<1>4. CASE row' = row
  <2>1. \A t \in Tab : RunTame(t) /\ OutTame(t)
    BY <1>3 DEF RunTame, OutTame, Alike
  <2> QED
    BY <1>3, <1>4, <2>1, RowsSame, LiveTame
<1>5. CASE row' # row
  <2>1. v = "rotate" /\ row' = Rotated(c, v)
    BY <1>2, <1>3, <1>5 DEF Rotated
  <2>2. /\ row'[c.sid].status = "active" /\ row'[c.sid].grace = TRUE
        /\ row'[c.sid].cur = row[c.sid].cur + 1 /\ row'[c.sid].denied = row[c.sid].denied
        /\ \A s \in Sid : s # c.sid => row'[s] = row[s]
    BY <1>1, <1>2, <2>1, RowRotated, Zenon
  <2>3. InOrder' /\ \A s \in Sid : Alive(s)' => Alive(s)
    <3>1. \A s \in Sid : row'[s].status = row[s].status /\ row'[s].denied = row[s].denied
      BY <1>2, <2>1, <2>2
    <3> QED
      BY <3>1 DEF LInv, InOrder, Alive, Newest
  <2>4. ASSUME NEW s \in Sid, Alive(s)'
        PROVE  Living(s)'
    <3>1. Living(s)
      BY <2>3, <2>4 DEF LInv
    <3>2. \A t \in Tab : KeepsJar(t)'
      BY <1>3, <3>1 DEF Living, KeepsJar
    <3>3. CASE s = c.sid
      <4>1. cookie.sid = s /\ s # 0 /\ cookie.n \in Nat /\ c.n \in Nat /\ row[s].cur \in Nat
        BY <1>1, <3>1, FieldTypes, CookieFields DEF Living, HasSecret, Sid
      <4>2. c.n <= cookie.n
        BY <3>3, <4>1 DEF RInv, JarOK, Newer
      <4>3. cookie.n = row[s].cur
        BY <1>2, <2>1, <3>1, <3>3, <4>1, <4>2 DEF Living, HasSecret
      <4>4. HasSecret(s)'
        BY <1>3, <2>2, <3>3, <4>1, <4>3 DEF HasSecret
      <4> QED
        BY <3>2, <4>4 DEF Living
    <3>4. CASE s # c.sid
      <4>1. HasSecret(s)'
        BY <1>3, <2>2, <3>1, <3>4 DEF Living, HasSecret
      <4> QED
        BY <3>2, <4>1 DEF Living
    <3> QED
      BY <3>3, <3>4
  <2> QED
    BY <2>3, <2>4 DEF LInv
<1> QED
  BY <1>4, <1>5

LEMMA LiveGraceEnds ==
  ASSUME Orderly, LInv, RInv, TInv, TInv', NEW s \in Sid, GraceEnds(s)
  PROVE  LInv'
<1> DEFINE last == [sid |-> s, n |-> row[s].cur - 1]
<1>1. /\ ~Presents(last)
      /\ UNCHANGED <<run, out, cookie>>
      /\ \A r \in Sid : row'[r].cur = row[r].cur /\ row'[r].status = row[r].status
      /\ \A r \in Sid : row'[r].denied = row[r].denied
      /\ \A r \in Sid : r # s => row'[r] = row[r]
  BY DEF GraceEnds, Orderly, TInv, TypeOK, Row
<1>2. InOrder' /\ \A r \in Sid : Alive(r)' => Alive(r)
  BY <1>1 DEF LInv, InOrder, Alive, Newest
<1>3. ASSUME NEW r \in Sid, Alive(r)'
      PROVE  Living(r)'
  <2>1. Living(r)
    BY <1>2, <1>3 DEF LInv
  <2>2. \A t \in Tab : KeepsJar(t)'
    BY <1>1, <2>1 DEF Living, KeepsJar
  <2>3. CASE r = s
    <3>1. cookie = [sid |-> s, n |-> cookie.n] /\ cookie.n \in Nat /\ row[s].cur \in Nat
      BY <2>1, <2>3, FieldTypes, CookieFields DEF Living, HasSecret
    <3>2. cookie # last
      BY <1>1 DEF Presents
    <3>3. cookie.n + 1 # row[s].cur
      BY <3>1, <3>2
    <3>4. HasSecret(r)'
      BY <1>1, <2>1, <2>3, <3>3 DEF Living, HasSecret
    <3> QED
      BY <2>2, <3>4 DEF Living
  <2>4. CASE r # s
    <3>1. HasSecret(r)'
      BY <1>1, <2>1, <2>4 DEF Living, HasSecret
    <3> QED
      BY <2>2, <3>1 DEF Living
  <2> QED
    BY <2>3, <2>4
<1> QED
  BY <1>2, <1>3 DEF LInv

\* The next login takes over the cookie when no answer is under way that could
\* replace it.
LEMMA LiveSignIn ==
  ASSUME Calm, LInv, TInv, TInv', NEW t \in Tab, SignIn(t)
  PROVE  LInv'
<1>1. PICK s \in Sid :
        /\ row[s].status = "none"
        /\ \A r \in Sid : r < s => row[r].status # "none"
        /\ row' = [row EXCEPT ![s] = [status |-> "active", cur |-> 0, grace |-> FALSE,
                                      fence |-> FALSE, denied |-> FALSE]]
        /\ cookie' = [sid |-> s, n |-> 0]
  BY DEF SignIn
<1>2. ~AnswerUnderWay /\ UNCHANGED <<run, out>>
  BY DEF SignIn, Calm
<1>3. /\ \A r \in Sid : r # s => row'[r] = row[r]
      /\ row'[s].status = "active" /\ row'[s].cur = 0
  BY <1>1 DEF TInv, TypeOK
<1>4. \A r \in Sid : r > s => row[r].status = "none"
  BY <1>1 DEF LInv, InOrder, Newest
<1>5. InOrder'
  <2> SUFFICES ASSUME NEW r \in Sid, row'[r].status = "none", NEW q \in Sid, q > r
               PROVE  row'[q].status = "none"
    BY DEF InOrder, Newest
  <2>1. r # s /\ row[r].status = "none"
    BY <1>3
  <2>2. r > s
    BY <1>1, <2>1 DEF Sid
  <2>3. q > s /\ q # s
    BY <2>2 DEF Sid
  <2> QED
    BY <1>3, <1>4, <2>3
<1>6. \A r \in Sid : Alive(r)' => r = s
  BY <1>3, <1>4 DEF Alive, Newest, Sid
<1>7. HasSecret(s)'
  BY <1>1, <1>3 DEF HasSecret
<1>8. \A u \in Tab : KeepsJar(u)'
  BY <1>2 DEF AnswerUnderWay, KeepsJar
<1> QED
  BY <1>5, <1>6, <1>7, <1>8 DEF LInv, Living

\* The browser handles an answer, and the refresh of t ends or goes on.
LEMMA LiveAnswered ==
  ASSUME LInv, RInv, TInv, TInv', NEW t \in Tab, Answered(t), row' = row,
         \A u \in Tab : u # t => run'[u] = run[u],
         \/ run'[t].pc \notin {"sent", "served"}
         \/ run'[t].pc = "sent" /\ run'[t].cookie = cookie /\ run[t].answer.set # "write",
         \A u \in Tab : OutTame(u)
  PROVE  LInv'
<1>1. run[t].pc = "served" /\ cookie' = CookieAfter(run[t].answer) /\ holder = t
  BY DEF Answered, RInv, RunOK
<1>2. CASE run[t].answer.set = "write"
  <2>1. InOrder' /\ \A s \in Sid : Alive(s)' => Alive(s)
    BY RowsSame, AliveKept
  <2>2. cookie' = run[t].answer.cookie
    BY <1>1, <1>2 DEF CookieAfter
  <2>3. ASSUME NEW s \in Sid, Alive(s)'
        PROVE  Living(s)'
    <3>1. Living(s)
      BY <2>1, <2>3 DEF LInv
    <3>2. run[t].answer.cookie.sid = s /\ cookie.sid = s
      BY <1>1, <1>2, <3>1 DEF Living, KeepsJar, HasSecret
    <3>3. run[t].answer.cookie.n = row[s].cur
      BY <1>1, <1>2, <3>2 DEF RInv, RunOK
    <3>4. HasSecret(s)'
      BY <2>2, <3>2, <3>3 DEF HasSecret
    <3>5. \A u \in Tab : run'[u].pc \notin {"sent", "served"}
      BY <1>1, <1>2, OneBusy DEF Busy
    <3>6. \A u \in Tab : out'[u].pc = "done" => ~out'[u].clear
      BY <3>1 DEF Living, KeepsJar, OutTame
    <3> QED
      BY <3>4, <3>5, <3>6 DEF Living, KeepsJar
  <2> QED
    BY <2>1, <2>3 DEF LInv
<1>3. CASE run[t].answer.set = "clear"
  <2>1. \A s \in Sid : ~Alive(s)
    BY <1>1, <1>3 DEF LInv, Living, KeepsJar
  <2> QED
    BY <2>1, RowsSame, LiveOver
<1>4. CASE run[t].answer.set \notin {"write", "clear"}
  <2>1. cookie' = cookie
    BY <1>1, <1>4 DEF CookieAfter
  <2>2. \A u \in Tab : RunTame(u)
    BY DEF RunTame, Alike
  <2> QED
    BY <2>1, <2>2, RowsSame, LiveTame
<1> QED
  BY <1>2, <1>3, <1>4

\* A sign-out that waited for a refresh does not take the cookie away.
LEMMA OutAfterTame ==
  ASSUME TInv, NEW t \in Tab, NEW outcome, out' = OutAfter(t, outcome)
  PROVE  \A u \in Tab : OutTame(u)
  BY DEF OutAfter, OutTame, NoOut, TInv, TypeOK

LEMMA OutSame ==
  ASSUME out' = out
  PROVE  \A u \in Tab : OutTame(u)
  BY DEF OutTame

LEMMA LiveSettled ==
  ASSUME LInv, RInv, TInv, TInv', NEW t \in Tab, Answered(t), NEW outcome, NEW s,
         Settle(t, outcome, s), row' = row
  PROVE  LInv'
<1>1. run'[t].pc = "none" /\ \A u \in Tab : u # t => run'[u] = run[u]
  BY DEF Settle, TInv, TypeOK, NoRun
<1>2. \A u \in Tab : OutTame(u)
  BY OutAfterTame DEF Settle
<1> QED
  BY <1>1, <1>2, LiveAnswered

LEMMA LiveHandle ==
  ASSUME LInv, RInv, TInv, TInv', NEW t \in Tab, Handle(t)
  PROVE  LInv'
<1>1. CASE Superseded(t)
  BY <1>1, LiveSettled DEF Superseded
<1>2. CASE Accept(t)
  BY <1>2, LiveSettled DEF Accept, HandleAnswer
<1>3. CASE Raced(t)
  <2>1. CASE run[t].race < RaceDelays
    <3>1. /\ run' = [run EXCEPT ![t].pc = "waiting"]
          /\ UNCHANGED <<out, row>> /\ Answered(t)
      BY <1>3, <2>1 DEF Raced, HandleAnswer
    <3>2. run'[t].pc = "waiting" /\ \A u \in Tab : u # t => run'[u] = run[u]
      BY <3>1 DEF TInv, TypeOK, Run
    <3> QED
      BY <3>1, <3>2, OutSame, LiveAnswered
  <2>2. CASE ~(run[t].race < RaceDelays)
    BY <1>3, <2>2, LiveSettled DEF Raced, HandleAnswer
  <2> QED
    BY <2>1, <2>2
<1>4. CASE Mismatched(t)
  <2>1. CASE run[t].retry
    <3> DEFINE r0 == [run[t] EXCEPT !.race = 0, !.retry = FALSE]
               r == Requested(r0, 0)
    <3>1. r0 \in Run
      BY RetryType DEF TInv, TypeOK
    <3>2. r.pc = "sent" /\ r.cookie = cookie
      BY <3>1, RequestedFields
    <3>3. run' = [run EXCEPT ![t] = r] /\ UNCHANGED <<out, row>>
      BY <1>4, <2>1 DEF Mismatched
    <3>4. Answered(t) /\ run[t].answer.set # "write"
      BY <1>4, NoSecret DEF Mismatched, HandleAnswer
    <3> HIDE DEF r
    <3>5. /\ run'[t].pc = "sent" /\ run'[t].cookie = cookie
          /\ \A u \in Tab : u # t => run'[u] = run[u]
      BY <3>2, <3>3 DEF TInv, TypeOK
    <3> QED
      BY <3>3, <3>4, <3>5, OutSame, LiveAnswered
  <2>2. CASE ~run[t].retry
    BY <1>4, <2>2, LiveSettled DEF Mismatched, HandleAnswer
  <2> QED
    BY <2>1, <2>2
<1>5. CASE Unauthorized(t)
  BY <1>5, LiveSettled DEF Unauthorized, HandleAnswer
<1>6. CASE Transient(t)
  BY <1>6, LiveSettled DEF Transient, HandleAnswer
<1>7. CASE Unexpected(t)
  BY <1>7, LiveSettled DEF Unexpected, HandleAnswer
<1> QED
  BY <1>1, <1>2, <1>3, <1>4, <1>5, <1>6, <1>7 DEF Handle

\* A step of t that at most starts a refresh, with the cookie of the browser, or
\* marks one as outdated.
LEMMA LiveRun ==
  ASSUME LInv, UNCHANGED <<row, cookie>>, \A u \in Tab : RunTame(u),
         \A u \in Tab : OutTame(u)
  PROVE  LInv'
  BY RowsSame, LiveTame

LEMMA RunSame ==
  ASSUME run' = run
  PROVE  \A u \in Tab : RunTame(u)
  BY DEF RunTame, Alike

LEMMA BumpTame ==
  ASSUME TInv, NEW t \in Tab, run' = Bump(t)
  PROVE  \A u \in Tab : RunTame(u)
  BY BumpType DEF RunTame, TInv

LEMMA RefreshingTame ==
  ASSUME Orderly, TInv, NEW t \in Tab, run' = Refreshing(t)
  PROVE  \A u \in Tab : RunTame(u)
<1> SUFFICES ASSUME NEW u \in Tab PROVE RunTame(u)
  OBVIOUS
<1>1. run' = run \/ run' = [run EXCEPT ![t] = [NoRun EXCEPT !.pc = "queued"]]
  BY DEF Refreshing, Orderly
<1>2. run'[u] = run[u] \/ run'[u].pc = "queued"
  BY <1>1 DEF TInv, TypeOK, NoRun
<1> QED
  BY <1>2 DEF RunTame, Alike

LEMMA EntryTame ==
  ASSUME TInv, NEW t \in Tab, NEW r, run' = [run EXCEPT ![t] = r],
         r.pc \notin {"sent", "served"} \/ (r.pc = "sent" /\ r.cookie = cookie)
  PROVE  \A u \in Tab : RunTame(u)
<1> SUFFICES ASSUME NEW u \in Tab PROVE RunTame(u)
  OBVIOUS
<1>1. run'[u] = run[u] \/ run'[u] = r
  BY DEF TInv, TypeOK
<1> QED
  BY <1>1 DEF RunTame, Alike

LEMMA SettleTame ==
  ASSUME TInv, NEW t \in Tab, NEW outcome, NEW s, Settle(t, outcome, s)
  PROVE  (\A u \in Tab : RunTame(u)) /\ (\A u \in Tab : OutTame(u))
<1>1. run' = [run EXCEPT ![t] = NoRun] /\ NoRun.pc = "none"
  BY DEF Settle, NoRun
<1>2. \A u \in Tab : RunTame(u)
  BY <1>1, EntryTame
<1> QED
  BY <1>2, OutAfterTame DEF Settle

LEMMA LiveLockGranted ==
  ASSUME LInv, TInv, TInv', NEW t \in Tab, LockGranted(t)
  PROVE  LInv'
<1>1. UNCHANGED <<row, cookie>>
  BY DEF LockGranted
<1>2. CASE run[t].current
  <2> DEFINE r == Requested(run[t], store[t].sid)
  <2>1. r.pc = "sent" /\ r.cookie = cookie
    BY RequestedFields DEF TInv, TypeOK
  <2>2. run' = [run EXCEPT ![t] = r] /\ out' = out
    BY <1>2 DEF LockGranted
  <2> HIDE DEF r
  <2>3. \A u \in Tab : RunTame(u)
    BY <2>1, <2>2, EntryTame
  <2> QED
    BY <1>1, <2>2, <2>3, OutSame, LiveRun
<1>3. CASE ~run[t].current
  BY <1>1, <1>3, SettleTame, LiveRun DEF LockGranted
<1> QED
  BY <1>2, <1>3

LEMMA LiveRaceDelayEnds ==
  ASSUME LInv, TInv, TInv', NEW t \in Tab, RaceDelayEnds(t)
  PROVE  LInv'
<1>1. UNCHANGED <<row, cookie>>
  BY DEF RaceDelayEnds
<1>2. CASE run[t].current
  <2> DEFINE r0 == [run[t] EXCEPT !.race = run[t].race + 1]
             r == Requested(r0, store[t].sid)
  <2>1. r0 \in Run
    BY RaceType DEF RaceDelayEnds, TInv, TypeOK, RaceOK
  <2>2. r.pc = "sent" /\ r.cookie = cookie
    BY <2>1, RequestedFields
  <2>3. run' = [run EXCEPT ![t] = r] /\ out' = out
    BY <1>2 DEF RaceDelayEnds
  <2> HIDE DEF r
  <2>4. \A u \in Tab : RunTame(u)
    BY <2>2, <2>3, EntryTame
  <2> QED
    BY <1>1, <2>3, <2>4, OutSame, LiveRun
<1>3. CASE ~run[t].current
  BY <1>1, <1>3, SettleTame, LiveRun DEF RaceDelayEnds
<1> QED
  BY <1>2, <1>3

LEMMA LiveFault ==
  ASSUME LInv, TInv, TInv', NEW t \in Tab, NEW kind \in {"failed", "odd", "race"},
         ServeFault(t, kind) \/ LoseAnswer(t)
  PROVE  LInv'
<1>1. /\ run'[t].pc = "served" /\ run'[t].answer.set = "keep"
      /\ run'[t].answer.kind # "unauthorized"
      /\ \A u \in Tab : u # t => run'[u] = run[u]
  <2>1. CASE ServeFault(t, kind)
    <3> DEFINE a == [NoAnswer EXCEPT !.kind = kind]
    <3>1. a.set = "keep" /\ a.kind # "unauthorized"
      BY DEF NoAnswer
    <3>2. run' = [run EXCEPT ![t] = Reply(run[t], a)]
      BY <2>1 DEF ServeFault
    <3> HIDE DEF a
    <3>3. ASSUME NEW r \in Run
          PROVE  Reply(r, a).pc = "served" /\ Reply(r, a).answer = a
      BY DEF Reply, Run
    <3> QED
      BY <3>1, <3>2, <3>3 DEF TInv, TypeOK
  <2>2. CASE LoseAnswer(t)
    BY <2>2 DEF LoseAnswer, NoAnswer, TInv, TypeOK, Run
  <2> QED
    BY <2>1, <2>2
<1>2. UNCHANGED <<out, cookie, row>>
  BY DEF ServeFault, LoseAnswer
<1>3. \A u \in Tab : RunTame(u)
  BY <1>1 DEF RunTame, Alike
<1> QED
  BY <1>2, <1>3, OutSame, LiveRun

LEMMA LivePageGone ==
  ASSUME LInv, TInv, TInv', NEW t \in Tab, NEW q, PageGone(t, q)
  PROVE  LInv'
<1>1. /\ run' = [run EXCEPT ![t] = NoRun] /\ NoRun.pc = "none"
      /\ out' = [out EXCEPT ![t] = NoOut]
      /\ UNCHANGED <<cookie, row>>
  BY DEF PageGone, NoRun
<1>2. \A u \in Tab : RunTame(u)
  BY <1>1, EntryTame
<1>3. \A u \in Tab : OutTame(u)
  BY <1>1 DEF OutTame, NoOut, TInv, TypeOK
<1> QED
  BY <1>1, <1>2, <1>3, LiveRun

\* A sign-out that is told to clear the cookie has ended the newest session.
LEMMA LiveSignOut ==
  ASSUME LInv, RInv, TInv, TInv', NEW t \in Tab, SignOut(t) \/ SignOutAgain(t)
  PROVE  LInv'
<1> DEFINE s == store[t].sid
<1>1. PICK second \in BOOLEAN : AskSignOut(t, second)
  BY DEF SignOut, SignOutAgain
<1>2. UNCHANGED <<run, cookie>>
  BY DEF SignOut, SignOutAgain
<1>3. s # 0 => s \in Sid
  BY DEF TInv, TypeOK
<1>4. cookie \in Cookie /\ Issued(cookie)
  BY FieldTypes DEF RInv, JarOK
<1>5. CASE s # 0 /\ cookie.sid \notin {0, s}
  <2>1. row' = row /\ \E r : r.pc = "mismatch" /\ out' = [out EXCEPT ![t] = r]
    BY <1>1, <1>5 DEF AskSignOut
  <2>2. \A u \in Tab : OutTame(u)
    BY <2>1 DEF OutTame, TInv, TypeOK
  <2> QED
    BY <1>2, <2>1, <2>2, RunSame, LiveRun
<1>6. CASE ~(s # 0 /\ cookie.sid \notin {0, s}) /\ s # 0 /\ store[t].fresh
  <2>1. row' = IF row[s].status = "active" THEN Revoked(s) ELSE row
    BY <1>1, <1>6 DEF AskSignOut
  <2>2. RowsKept
    BY <1>3, <1>6, <2>1, RevokedKept, RowsSame
  <2>3. row'[s].status # "active"
    BY <1>3, <1>6, <2>1, RevokedKept
  <2>4. \A x \in Sid : Alive(x) => x = s
    BY <1>6 DEF LInv, Living, HasSecret, Sid
  <2> QED
    BY <2>2, <2>3, <2>4, LiveOver
<1>7. CASE ~(s # 0 /\ cookie.sid \notin {0, s}) /\ ~(s # 0 /\ store[t].fresh)
  <2>1. row' = RevokedByCookie
    BY <1>1, <1>7 DEF AskSignOut
  <2>2. cookie.sid # 0 /\ Secret(cookie) \in {"rotate", "replay"}
          => cookie.sid \in Sid /\ row[cookie.sid].status = "active"
    BY <1>4, SecretMeaning
  <2>3. RowsKept
    BY <2>1, <2>2, RevokedKept, RowsSame DEF RevokedByCookie
  <2>4. ASSUME NEW x \in Sid, Alive(x)
        PROVE  row'[x].status # "active"
    <3>1. cookie.sid = x /\ x # 0 /\ Secret(cookie) \in {"rotate", "replay"}
      BY <2>4, LiveSecret
    <3>2. row' = Revoked(x) /\ row[x].status = "active"
      BY <2>1, <2>2, <3>1 DEF RevokedByCookie
    <3> QED
      BY <3>2, RevokedKept
  <2> QED
    BY <2>3, <2>4, LiveOver
<1> QED
  BY <1>5, <1>6, <1>7

LEMMA LiveSignOutDone ==
  ASSUME LInv, TInv, TInv', NEW t \in Tab, SignOutDone(t)
  PROVE  LInv'
<1>1. /\ out[t].pc = "done" /\ out' = [out EXCEPT ![t] = NoOut] /\ run' = Bump(t)
      /\ row' = row
  BY DEF SignOutDone
<1>2. CASE out[t].clear
  <2>1. \A s \in Sid : ~Alive(s)
    BY <1>1, <1>2 DEF LInv, Living, KeepsJar
  <2> QED
    BY <1>1, <2>1, RowsSame, LiveOver
<1>3. CASE ~out[t].clear
  <2>1. cookie' = cookie
    BY <1>3 DEF SignOutDone
  <2>2. \A u \in Tab : OutTame(u)
    BY <1>1 DEF OutTame, NoOut, TInv, TypeOK
  <2> QED
    BY <1>1, <2>1, <2>2, BumpTame, LiveRun
<1> QED
  BY <1>2, <1>3

LEMMA LiveSignOutMismatch ==
  ASSUME Orderly, LInv, TInv, TInv', NEW t \in Tab, SignOutMismatch(t)
  PROVE  LInv'
<1>1. \A u \in Tab : RunTame(u)
  BY RefreshingTame, RunSame DEF SignOutMismatch
<1>2. \A u \in Tab : OutTame(u)
  <2>1. out' = [out EXCEPT ![t] = NoOut] \/ out' = [out EXCEPT ![t].pc = "refreshing"]
    BY DEF SignOutMismatch
  <2>2. \A u \in Tab : out'[u] = out[u] \/ out'[u].pc # "done"
    BY <2>1 DEF NoOut, TInv, TypeOK, Out
  <2> QED
    BY <2>2 DEF OutTame
<1> QED
  BY <1>1, <1>2, LiveRun DEF SignOutMismatch

LEMMA LiveDeliver ==
  ASSUME LInv, TInv, TInv', NEW t \in Tab, Deliver(t)
  PROVE  LInv'
<1>1. CASE PageGone(t, Tail(events[t]))
  BY <1>1, LivePageGone
<1>2. CASE run' = Bump(t) /\ UNCHANGED <<out, cookie, row>>
  BY <1>2, BumpTame, OutSame, LiveRun
<1>3. CASE UNCHANGED <<run, out, cookie, row>>
  BY <1>3, RunSame, OutSame, LiveRun
<1> QED
  BY <1>1, <1>2, <1>3 DEF Deliver

LEMMA LivePage ==
  ASSUME Calm, LInv, RInv, TInv, TInv', NEW t \in Tab, PageStep(t)
  PROVE  LInv'
<1>1. CASE RetryAnswered(t)
  BY <1>1, BumpTame, RunSame, OutSame, LiveRun DEF RetryAnswered
<1>2. CASE ApplyLogin(t)
  BY <1>2, BumpTame, OutSame, LiveRun DEF ApplyLogin
<1> QED
  BY <1>1, <1>2, LiveLockGranted, LiveHandle, LiveRaceDelayEnds, LiveSignOut,
     LiveSignOutMismatch, LiveSignOutDone, LiveDeliver DEF PageStep, Calm

LEMMA LiveUser ==
  ASSUME Calm, LInv, RInv, TInv, TInv', NEW t \in Tab, UserStep(t)
  PROVE  LInv'
<1> Orderly
  BY DEF Calm
<1>1. CASE Bootstrap(t)
  BY <1>1, RefreshingTame, RunSame, OutSame, LiveRun DEF Bootstrap
<1>2. CASE GetFreshHeaders(t)
  BY <1>2, RefreshingTame, OutSame, LiveRun DEF GetFreshHeaders
<1>3. CASE CallRejected(t)
  BY <1>3, RefreshingTame, OutSame, LiveRun DEF CallRejected
<1> QED
  BY <1>1, <1>2, <1>3, LiveSignIn, LiveSignOut DEF UserStep

LEMMA LiveWorld ==
  ASSUME LInv, TInv, TInv', NEW t \in Tab, World(t)
  PROVE  LInv'
<1>1. CASE Reload(t)
  BY <1>1, LivePageGone DEF Reload
<1>2. CASE Expire(t)
  BY <1>2, RunSame, OutSame, LiveRun DEF Expire
<1>3. CASE ServeLookupFails(t)
  <2>1. run[t].pc = "sent" /\ run[t].cookie.sid # 0 /\ row' = Denied(run[t].cookie.sid)
    BY <1>3 DEF ServeLookupFails
  <2>2. run[t].cookie.sid \in Sid
    BY <2>1, FieldTypes, CookieFields
  <2> QED
    BY <2>1, <2>2, LiveDenied
<1> QED
  BY <1>1, <1>2, <1>3, LiveFault DEF World

LEMMA LiveInit ==
  ASSUME Init
  PROVE  LInv
  BY DEF Init, LInv, InOrder, Alive, Newest

LEMMA LiveStep ==
  ASSUME Calm, LInv, RInv, TInv, TInv', [Next]_vars
  PROVE  LInv'
<1>1. CASE UNCHANGED vars
  BY <1>1, RunSame, OutSame, LiveRun DEF vars
<1>2. ASSUME NEW s \in Sid, RevokeElsewhere(s)
      PROVE  LInv'
  <2>1. RowsKept /\ UNCHANGED <<run, out, cookie>>
    BY <1>2, RevokedKept DEF RevokeElsewhere
  <2> QED
    BY <2>1, RunSame, OutSame, LiveTame
<1>3. ASSUME NEW s \in Sid, RevokeHalts(s) \/ FenceEnds(s)
      PROVE  LInv'
  <2>1. RowsKept /\ UNCHANGED <<run, out, cookie>>
    BY <1>3, FenceKept DEF RevokeHalts, FenceEnds
  <2> QED
    BY <2>1, RunSame, OutSame, LiveTame
<1> QED
  BY <1>1, <1>2, <1>3, LivePage, LiveServe, LiveUser, LiveWorld, LiveServeOrphan, LiveGraceEnds
     DEF Next, Calm

LEMMA LiveSpec ==
  ASSUME Calm
  PROVE  Spec => [](TInv /\ LInv)
<1>1. Init => TInv /\ RInv /\ LInv
  BY TypeInit, ReuseInit, LiveInit
<1>2. TInv /\ RInv /\ LInv /\ [Next]_vars => TInv' /\ RInv' /\ LInv'
  BY TypeStep, ReuseStep, LiveStep DEF Calm
<1> QED
  BY <1>1, <1>2, PTL DEF Spec

\* For any number of tabs and logins: as long as the browser grants its lock
\* exclusively, requests are served inside the replay window and a login is
\* answered after what the earlier session asked for, a 401 that would end the
\* newest session in every tab is only under way once the server has ended it, or
\* has itself denied it while it was active: a lookup that failed, or the deny fence
\* of a revocation that did not commit. That no lookup fails is not assumed.
THEOREM RejectionsAreTrue == Calm => (Spec => []RejectionIsTrue)
<1> SUFFICES ASSUME Calm
             PROVE  Spec => []RejectionIsTrue
  OBVIOUS
<1>1. TInv /\ LInv => RejectionIsTrue
  <2> SUFFICES ASSUME TInv, LInv, NEW t \in Tab, run[t].pc = "served",
                      run[t].answer.kind = "unauthorized", store[t].sid # 0,
                      Newest(store[t].sid), row[store[t].sid].status = "active",
                      ~row[store[t].sid].denied
               PROVE  FALSE
    BY DEF RejectionIsTrue
  <2>1. store[t].sid \in Sid
    BY DEF TInv, TypeOK
  <2>2. KeepsJar(t)
    BY <2>1 DEF LInv, Alive, Living
  <2> QED
    BY <2>2 DEF KeepsJar
<1> QED
  BY <1>1, LiveSpec, PTL

\* Under the same conditions, and at every moment: while the newest session is
\* active and the server has not denied it, the browser holds a cookie for it whose
\* secret the row accepts, whatever the tabs have refreshed, reloaded, lost or
\* signed out before. With RejectionsAreTrue: only a failed lookup or a deny fence
\* takes an active session's cookie away.
THEOREM SessionsContinue == Calm => (Spec => []SessionCanContinue)
<1> SUFFICES ASSUME Calm
             PROVE  Spec => []SessionCanContinue
  OBVIOUS
<1>1. TInv /\ LInv => SessionCanContinue
  BY LiveSecret DEF SessionCanContinue, Alive
<1> QED
  BY <1>1, LiveSpec, PTL

=============================================================================
