---------------------- MODULE BillingSession_proofs -----------------------
(***************************************************************************)
(* Theorems about BillingSession, for any number of attempts, operations,  *)
(* processes and quotas and any combination of faults.                     *)
(***************************************************************************)
EXTENDS BillingSession, InductionLemmas

\* Where a session has adopted a row.
Adopted == {"upstream", "settle", "verify", "outbox", "record", "markLogged",
            "markSkipped", "refund", "done", "failed"}

\* Where that row is known to be settled.
Delivering == {"outbox", "record", "markLogged", "markSkipped", "done"}

\* A session points at an existing row from adoption on, and at a settled
\* one while its log is being delivered.
SessionInv ==
  /\ \A a \in Attempt : pc[a] \in Adopted =>
       sess[a].id \in Attempt /\ sess[a].state # "none"
  /\ \A a \in Attempt : sess[a].state # "none" => sess[a].id \in Attempt
  /\ \A a \in Attempt : sess[a].id \in Attempt => ops[sess[a].id].state # "absent"
  /\ \A a \in Attempt : pc[a] \in Delivering => ops[sess[a].id].state = "settled"
  /\ \A a \in Attempt : pc[a] \in {"idle", "lookup", "create"} =>
       ops[a].state = "absent"

\* Every change of the database is one of these, and happens under these
\* conditions, whichever session makes it.
DbStep ==
  \/ UNCHANGED dbVars
  \/ \E a, r \in Attempt : Adoptable(a, r) /\ MigrateKey(a, r)
  \/ \E a \in Attempt : pc[a] = "create" /\ CanCreate(a) /\ CreateRow(a)
  \/ \E r \in Attempt, s \in Settlement :
       ops[r].state = "reserved" /\ CanSettle(r, s) /\ SettleRow(r, s)
  \/ \E r \in Attempt :
       ops[r].state = "reserved" /\ CanRefund(r) /\ RefundRow(r)
  \/ \E r \in Attempt : ops[r].state = "settled" /\ InsertLog(r)
  \/ \E r \in Attempt, mark \in {"logged", "skipped"} :
       ops[r].state = "settled" /\ MarkDelivered(r, mark)
  \/ ResetCounters
  \/ DeleteUsageLogs

\* What each row keeps of the token, and what the channel counted for it.
Hold == [r \in Attempt |-> Held(r)]
Count == [r \in Attempt |-> Counted(r)]

\* The held amounts add up to the total of Hold.
LEMMA HeldSum ==
  IsFiniteSet(Attempt) => MapThenSumSet(Held, Attempt) = Total(Hold, Attempt)
<1> DEFINE Eq(g) == g = [s \in SUBSET Attempt |->
                           IF s = {} THEN 0
                           ELSE Held(CHOOSE x \in s : TRUE)
                                  + g[s \ {CHOOSE x \in s : TRUE}]]
<1>1. ASSUME NEW g PROVE Eq(g) <=> SumsTo(g, Hold, SUBSET Attempt)
  <2>1. \A s \in SUBSET Attempt : s # {} => Hold[First(s)] = Held(CHOOSE x \in s : TRUE)
    BY DEF First, Hold
  <2> QED
    BY <2>1 DEF SumsTo, First
<1>2. (CHOOSE g : Eq(g)) = (CHOOSE g : SumsTo(g, Hold, SUBSET Attempt))
  <2> HIDE DEF Eq
  <2> QED
    BY <1>1
<1>3. MapThenSumSet(Held, Attempt) = (CHOOSE g : Eq(g))[Attempt]
  BY DEF MapThenSumSet, MapThenFoldSet
<1> QED
  BY <1>2, <1>3 DEF Total

\* The counted amounts add up to the total of Count.
LEMMA CountedSum ==
  IsFiniteSet(Attempt) => MapThenSumSet(Counted, Attempt) = Total(Count, Attempt)
<1> DEFINE Eq(g) == g = [s \in SUBSET Attempt |->
                           IF s = {} THEN 0
                           ELSE Counted(CHOOSE x \in s : TRUE)
                                  + g[s \ {CHOOSE x \in s : TRUE}]]
<1>1. ASSUME NEW g PROVE Eq(g) <=> SumsTo(g, Count, SUBSET Attempt)
  <2>1. \A s \in SUBSET Attempt : s # {} => Count[First(s)] = Counted(CHOOSE x \in s : TRUE)
    BY DEF First, Count
  <2> QED
    BY <2>1 DEF SumsTo, First
<1>2. (CHOOSE g : Eq(g)) = (CHOOSE g : SumsTo(g, Count, SUBSET Attempt))
  <2> HIDE DEF Eq
  <2> QED
    BY <1>1
<1>3. MapThenSumSet(Counted, Attempt) = (CHOOSE g : Eq(g))[Attempt]
  BY DEF MapThenSumSet, MapThenFoldSet
<1> QED
  BY <1>2, <1>3 DEF Total

USE MappingAssumption, QuotaAssumption, SessionAssumption
USE DEF dbVars

LEMMA InitType == Init => TypeOK /\ SessionInv
<1> SUFFICES ASSUME Init PROVE TypeOK /\ SessionInv
  OBVIOUS
<1>1. ops \in [Attempt -> Row]
  BY DEF Init, DbInit, Row, RowState
<1>2. sess \in [Attempt -> [id : Attempt \union {NoRow}, state : SessionState]]
  BY DEF Init, SessionState, NoSession
<1>a. token \in [remain : Int, used : Int] /\ erased \in Int
  BY DEF Init, DbInit
<1>b. usage \in [quota : Nat, requests : Nat, channel : Nat]
  BY DEF Init, DbInit
<1>c. outbox \in [Attempt -> OutboxState] /\ logs \subseteq Attempt
  BY DEF Init, DbInit, OutboxState
<1>d. nodeKey \in [Node -> 1..MaxKey]
  BY DEF Init, DbInit
<1>e. pc \in [Attempt -> Live \union Ended]
  BY DEF Init, DbInit, Live, Ended
<1>f. logEnabled \in BOOLEAN /\ clearing \in BOOLEAN
  BY DEF Init
<1>3. TypeOK
  BY <1>1, <1>2, <1>a, <1>b, <1>c, <1>d, <1>e, <1>f DEF TypeOK
<1>4. SessionInv
  BY DEF Init, DbInit, SessionInv, NoSession, Adopted, Delivering
<1> QED
  BY <1>3, <1>4

\* The actions of the sessions touch the database through DbStep only.
LEMMA NextIsDbStep == TypeOK /\ SessionInv /\ [Next]_vars => DbStep
<1> SUFFICES ASSUME TypeOK, SessionInv, [Next]_vars PROVE DbStep
  OBVIOUS
<1>1. ASSUME NEW a \in Attempt, Arrive(a) \/ UpstreamFails(a) \/ FrozenCheck(a)
             \/ VerifyFrozen(a) \/ ReadOutbox(a) \/ Crash(a)
      PROVE DbStep
  BY <1>1 DEF DbStep, Arrive, UpstreamFails, FrozenCheck, VerifyFrozen,
              ReadOutbox, Crash
<1>2. ASSUME NEW a \in Attempt, ReserveLookup(a) PROVE DbStep
  BY <1>2 DEF DbStep, ReserveLookup
<1>3. ASSUME NEW a \in Attempt, ReserveCreate(a) PROVE DbStep
  BY <1>3 DEF DbStep, ReserveCreate
<1>4. ASSUME NEW a \in Attempt, ReserveFallback(a) PROVE DbStep
  BY <1>4 DEF DbStep, ReserveFallback
<1>5. ASSUME NEW a \in Attempt, SettleTx(a) PROVE DbStep
  <2>1. sess[a].id \in Attempt
    BY <1>5 DEF SettleTx, SessionInv, Adopted
  <2> QED
    BY <1>5, <2>1 DEF DbStep, SettleTx
<1>6. ASSUME NEW a \in Attempt, RecordLog(a) \/ MarkOutbox(a) PROVE DbStep
  <2>1. sess[a].id \in Attempt /\ ops[sess[a].id].state = "settled"
    BY <1>6 DEF RecordLog, MarkOutbox, SessionInv, Adopted, Delivering
  <2> QED
    BY <1>6, <2>1 DEF DbStep, RecordLog, MarkOutbox
<1>7. ASSUME NEW a \in Attempt, RefundTx(a) PROVE DbStep
  <2>1. sess[a].id \in Attempt
    BY <1>7 DEF RefundTx, SessionInv, Adopted
  <2> QED
    BY <1>7, <2>1 DEF DbStep, RefundTx, Refundable
<1>8. ASSUME NEW n \in Node, RotateKey(n) PROVE DbStep
  BY <1>8 DEF DbStep, RotateKey
<1>9. CASE SetLogConsumeEnabled \/ ClearUsage
  BY <1>9 DEF DbStep, SetLogConsumeEnabled, ClearUsage
<1>10. CASE UNCHANGED vars
  BY <1>10 DEF DbStep, vars
<1> QED
  BY <1>1, <1>2, <1>3, <1>4, <1>5, <1>6, <1>7, <1>8, <1>9, <1>10 DEF Next, Step

\* The types of the database variables.
DbType ==
  /\ token \in [remain : Int, used : Int]
  /\ erased \in Int
  /\ usage \in [quota : Nat, requests : Nat, channel : Nat]
  /\ ops \in [Attempt -> Row]
  /\ outbox \in [Attempt -> OutboxState]
  /\ logs \subseteq Attempt

\* Rows come into being reserved, leave that state for good, and keep what
\* was frozen.
RowsAdvance ==
  \A r \in Attempt :
    /\ ops[r].state # "absent" => ops'[r].state # "absent"
    /\ ops[r].state \in {"settled", "refunded"} =>
         /\ ops'[r].state = ops[r].state
         /\ ops'[r].actual = ops[r].actual
         /\ ops'[r].counted = ops[r].counted

LEMMA ChargeType ==
  ASSUME token \in [remain : Int, used : Int], NEW q \in Int, Charge(q)
  PROVE  token' \in [remain : Int, used : Int]
  BY DEF Charge

LEMMA DbStepType ==
  ASSUME TypeOK, SessionInv, DbStep
  PROVE  DbType' /\ RowsAdvance
<1> DEFINE Q == DbType' /\ RowsAdvance
<1>1. CASE UNCHANGED dbVars
  BY <1>1 DEF TypeOK, DbType, RowsAdvance
<1>2. ASSUME NEW a \in Attempt, NEW r \in Attempt, MigrateKey(a, r)
      PROVE  Q
  <2>1. ActiveKey(a) \in 1..MaxKey
    BY DEF ActiveKey, TypeOK
  <2> QED
    BY <1>2, <2>1, SMTT(30) DEF TypeOK, DbType, RowsAdvance, MigrateKey, Row
<1>3. ASSUME NEW a \in Attempt, pc[a] = "create", CreateRow(a)
      PROVE  Q
  <2>1. ActiveKey(a) \in 1..MaxKey
    BY DEF ActiveKey, TypeOK
  <2>2. ops[a].state = "absent"
    BY <1>3 DEF SessionInv
  <2>3. ops' \in [Attempt -> Row]
    BY <1>3, <2>1 DEF TypeOK, CreateRow, Row, RowState
  <2>4. token' \in [remain : Int, used : Int]
    BY <1>3, ChargeType DEF TypeOK, CreateRow
  <2> QED
    BY <1>3, <2>2, <2>3, <2>4 DEF TypeOK, DbType, RowsAdvance, CreateRow
<1>4. ASSUME NEW r \in Attempt, NEW s \in Settlement,
             ops[r].state = "reserved", SettleRow(r, s)
      PROVE  Q
  <2>1. s.quota \in Nat /\ s.counted \in BOOLEAN
    OBVIOUS
  <2>a. ops' \in [Attempt -> Row]
    <3>1. ops[r] \in Row
      BY DEF TypeOK
    <3>2. [ops[r] EXCEPT !.state = "settled", !.actual = s.quota,
                         !.counted = s.counted] \in Row
      BY <2>1, <3>1 DEF Row, RowState
    <3>3. ops' = [ops EXCEPT ![r] =
                    [ops[r] EXCEPT !.state = "settled", !.actual = s.quota,
                                   !.counted = s.counted]]
      BY <1>4 DEF TypeOK, SettleRow, Row
    <3> QED
      BY <3>2, <3>3 DEF TypeOK
  <2>b. outbox' \in [Attempt -> OutboxState]
    BY <1>4 DEF TypeOK, SettleRow, OutboxState
  <2>2. token' \in [remain : Int, used : Int]
    BY <1>4, ChargeType DEF TypeOK, SettleRow, Delta
  <2>3. usage' \in [quota : Nat, requests : Nat, channel : Nat]
    BY <1>4 DEF TypeOK, SettleRow, CountUsage
  <2> QED
    BY <1>4, <2>a, <2>b, <2>2, <2>3 DEF TypeOK, DbType, RowsAdvance, SettleRow
<1>5. ASSUME NEW r \in Attempt, ops[r].state = "reserved", RefundRow(r)
      PROVE  Q
  <2>1. ops' \in [Attempt -> Row]
    BY <1>5 DEF TypeOK, RefundRow, Row, RowState
  <2>2. token' \in [remain : Int, used : Int]
    BY <1>5, ChargeType DEF TypeOK, RefundRow
  <2> QED
    BY <1>5, <2>1, <2>2 DEF TypeOK, DbType, RowsAdvance, RefundRow
<1>6. ASSUME NEW r \in Attempt, InsertLog(r) PROVE Q
  BY <1>6 DEF TypeOK, DbType, RowsAdvance, InsertLog
<1>7. ASSUME NEW r \in Attempt, NEW mark \in {"logged", "skipped"},
             MarkDelivered(r, mark)
      PROVE  Q
  BY <1>7 DEF TypeOK, DbType, RowsAdvance, MarkDelivered, OutboxState
<1>8. CASE ResetCounters
  <2>1. /\ token' \in [remain : Int, used : Int]
        /\ usage' \in [quota : Nat, requests : Nat, channel : Nat]
        /\ erased' \in Int
    <3>1. token' \in [remain : Int, used : Int]
      BY <1>8 DEF TypeOK, ResetCounters
    <3>2. usage' \in [quota : Nat, requests : Nat, channel : Nat]
      BY <1>8 DEF TypeOK, ResetCounters
    <3>3. erased' \in Int
      BY <1>8 DEF TypeOK, ResetCounters
    <3> QED
      BY <3>1, <3>2, <3>3
  <2> QED
    BY <1>8, <2>1 DEF TypeOK, DbType, RowsAdvance, ResetCounters
<1>9. CASE DeleteUsageLogs
  BY <1>9 DEF TypeOK, DbType, RowsAdvance, DeleteUsageLogs
<1> QED
  BY <1>1, <1>2, <1>3, <1>4, <1>5, <1>6, <1>7, <1>8, <1>9 DEF DbStep

\* The types of the variables outside the database.
SessionType ==
  /\ nodeKey \in [Node -> 1..MaxKey]
  /\ pc \in [Attempt -> Live \union Ended]
  /\ sess \in [Attempt -> [id : Attempt \union {NoRow}, state : SessionState]]

\* Attempt a moves to label l, and nobody else's session changes.
Moves(a, l) ==
  /\ pc' = [pc EXCEPT ![a] = l]
  /\ sess' \in [Attempt -> [id : Attempt \union {NoRow}, state : SessionState]]
  /\ \A q \in Attempt : q # a => sess'[q] = sess[q]
  /\ nodeKey' = nodeKey

\* What such a move must guarantee.
LEMMA MovePreserves ==
  ASSUME TypeOK, SessionInv, RowsAdvance, NEW a \in Attempt,
         NEW l \in Live \union Ended, Moves(a, l),
         l \in Adopted => sess'[a].id \in Attempt /\ sess'[a].state # "none",
         sess'[a].state # "none" => sess'[a].id \in Attempt,
         sess'[a].id \in Attempt => ops'[sess'[a].id].state # "absent",
         l \in Delivering => ops'[sess'[a].id].state = "settled",
         \A q \in Attempt : q # a /\ ops[q].state = "absent"
            => ops'[q].state = "absent",
         l \in {"idle", "lookup", "create"} => ops'[a].state = "absent"
  PROVE  SessionType' /\ SessionInv'
<1>1. SessionType'
  BY DEF TypeOK, SessionType, Moves
<1>2. ASSUME NEW q \in Attempt, q # a
      PROVE  pc'[q] = pc[q] /\ sess'[q] = sess[q]
  BY <1>2 DEF Moves, TypeOK
<1>3. pc'[a] = l
  BY DEF Moves, TypeOK
<1>4. ASSUME NEW q \in Attempt, pc'[q] \in Adopted
      PROVE  sess'[q].id \in Attempt /\ sess'[q].state # "none"
  BY <1>2, <1>3, <1>4 DEF SessionInv
<1>5. ASSUME NEW q \in Attempt, sess'[q].id \in Attempt
      PROVE  ops'[sess'[q].id].state # "absent"
  BY <1>2, <1>3, <1>5 DEF SessionInv, RowsAdvance
<1>6. ASSUME NEW q \in Attempt, pc'[q] \in Delivering
      PROVE  ops'[sess'[q].id].state = "settled"
  <2>1. CASE q = a
    BY <2>1, <1>3, <1>6
  <2>2. CASE q # a
    <3>1. sess[q].id \in Attempt
      BY <1>2, <1>6, <2>2 DEF SessionInv, Adopted, Delivering
    <3> QED
      BY <1>2, <1>6, <2>2, <3>1 DEF SessionInv, RowsAdvance
  <2> QED
    BY <2>1, <2>2
<1>7. ASSUME NEW q \in Attempt, pc'[q] \in {"idle", "lookup", "create"}
      PROVE  ops'[q].state = "absent"
  BY <1>2, <1>3, <1>7 DEF SessionInv
<1>8. ASSUME NEW q \in Attempt, sess'[q].state # "none"
      PROVE  sess'[q].id \in Attempt
  BY <1>2, <1>3, <1>8 DEF SessionInv
<1> QED
  BY <1>1, <1>4, <1>5, <1>6, <1>7, <1>8 DEF SessionInv

\* Storing a state in the session, or nothing, keeps the row it points at.
LEMMA RememberKeeps ==
  ASSUME TypeOK, NEW a \in Attempt, NEW st \in SessionState,
         Remember(a, st) \/ (UNCHANGED sess /\ st = sess[a].state)
  PROVE  /\ sess' \in [Attempt -> [id : Attempt \union {NoRow}, state : SessionState]]
         /\ \A q \in Attempt : q # a => sess'[q] = sess[q]
         /\ sess'[a].id = sess[a].id
         /\ sess'[a].state = st
  BY DEF Remember, TypeOK

\* A session adopts row r, or is turned away by the cache.
LEMMA AdoptPreserves ==
  ASSUME TypeOK, SessionInv, RowsAdvance, NEW a \in Attempt, NEW r \in Attempt,
         Adopt(a, r), nodeKey' = nodeKey,
         ops' \in [Attempt -> Row], ops'[r].state # "absent",
         \A q \in Attempt : q # a /\ ops[q].state = "absent"
            => ops'[q].state = "absent"
  PROVE  SessionType' /\ SessionInv'
<1>1. CASE sess' = [sess EXCEPT ![a] = [id |-> r, state |-> ops'[r].state]]
           /\ Goto(a, "upstream")
  <2>1. ops'[r].state \in SessionState \ {"none"}
    BY DEF Row, RowState, SessionState
  <2>2. sess'[a].id = r /\ sess'[a].state = ops'[r].state
    BY <1>1 DEF TypeOK
  <2>3. Moves(a, "upstream")
    BY <1>1, <2>1 DEF Moves, Goto, TypeOK
  <2> QED
    BY <2>1, <2>2, <2>3, MovePreserves DEF Live, Adopted, Delivering
<1>2. CASE Goto(a, "rejected") /\ UNCHANGED sess
  <2>1. Moves(a, "rejected")
    BY <1>2 DEF Moves, Goto, TypeOK
  <2>2. /\ sess'[a].id \in Attempt => ops'[sess'[a].id].state # "absent"
        /\ sess'[a].state # "none" => sess'[a].id \in Attempt
    BY <1>2 DEF SessionInv, RowsAdvance
  <2> QED
    BY <2>1, <2>2, MovePreserves DEF Ended, Adopted, Delivering
<1> QED
  BY <1>1, <1>2 DEF Adopt

LEMMA SessionStep ==
  ASSUME TypeOK, SessionInv, [Next]_vars
  PROVE  SessionType' /\ SessionInv'
<1> DEFINE Q == SessionType' /\ SessionInv'
<1>a. RowsAdvance
  BY NextIsDbStep, DbStepType
<1>b. ops' \in [Attempt -> Row]
  BY NextIsDbStep, DbStepType DEF DbType
<1>c. \A a \in Attempt : /\ sess[a].id \in Attempt => ops'[sess[a].id].state # "absent"
                         /\ sess[a].state # "none" => sess[a].id \in Attempt
  BY <1>a DEF SessionInv, RowsAdvance
<1>1. ASSUME NEW a \in Attempt,
             Arrive(a) \/ UpstreamFails(a) \/ FrozenCheck(a) \/ ReadOutbox(a) \/ Crash(a)
      PROVE  Q
  <2>1. PICK l \in Live \union Ended :
          /\ Goto(a, l)
          /\ l \in Adopted => pc[a] \in Adopted
          /\ l \in Delivering => sess[a].id \in Attempt /\ ops[sess[a].id].state = "settled"
          /\ l \in {"idle", "lookup", "create"} => pc[a] = "idle"
    BY <1>1 DEF Arrive, UpstreamFails, FrozenCheck, ReadOutbox, Finish, Crash, 
                Live, Ended, Adopted, Delivering, TypeOK, SessionInv
  <2>2. ops' = ops /\ sess' = sess /\ nodeKey' = nodeKey
    BY <1>1 DEF Arrive, UpstreamFails, FrozenCheck, ReadOutbox, Crash
  <2>3. Moves(a, l)
    BY <2>1, <2>2 DEF Moves, Goto, TypeOK
  <2> QED
    BY <1>a, <2>1, <2>2, <2>3, MovePreserves DEF SessionInv
<1>2. ASSUME NEW a \in Attempt, VerifyFrozen(a) PROVE Q
  <2>1. /\ sess[a].id \in Attempt /\ sess[a].state \in SessionState \ {"none"}
        /\ ops' = ops
    BY <1>2 DEF VerifyFrozen, SessionInv, Adopted, TypeOK
  <2>2. PICK l \in {"outbox", "refund"}, st \in SessionState \ {"none"} :
          /\ Goto(a, l)
          /\ Remember(a, st) \/ (UNCHANGED sess /\ st = sess[a].state)
          /\ l = "outbox" => ops[sess[a].id].state = "settled"
    BY <1>2, <2>1 DEF VerifyFrozen, SessionState
  <2>3. Moves(a, l)
    BY <1>2, <2>2, RememberKeeps DEF Moves, Goto, VerifyFrozen
  <2>4. sess'[a].id = sess[a].id /\ sess'[a].state = st
    BY <2>2, RememberKeeps
  <2> QED
    BY <1>a, <2>1, <2>2, <2>3, <2>4, MovePreserves, SMTT(30)
       DEF SessionInv, Live, Ended, Delivering
<1>3. ASSUME NEW a \in Attempt, NEW r \in Attempt, Adoptable(a, r), Adopt(a, r),
             MigrateKey(a, r) \/ UNCHANGED dbVars, nodeKey' = nodeKey
      PROVE  Q
  <2>1. ops[r].state # "absent"
    BY <1>3 DEF Adoptable, LookupHit, Found, RowsFor
  <2>2. \A q \in Attempt : ops'[q].state = ops[q].state
    BY <1>3 DEF MigrateKey, TypeOK, Row
  <2> QED
    BY <1>3, <1>a, <1>b, <2>1, <2>2, AdoptPreserves
<1>4. ASSUME NEW a \in Attempt, UNCHANGED dbVars, UNCHANGED sess, nodeKey' = nodeKey,
             NEW l \in {"create", "fallback", "rejected"}, Goto(a, l),
             l = "create" => pc[a] = "lookup"
      PROVE  Q
  <2>1. Moves(a, l)
    BY <1>4 DEF Moves, Goto, TypeOK
  <2> QED
    BY <1>4, <1>a, <2>1, MovePreserves
    DEF SessionInv, Live, Ended, Adopted, Delivering
<1>5. ASSUME NEW a \in Attempt, ReserveLookup(a) PROVE Q
  BY <1>3, <1>4, <1>5 DEF ReserveLookup
<1>6. ASSUME NEW a \in Attempt, ReserveFallback(a) PROVE Q
  BY <1>3, <1>4, <1>6 DEF ReserveFallback
<1>7. ASSUME NEW a \in Attempt, ReserveCreate(a) PROVE Q
  <2>1. nodeKey' = nodeKey
    BY <1>7 DEF ReserveCreate
  <2>3. CASE CreateRow(a)
    <3>1. ops'[a].state # "absent"
      BY <2>3 DEF CreateRow, TypeOK
    <3>2. \A q \in Attempt : q # a /\ ops[q].state = "absent"
            => ops'[q].state = "absent"
      BY <2>3 DEF CreateRow, TypeOK
    <3>3. CASE Adopt(a, a)
      BY <1>a, <1>b, <2>1, <3>1, <3>2, <3>3, AdoptPreserves
    <3>4. CASE Goto(a, "fallback") /\ UNCHANGED sess
      <4>1. Moves(a, "fallback")
        BY <2>1, <3>4 DEF Moves, Goto, TypeOK
      <4> QED
        BY <1>a, <1>c, <3>2, <3>4, <4>1, MovePreserves DEF Live, Adopted, Delivering
    <3> QED
      BY <1>7, <2>3, <3>3, <3>4 DEF ReserveCreate
  <2>4. CASE UNCHANGED dbVars /\ UNCHANGED sess /\ Goto(a, "fallback")
    BY <1>4, <2>1, <2>4
  <2> QED
    BY <1>7, <2>3, <2>4 DEF ReserveCreate
<1>8. ASSUME NEW a \in Attempt, SettleTx(a) PROVE Q
  <2> DEFINE r == sess[a].id
  <2>1. r \in Attempt /\ sess[a].state \in SessionState \ {"none"} /\ ops[r].state # "absent"
    BY <1>8 DEF SettleTx, SessionInv, Adopted, TypeOK
  <2>2. PICK l \in {"outbox", "verify", "refund"}, st \in SessionState \ {"none"} :
          /\ Goto(a, l)
          /\ Remember(a, st) \/ (UNCHANGED sess /\ st = sess[a].state)
          /\ l = "outbox" => \/ UNCHANGED dbVars /\ ops[r].state = "settled"
                             \/ \E s \in Settlement : SettleRow(r, s)
    BY <1>8, <2>1 DEF SettleTx, SessionState
  <2>3. UNCHANGED dbVars \/ \E s \in Settlement : SettleRow(r, s)
    BY <1>8 DEF SettleTx
  <2>4. \A s \in Settlement : SettleRow(r, s) => ops'[r].state = "settled"
    BY <2>1 DEF SettleRow, TypeOK, Row
  <2>5. \A q \in Attempt : q # r => ops'[q] = ops[q]
    BY <2>3 DEF SettleRow, TypeOK
  <2>6. Moves(a, l)
    BY <1>8, <2>2, RememberKeeps DEF Moves, Goto, SettleTx
  <2>7. sess'[a].id = r /\ sess'[a].state = st
    BY <2>2, RememberKeeps
  <2>8. l = "outbox" => ops'[r].state = "settled"
    BY <2>2, <2>4
  <2>9. \A q \in Attempt : ops[q].state = "absent" => ops'[q].state = "absent"
    BY <2>1, <2>5
  <2>10. ops'[r].state # "absent"
    BY <1>c, <2>1
  <2> HIDE DEF r
  <2> QED
    BY <1>a, <2>1, <2>2, <2>6, <2>7, <2>8, <2>9, <2>10, MovePreserves
    DEF Live, Adopted, Delivering
<1>9. ASSUME NEW a \in Attempt, RecordLog(a) \/ MarkOutbox(a) PROVE Q
  <2>1. pc[a] \in Adopted \intersect Delivering
    BY <1>9 DEF RecordLog, MarkOutbox, Adopted, Delivering
  <2>2. PICK l \in {"markLogged", "markSkipped", "done", "refund"} : Goto(a, l)
    BY <1>9 DEF RecordLog, MarkOutbox, Finish
  <2>3. ops' = ops /\ sess' = sess /\ nodeKey' = nodeKey
    BY <1>9 DEF RecordLog, MarkOutbox, InsertLog, MarkDelivered
  <2>4. Moves(a, l)
    BY <2>2, <2>3 DEF Moves, Goto, TypeOK
  <2> QED
    BY <1>a, <2>1, <2>2, <2>3, <2>4, MovePreserves DEF SessionInv, Live, Ended
<1>10. ASSUME NEW a \in Attempt, RefundTx(a) PROVE Q
  <2> DEFINE r == sess[a].id
  <2>1. r \in Attempt /\ sess[a].state \in SessionState \ {"none"} /\ ops[r].state # "absent"
    BY <1>10 DEF RefundTx, SessionInv, Adopted, TypeOK
  <2>2. PICK st \in SessionState \ {"none"} :
          Remember(a, st) \/ (UNCHANGED sess /\ st = sess[a].state)
    BY <1>10, <2>1 DEF RefundTx, SessionState, Refundable, TypeOK, Row, RowState
  <2>3. UNCHANGED dbVars \/ RefundRow(r)
    BY <1>10 DEF RefundTx
  <2>4. \A q \in Attempt : q # r => ops'[q] = ops[q]
    BY <2>3 DEF RefundRow, TypeOK
  <2>5. Moves(a, "failed")
    BY <1>10, <2>2, RememberKeeps DEF Moves, Goto, RefundTx
  <2>6. sess'[a].id = r /\ sess'[a].state = st
    BY <2>2, RememberKeeps
  <2>7. \A q \in Attempt : ops[q].state = "absent" => ops'[q].state = "absent"
    BY <2>1, <2>4
  <2>8. ops'[r].state # "absent"
    BY <1>c, <2>1
  <2> HIDE DEF r
  <2> QED
    BY <1>a, <2>1, <2>2, <2>5, <2>6, <2>7, <2>8, MovePreserves
    DEF Ended, Adopted, Delivering
<1>11. ASSUME NEW n \in Node, RotateKey(n) PROVE Q
  <2>1. ops' = ops /\ sess' = sess
    BY <1>11 DEF RotateKey
  <2>2. \A a \in Attempt : pc'[a] = pc[a] \/ pc'[a] = "crashed"
    BY <1>11 DEF RotateKey
  <2>3. SessionType'
    <3>1. nodeKey' \in [Node -> 1..MaxKey]
      BY <1>11 DEF RotateKey, TypeOK
    <3>2. pc' \in [Attempt -> Live \union Ended]
      BY <1>11 DEF RotateKey, TypeOK, Live, Ended
    <3> QED
      BY <2>1, <3>1, <3>2 DEF SessionType, TypeOK
  <2>4. SessionInv'
    BY <2>1, <2>2 DEF SessionInv, Adopted, Delivering
  <2> QED
    BY <2>3, <2>4
<1>12. CASE SetLogConsumeEnabled \/ ClearUsage \/ UNCHANGED vars
  <2>1. ops' = ops /\ sess' = sess /\ pc' = pc /\ nodeKey' = nodeKey
    BY <1>12 DEF SetLogConsumeEnabled, ClearUsage, ResetCounters, DeleteUsageLogs, vars
  <2> QED
    BY <2>1 DEF SessionType, SessionInv, TypeOK
<1> QED
  BY <1>1, <1>2, <1>5, <1>6, <1>7, <1>8, <1>9, <1>10, <1>11, <1>12 DEF Next, Step

LEMMA FlagsType ==
  ASSUME TypeOK, [Next]_vars
  PROVE  logEnabled' \in BOOLEAN /\ clearing' \in BOOLEAN
<1>1. logEnabled' = logEnabled \/ logEnabled' = ~ logEnabled
  BY DEF Next, Step, vars, Arrive, ReserveLookup, ReserveCreate, ReserveFallback,
         UpstreamFails, FrozenCheck, SettleTx, VerifyFrozen, ReadOutbox, RecordLog,
         MarkOutbox, RefundTx, Crash, RotateKey, SetLogConsumeEnabled, ClearUsage
<1>2. clearing' = clearing \/ clearing' = TRUE \/ clearing' = FALSE
  BY DEF Next, Step, vars, Arrive, ReserveLookup, ReserveCreate, ReserveFallback,
         UpstreamFails, FrozenCheck, SettleTx, VerifyFrozen, ReadOutbox, RecordLog,
         MarkOutbox, RefundTx, Crash, RotateKey, SetLogConsumeEnabled, ClearUsage
<1> QED
  BY <1>1, <1>2, Zenon DEF TypeOK

\* The step of the type invariant.
LEMMA TypeStep ==
  ASSUME TypeOK, SessionInv, [Next]_vars
  PROVE  TypeOK' /\ SessionInv'
<1>1. DbType' /\ RowsAdvance
  BY NextIsDbStep, DbStepType
<1>2. SessionType' /\ SessionInv'
  BY SessionStep
<1>3. logEnabled' \in BOOLEAN /\ clearing' \in BOOLEAN
  BY FlagsType
<1> QED
  BY <1>1, <1>2, <1>3, Zenon DEF TypeOK, DbType, SessionType

\* Every reachable state of durable billing is well typed, and every session
\* past its reservation points at an existing row of billing_operations.
THEOREM TypeCorrect == Spec => [](TypeOK /\ SessionInv)
<1>1. Init => TypeOK /\ SessionInv
  BY InitType
<1>2. (TypeOK /\ SessionInv) /\ [Next]_vars => (TypeOK /\ SessionInv)'
  BY TypeStep
<1> QED
  BY <1>1, <1>2, PTL DEF Spec

-----------------------------------------------------------------------------
(* The quota *)

\* Neither column goes below zero by a guarded update, and nothing is lost.
QuotaInv ==
  /\ token.remain + token.used + erased = InitialQuota
  /\ token.used >= 0
  /\ erased >= 0
  /\ Unlimited \/ token.remain >= 0

\* A charge the WHERE clause of its update let through keeps the books.
LEMMA ChargeKeepsBooks ==
  ASSUME TypeOK, QuotaInv, NEW q \in Int, Charge(q), UNCHANGED erased,
         IF q > 0 THEN Covers(q) ELSE CanGiveBack(-q)
  PROVE  QuotaInv'
<1>1. CASE Playground
  BY <1>1 DEF Charge, QuotaInv
<1>2. CASE ~ Playground
  <2>1. token' = [remain |-> token.remain - q, used |-> token.used + q]
    BY <1>2 DEF Charge
  <2>2. token'.remain = token.remain - q /\ token'.used = token.used + q
    BY <2>1
  <2>3. token.remain \in Int /\ token.used \in Int /\ erased \in Int
    BY DEF TypeOK
  <2> QED
    BY <1>2, <2>2, <2>3 DEF QuotaInv, Covers, CanGiveBack
<1> QED
  BY <1>1, <1>2

LEMMA QuotaStep ==
  ASSUME TypeOK, QuotaInv, DbStep
  PROVE  QuotaInv'
<1>1. CASE UNCHANGED dbVars
  BY <1>1 DEF QuotaInv
<1>2. CASE \E a, r \in Attempt : MigrateKey(a, r)
  BY <1>2 DEF QuotaInv, MigrateKey
<1>3. ASSUME NEW a \in Attempt, CanCreate(a), CreateRow(a) PROVE QuotaInv'
  <2>1. ReserveOf[a] \in Nat
    OBVIOUS
  <2>2. IF ReserveOf[a] > 0 THEN Covers(ReserveOf[a]) ELSE CanGiveBack(- ReserveOf[a])
    BY <1>3, <2>1 DEF CanCreate, CanGiveBack
  <2> QED
    BY <1>3, <2>1, <2>2, ChargeKeepsBooks DEF CreateRow
<1>4. ASSUME NEW r \in Attempt, NEW s \in Settlement, CanSettle(r, s), SettleRow(r, s)
      PROVE  QuotaInv'
  <2>1. Delta(r, s) \in Int
    BY DEF Delta
  <2> QED
    BY <1>4, <2>1, ChargeKeepsBooks DEF CanSettle, SettleRow
<1>5. ASSUME NEW r \in Attempt, CanRefund(r), RefundRow(r) PROVE QuotaInv'
  <2>1. ReserveOf[r] \in Nat
    OBVIOUS
  <2>2. - ReserveOf[r] \in Int /\ ~ (- ReserveOf[r] > 0) /\ -(- ReserveOf[r]) = ReserveOf[r]
    BY <2>1
  <2> QED
    BY <1>5, <2>2, ChargeKeepsBooks DEF CanRefund, RefundRow
<1>6. CASE \E r \in Attempt : InsertLog(r)
  BY <1>6 DEF QuotaInv, InsertLog
<1>7. CASE \E r \in Attempt, mark \in {"logged", "skipped"} : MarkDelivered(r, mark)
  BY <1>7 DEF QuotaInv, MarkDelivered
<1>8. CASE ResetCounters
  <2>1. token'.used = 0 /\ token'.remain = token.remain /\ erased' = erased + token.used
    BY <1>8 DEF ResetCounters, TypeOK
  <2>2. token.remain \in Int /\ token.used \in Int /\ erased \in Int
    BY DEF TypeOK
  <2> QED
    BY <2>1, <2>2 DEF QuotaInv
<1>9. CASE DeleteUsageLogs
  BY <1>9 DEF QuotaInv, DeleteUsageLogs
<1> QED
  BY <1>1, <1>2, <1>3, <1>4, <1>5, <1>6, <1>7, <1>8, <1>9 DEF DbStep

LEMMA QuotaInvariant == Spec => []QuotaInv
<1>1. Init => QuotaInv
  BY DEF Init, DbInit, QuotaInv
<1>2. TypeOK /\ SessionInv /\ QuotaInv /\ [Next]_vars => QuotaInv'
  BY NextIsDbStep, QuotaStep
<1> QED
  BY <1>1, <1>2, TypeCorrect, PTL DEF Spec

\* Reservations, settlements, refunds, retries, failures and usage resets
\* neither create nor destroy quota of the token.
THEOREM QuotaIsConserved == Spec => []QuotaConserved
<1>1. QuotaInv => QuotaConserved
  BY DEF QuotaInv, QuotaConserved
<1> QED
  BY <1>1, QuotaInvariant, PTL

\* A limited token is never overdrawn and no sequence of refunds lifts it
\* above its initial balance.
THEOREM BalanceIsBounded == Spec => []BalanceBounded
<1>1. TypeOK /\ QuotaInv => BalanceBounded
  <2> SUFFICES ASSUME TypeOK, QuotaInv PROVE BalanceBounded
    OBVIOUS
  <2>1. token.remain \in Int /\ token.used \in Int /\ erased \in Int
    BY DEF TypeOK
  <2> QED
    BY <2>1 DEF QuotaInv, BalanceBounded
<1> QED
  BY <1>1, QuotaInvariant, TypeCorrect, PTL

-----------------------------------------------------------------------------
(* The receipts *)

\* A terminal row of billing_operations never changes its state or its
\* frozen amounts, whatever is retried on it.
THEOREM ReceiptsAreFrozen == Spec => FrozenReceipt
<1>1. TypeOK /\ SessionInv /\ [Next]_vars => 
        [\A r \in Attempt : ops[r].state \in {"settled", "refunded"} =>
           /\ ops'[r].state = ops[r].state
           /\ ops'[r].actual = ops[r].actual
           /\ ops'[r].counted = ops[r].counted]_vars
  BY NextIsDbStep, DbStepType DEF RowsAdvance
<1> QED
  BY <1>1, TypeCorrect, PTL DEF Spec, FrozenReceipt

\* The outbox and the logs stand for settled rows only.
OutboxInv ==
  /\ \A r \in Attempt : (outbox[r] # "none") <=> (ops[r].state = "settled")
  /\ \A r \in logs : ops[r].state = "settled"

LEMMA OutboxStep ==
  ASSUME TypeOK, SessionInv, OutboxInv, DbStep
  PROVE  /\ OutboxInv'
         /\ \A r \in Attempt : outbox[r] = "logged" => outbox'[r] = "logged"
<1> DEFINE Q == /\ OutboxInv'
                /\ \A r \in Attempt : outbox[r] = "logged" => outbox'[r] = "logged"
<1>1. CASE UNCHANGED dbVars
  BY <1>1 DEF OutboxInv
<1>2. ASSUME NEW a \in Attempt, NEW r \in Attempt, MigrateKey(a, r) PROVE Q
  <2>1. \A q \in Attempt : ops'[q].state = ops[q].state
    BY <1>2 DEF MigrateKey, TypeOK, Row
  <2> QED
    BY <1>2, <2>1 DEF OutboxInv, MigrateKey, TypeOK
<1>3. ASSUME NEW a \in Attempt, pc[a] = "create", CreateRow(a) PROVE Q
  <2>1. ops[a].state = "absent" /\ ops'[a].state = "reserved"
    BY <1>3 DEF SessionInv, CreateRow, TypeOK
  <2>2. \A q \in Attempt : q # a => ops'[q] = ops[q]
    BY <1>3 DEF CreateRow, TypeOK
  <2> QED
    BY <1>3, <2>1, <2>2 DEF OutboxInv, CreateRow, TypeOK
<1>4. ASSUME NEW r \in Attempt, NEW s \in Settlement,
             ops[r].state = "reserved", SettleRow(r, s)
      PROVE  Q
  <2>1. ops'[r].state = "settled" /\ outbox'[r] = "pending"
    BY <1>4 DEF SettleRow, TypeOK, Row
  <2>2. \A q \in Attempt : q # r => ops'[q] = ops[q] /\ outbox'[q] = outbox[q]
    BY <1>4 DEF SettleRow, TypeOK
  <2> QED
    BY <1>4, <2>1, <2>2 DEF OutboxInv, SettleRow, TypeOK
<1>5. ASSUME NEW r \in Attempt, ops[r].state = "reserved", RefundRow(r) PROVE Q
  <2>1. ops'[r].state = "refunded"
    BY <1>5 DEF RefundRow, TypeOK, Row
  <2>2. \A q \in Attempt : q # r => ops'[q] = ops[q]
    BY <1>5 DEF RefundRow, TypeOK
  <2> QED
    BY <1>5, <2>1, <2>2 DEF OutboxInv, RefundRow, TypeOK
<1>6. ASSUME NEW r \in Attempt, ops[r].state = "settled", InsertLog(r) PROVE Q
  BY <1>6 DEF OutboxInv, InsertLog
<1>7. ASSUME NEW r \in Attempt, NEW mark \in {"logged", "skipped"},
             ops[r].state = "settled", MarkDelivered(r, mark)
      PROVE  Q
  <2>1. \A q \in Attempt : outbox'[q] = outbox[q]
                          \/ (outbox[q] = "pending" /\ outbox'[q] = mark)
    BY <1>7 DEF MarkDelivered, TypeOK
  <2> QED
    BY <1>7, <2>1 DEF OutboxInv, MarkDelivered
<1>8. CASE ResetCounters \/ DeleteUsageLogs
  BY <1>8 DEF OutboxInv, ResetCounters, DeleteUsageLogs
<1> QED
  BY <1>1, <1>2, <1>3, <1>4, <1>5, <1>6, <1>7, <1>8 DEF DbStep

\* A step of one request leaves the sessions of the others alone.
LEMMA OthersStay ==
  ASSUME TypeOK, NEW a \in Attempt, NEW b \in Attempt, a # b,
         Arrive(b) \/ Step(b) \/ Crash(b)
  PROVE  pc'[a] = pc[a] /\ sess'[a] = sess[a]
<1>1. \A l \in Live \union Ended : Goto(b, l) => pc'[a] = pc[a]
  BY DEF Goto, TypeOK
<1>2. \A st \in SessionState : Remember(b, st) => sess'[a] = sess[a]
  BY DEF Remember, TypeOK
<1>3. sess' = sess => sess'[a] = sess[a]
  OBVIOUS
<1>4. ASSUME NEW r \in Attempt, Adopt(b, r)
      PROVE  pc'[a] = pc[a] /\ sess'[a] = sess[a]
  BY <1>1, <1>4 DEF Adopt, TypeOK, Live, Ended
<1>5. CASE Arrive(b) \/ UpstreamFails(b) \/ FrozenCheck(b) \/ Crash(b)
  BY <1>1, <1>5 DEF Arrive, UpstreamFails, FrozenCheck, Crash, Live, Ended
<1>6. CASE ReadOutbox(b) \/ RecordLog(b) \/ MarkOutbox(b)
  BY <1>1, <1>6 DEF ReadOutbox, RecordLog, MarkOutbox, Finish, Live, Ended
<1>7. CASE ReserveLookup(b) \/ ReserveCreate(b) \/ ReserveFallback(b)
  BY <1>1, <1>3, <1>4, <1>7
     DEF ReserveLookup, ReserveCreate, ReserveFallback, Live, Ended
<1>8. CASE SettleTx(b)
  BY <1>1, <1>2, <1>3, <1>8 DEF SettleTx, Live, Ended, SessionState
<1>9. CASE VerifyFrozen(b)
  BY <1>1, <1>2, <1>3, <1>9 DEF VerifyFrozen, Live, Ended, SessionState
<1>10. CASE RefundTx(b)
  <2>1. pc'[a] = pc[a]
    BY <1>1, <1>10 DEF RefundTx, Ended
  <2>2. sess'[a] = sess[a]
    BY <1>10 DEF RefundTx, Remember, TypeOK
  <2> QED
    BY <2>1, <2>2
<1> QED
  BY <1>5, <1>6, <1>7, <1>8, <1>9, <1>10 DEF Step

\* A session changes in a step of its own request only; a request can also
\* be lost with its process.
LEMMA OwnStep ==
  ASSUME TypeOK, [Next]_vars, NEW a \in Attempt
  PROVE  \/ Arrive(a) \/ Step(a) \/ Crash(a)
         \/ pc'[a] \in {pc[a], "crashed"} /\ sess'[a] = sess[a]
<1>1. CASE \E b \in Attempt : Arrive(b) \/ Step(b) \/ Crash(b)
  BY <1>1, OthersStay
<1>2. CASE \E n \in Node : RotateKey(n)
  BY <1>2 DEF RotateKey, TypeOK
<1>3. CASE SetLogConsumeEnabled \/ ClearUsage \/ UNCHANGED vars
  BY <1>3 DEF SetLogConsumeEnabled, ClearUsage, vars
<1> QED
  BY <1>1, <1>2, <1>3 DEF Next

\* A request that succeeded saw its delivery marked as logged.
DoneInv == \A a \in Attempt : pc[a] = "done" => outbox[sess[a].id] = "logged"

LEMMA DoneStep ==
  ASSUME TypeOK, SessionInv, OutboxInv, DoneInv, [Next]_vars
  PROVE  DoneInv'
<1> SUFFICES ASSUME NEW a \in Attempt, pc'[a] = "done"
             PROVE  outbox'[sess'[a].id] = "logged"
  BY DEF DoneInv
<1>1. \A r \in Attempt : outbox[r] = "logged" => outbox'[r] = "logged"
  BY NextIsDbStep, OutboxStep
<1>2. \A l \in Live \union Ended : Goto(a, l) => l = "done"
  BY DEF Goto, TypeOK
<1>3. CASE pc[a] = "done"
  <2>1. sess'[a] = sess[a]
    BY <1>3, OwnStep DEF Arrive, Step, Crash, Live, ReserveLookup, ReserveCreate,
         ReserveFallback, UpstreamFails, FrozenCheck, SettleTx, VerifyFrozen,
         ReadOutbox, RecordLog, MarkOutbox, RefundTx
  <2>2. sess[a].id \in Attempt
    BY <1>3 DEF SessionInv, Adopted
  <2> QED
    BY <1>1, <1>3, <2>1, <2>2 DEF DoneInv
<1>4. CASE pc[a] # "done"
  <2>a. Arrive(a) \/ Step(a) \/ Crash(a)
    BY <1>4, OwnStep
  <2>b. ~ (Arrive(a) \/ UpstreamFails(a) \/ VerifyFrozen(a) \/ RecordLog(a)
           \/ RefundTx(a) \/ Crash(a))
    BY <1>2 DEF Arrive, UpstreamFails, VerifyFrozen, RecordLog, RefundTx, Crash,
         Live, Ended
  <2>c. ~ (ReserveLookup(a) \/ ReserveCreate(a) \/ ReserveFallback(a))
    BY <1>2 DEF ReserveLookup, ReserveCreate, ReserveFallback, Adopt, Live, Ended
  <2>d. ~ SettleTx(a)
    BY <1>2 DEF SettleTx, Live, Ended
  <2>1. FrozenCheck(a) \/ ReadOutbox(a) \/ MarkOutbox(a)
    BY <2>a, <2>b, <2>c, <2>d DEF Step
  <2>2. sess'[a].id = sess[a].id /\ sess[a].id \in Attempt
    BY <2>1 DEF FrozenCheck, ReadOutbox, MarkOutbox, SessionInv, Adopted
  <2>3. CASE FrozenCheck(a) \/ ReadOutbox(a)
    BY <1>1, <2>2, <2>3 DEF FrozenCheck, ReadOutbox, Finish, Goto, TypeOK
  <2>4. CASE MarkOutbox(a)
    BY <1>1, <2>2, <2>4 DEF MarkOutbox, Finish, Goto, TypeOK
  <2> QED
    BY <2>1, <2>3, <2>4
<1> QED
  BY <1>3, <1>4

LEMMA DeliveryInvariant == Spec => [](OutboxInv /\ DoneInv)
<1>1. Init => OutboxInv /\ DoneInv
  BY DEF Init, DbInit, OutboxInv, DoneInv
<1>2. TypeOK /\ SessionInv /\ OutboxInv /\ DoneInv /\ [Next]_vars
        => OutboxInv' /\ DoneInv'
  BY NextIsDbStep, OutboxStep, DoneStep
<1> QED
  BY <1>1, <1>2, TypeCorrect, PTL DEF Spec

\* A client that was told its request succeeded has a settled receipt, and
\* the delivery of its consume log is recorded.
THEOREM SuccessIsDurable == Spec => []ReceiptIsDurable
<1>1. SessionInv /\ DoneInv => ReceiptIsDurable
  BY DEF SessionInv, DoneInv, ReceiptIsDurable, Delivering
<1> QED
  BY <1>1, TypeCorrect, DeliveryInvariant, PTL

\* As long as COMMIT does not fail after the closure ran, a session that
\* believes its operation settled is right, so it never skips a refund that
\* is due.
THEOREM SessionsAreRight ==
  Spec => []("settleTx" \notin Faults => SessionSettledIsDurable)
<1> DEFINE Inv == "settleTx" \notin Faults => SessionSettledIsDurable
<1>1. Init => Inv
  BY DEF Init, NoSession, SessionSettledIsDurable
<1>2. TypeOK /\ SessionInv /\ Inv /\ [Next]_vars => Inv'
  <2> SUFFICES ASSUME TypeOK, SessionInv, SessionSettledIsDurable, [Next]_vars,
                      "settleTx" \notin Faults,
                      NEW a \in Attempt, sess'[a].state = "settled"
               PROVE  ops'[sess'[a].id].state = "settled"
    BY DEF SessionSettledIsDurable
  <2>1. RowsAdvance
    BY NextIsDbStep, DbStepType
  <2>2. CASE sess'[a] = sess[a]
    BY <2>1, <2>2 DEF SessionSettledIsDurable, SessionInv, RowsAdvance
  <2>3. ASSUME NEW r \in Attempt, Adopt(a, r), sess'[a] # sess[a]
        PROVE  ops'[sess'[a].id].state = "settled"
    <3>1. sess' = [sess EXCEPT ![a] = [id |-> r, state |-> ops'[r].state]]
      BY <2>3 DEF Adopt
    <3>2. sess'[a].id = r /\ sess'[a].state = ops'[r].state
      BY <3>1 DEF TypeOK
    <3> QED
      BY <3>2
  <2>4. CASE SettleTx(a)
    <3>0. sess[a].id \in Attempt
      BY <2>4 DEF SettleTx, SessionInv, Adopted
    <3>a. \A s \in Settlement : SettleRow(sess[a].id, s) => ops'[sess[a].id].state = "settled"
      BY <3>0 DEF SettleRow, TypeOK, Row
    <3>1. ops'[sess[a].id].state = "settled" \/ UNCHANGED sess
      BY <2>4, <3>a DEF SettleTx
    <3>2. sess'[a].id = sess[a].id
      BY <2>4 DEF SettleTx, Remember, TypeOK
    <3> QED
      BY <2>2, <3>1, <3>2
  <2>5. CASE VerifyFrozen(a)
    BY <2>2, <2>5 DEF VerifyFrozen, Remember, TypeOK
  <2>6. CASE RefundTx(a)
    <3>1. sess[a].id \in Attempt
      BY <2>6 DEF RefundTx, SessionInv, Adopted
    <3>2. UNCHANGED sess \/ (Remember(a, ops[sess[a].id].state) /\ UNCHANGED dbVars)
          \/ Remember(a, "refunded")
      BY <2>6 DEF RefundTx
    <3> QED
      BY <2>2, <3>1, <3>2, RememberKeeps DEF TypeOK, Row, RowState, SessionState, Remember
  <2>7. sess'[a] = sess[a] \/ SettleTx(a) \/ VerifyFrozen(a) \/ RefundTx(a)
        \/ \E r \in Attempt : Adopt(a, r)
    BY OwnStep DEF Arrive, Step, Crash, ReserveLookup, ReserveCreate,
         ReserveFallback, UpstreamFails, FrozenCheck, ReadOutbox, RecordLog,
         MarkOutbox
  <2> QED
    BY <2>2, <2>3, <2>4, <2>5, <2>6, <2>7
<1> QED
  BY <1>1, <1>2, TypeCorrect, PTL DEF Spec

-----------------------------------------------------------------------------
(* The counters *)

\* Rows hold natural numbers.
LEMMA AmountTypes ==
  ASSUME ops \in [Attempt -> Row]
  PROVE  Hold \in [Attempt -> Nat] /\ Count \in [Attempt -> Nat]
  BY DEF Row, Held, Counted, Hold, Count

\* After a step the sums are the totals of the new rows.
LEMMA PrimedSums ==
  ASSUME IsFiniteSet(Attempt)
  PROVE  /\ MapThenSumSet(Held, Attempt)' = Total(Hold', Attempt)
         /\ MapThenSumSet(Counted, Attempt)' = Total(Count', Attempt)
<1>1. (IsFiniteSet(Attempt) => MapThenSumSet(Held, Attempt) = Total(Hold, Attempt))'
  BY HeldSum, PTL
<1>2. (IsFiniteSet(Attempt) => MapThenSumSet(Counted, Attempt) = Total(Count, Attempt))'
  BY CountedSum, PTL
<1>3. Total(Hold, Attempt)' = Total(Hold', Attempt)
  BY DEF Total, SumsTo, First
<1>4. Total(Count, Attempt)' = Total(Count', Attempt)
  BY DEF Total, SumsTo, First
<1> QED
  BY <1>1, <1>2, <1>3, <1>4

\* When one row changes, the sums change by what it changes.
LEMMA SumsMove ==
  ASSUME IsFiniteSet(Attempt), ops \in [Attempt -> Row], ops' \in [Attempt -> Row],
         NEW r \in Attempt,
         \A q \in Attempt : q # r => ops'[q] = ops[q]
  PROVE  /\ MapThenSumSet(Held, Attempt)'
              = MapThenSumSet(Held, Attempt) + (Hold'[r] - Hold[r])
         /\ MapThenSumSet(Counted, Attempt)'
              = MapThenSumSet(Counted, Attempt) + (Count'[r] - Count[r])
         /\ MapThenSumSet(Held, Attempt) \in Nat
         /\ MapThenSumSet(Counted, Attempt) \in Nat
<1>1. Hold \in [Attempt -> Nat] /\ Count \in [Attempt -> Nat]
  BY AmountTypes
<1>2. (ops \in [Attempt -> Row] => Hold \in [Attempt -> Nat] /\ Count \in [Attempt -> Nat])'
  BY AmountTypes, PTL
<1>3. Hold' \in [Attempt -> Nat] /\ Count' \in [Attempt -> Nat]
  BY <1>2
<1>4. \A q \in Attempt : q # r => Hold'[q] = Hold[q] /\ Count'[q] = Count[q]
  BY DEF Hold, Count, Held, Counted
<1>5. Total(Hold', Attempt) = Total(Hold, Attempt) + (Hold'[r] - Hold[r])
  BY <1>1, <1>3, <1>4, TotalUpdate
<1>6. Total(Count', Attempt) = Total(Count, Attempt) + (Count'[r] - Count[r])
  BY <1>1, <1>3, <1>4, TotalUpdate
<1>7. Total(Hold, Attempt) \in Nat /\ Total(Count, Attempt) \in Nat
  BY <1>1, TotalBounds
<1> QED
  BY <1>5, <1>6, <1>7, PrimedSums, HeldSum, CountedSum

\* When no row changes its amounts, the sums stay.
LEMMA SumsStay ==
  ASSUME IsFiniteSet(Attempt), UNCHANGED ops
  PROVE  /\ MapThenSumSet(Held, Attempt)' = MapThenSumSet(Held, Attempt)
         /\ MapThenSumSet(Counted, Attempt)' = MapThenSumSet(Counted, Attempt)
<1>1. Hold' = Hold /\ Count' = Count
  BY DEF Hold, Count, Held, Counted
<1> QED
  BY <1>1, PrimedSums, HeldSum, CountedSum

\* What a guarded or unguarded charge does to the token.
LEMMA ChargeMoves ==
  ASSUME TypeOK, NEW q \in Int, Charge(q)
  PROVE  Playground \/ token'.used = token.used + q
  BY DEF Charge

\* Every transaction moves the token and the channel by what it changes in
\* its row.
LEMMA CountersStep ==
  ASSUME IsFiniteSet(Attempt), TypeOK, SessionInv, DbStep,
         TokenChargedOnce, ChannelCountedOnce
  PROVE  TokenChargedOnce' /\ ChannelCountedOnce'
<1> DEFINE HS == MapThenSumSet(Held, Attempt)
           CS == MapThenSumSet(Counted, Attempt)
           Q == TokenChargedOnce' /\ ChannelCountedOnce'
<1>t. /\ token.used \in Int /\ erased \in Int /\ usage.channel \in Nat
      /\ ops \in [Attempt -> Row] /\ ops' \in [Attempt -> Row]
  BY DbStepType DEF TypeOK, DbType
<1>0. ASSUME UNCHANGED <<ops, usage>>, Playground \/ token'.used + erased' = token.used + erased
      PROVE  Q
  <2>1. HS' = HS /\ CS' = CS
    BY <1>0, SumsStay
  <2> QED
    BY <1>0, <2>1 DEF TokenChargedOnce, ChannelCountedOnce
<1>1. CASE UNCHANGED dbVars
  BY <1>0, <1>1
<1>2. ASSUME NEW a \in Attempt, NEW r \in Attempt, MigrateKey(a, r) PROVE Q
  <2>1. \A q \in Attempt : q # r => ops'[q] = ops[q]
    BY <1>2, <1>t DEF MigrateKey
  <2>2. Hold'[r] = Hold[r] /\ Count'[r] = Count[r] /\ Hold[r] \in Nat /\ Count[r] \in Nat
    <3>1. /\ ops'[r].state = ops[r].state /\ ops'[r].actual = ops[r].actual
          /\ ops'[r].counted = ops[r].counted
      BY <1>2, <1>t DEF MigrateKey, Row
    <3>2. Hold[r] \in Nat /\ Count[r] \in Nat
      BY <1>t, AmountTypes
    <3> QED
      BY <3>1, <3>2 DEF Hold, Count, Held, Counted
  <2>3. HS' = HS /\ CS' = CS
    <3> HIDE DEF HS, CS
    <3>1. /\ HS' = HS + (Hold'[r] - Hold[r]) /\ CS' = CS + (Count'[r] - Count[r])
          /\ HS \in Nat /\ CS \in Nat
      BY <1>t, <2>1, SumsMove DEF HS, CS
    <3> QED
      BY <2>2, <3>1
  <2> QED
    BY <1>2, <2>3 DEF MigrateKey, TokenChargedOnce, ChannelCountedOnce
<1>3. ASSUME NEW a \in Attempt, pc[a] = "create", CreateRow(a) PROVE Q
  <2>1. \A q \in Attempt : q # a => ops'[q] = ops[q]
    BY <1>3, <1>t DEF CreateRow
  <2>2. Hold[a] = 0 /\ Hold'[a] = ReserveOf[a] /\ Count[a] = 0 /\ Count'[a] = 0
    <3>1. ops[a].state = "absent" /\ ops'[a].state = "reserved"
      BY <1>3, <1>t DEF SessionInv, CreateRow
    <3> QED
      BY <3>1 DEF Hold, Count, Held, Counted
  <2>3. HS' = HS + ReserveOf[a] /\ CS' = CS
    <3> HIDE DEF HS, CS
    <3>1. /\ HS' = HS + (Hold'[a] - Hold[a]) /\ CS' = CS + (Count'[a] - Count[a])
          /\ HS \in Nat /\ CS \in Nat
      BY <1>t, <2>1, SumsMove DEF HS, CS
    <3> QED
      BY <2>2, <3>1
  <2>4. Playground \/ token'.used = token.used + ReserveOf[a]
    BY <1>3, ChargeMoves DEF CreateRow
  <2> HIDE DEF HS, CS
  <2>5. TokenChargedOnce'
    <3>1. Playground \/ token.used + erased = HS
      BY DEF TokenChargedOnce, HS
    <3>2. erased' = erased
      BY <1>3 DEF CreateRow
    <3>3. Playground \/ token'.used + erased' = HS'
      BY <1>t, <2>3, <2>4, <3>1, <3>2
    <3> QED
      BY <3>3 DEF TokenChargedOnce, HS
  <2>6. ChannelCountedOnce'
    BY <1>3, <2>3 DEF CreateRow, ChannelCountedOnce, CS
  <2> QED
    BY <2>5, <2>6
<1>4. ASSUME NEW r \in Attempt, NEW s \in Settlement,
             ops[r].state = "reserved", SettleRow(r, s)
      PROVE  Q
  <2>0. s.quota \in Nat /\ s.counted \in BOOLEAN /\ ReserveOf[r] \in Nat
    OBVIOUS
  <2>1. \A q \in Attempt : q # r => ops'[q] = ops[q]
    BY <1>4, <1>t DEF SettleRow
  <2>2. /\ Hold[r] = ReserveOf[r] /\ Hold'[r] = s.quota
        /\ Count[r] = 0 /\ Count'[r] = IF s.counted THEN s.quota ELSE 0
    <3>1. ops'[r].state = "settled" /\ ops'[r].actual = s.quota /\ ops'[r].counted = s.counted
      BY <1>4, <1>t DEF SettleRow, Row
    <3> QED
      BY <1>4, <3>1 DEF Hold, Count, Held, Counted
  <2>3. HS' = HS + Delta(r, s) /\ CS' = CS + (IF s.counted THEN s.quota ELSE 0)
    <3> HIDE DEF HS, CS
    <3>1. /\ HS' = HS + (Hold'[r] - Hold[r]) /\ CS' = CS + (Count'[r] - Count[r])
          /\ HS \in Nat /\ CS \in Nat
      BY <1>t, <2>1, SumsMove DEF HS, CS
    <3> QED
      BY <2>0, <2>2, <3>1 DEF Delta
  <2>4. Playground \/ token'.used = token.used + Delta(r, s)
    BY <1>4, <2>0, ChargeMoves DEF SettleRow, Delta
  <2> HIDE DEF HS, CS
  <2>5. TokenChargedOnce'
    <3>1. Playground \/ token.used + erased = HS
      BY DEF TokenChargedOnce, HS
    <3>2. erased' = erased /\ Delta(r, s) \in Int
      BY <1>4, <2>0 DEF SettleRow, Delta
    <3>3. Playground \/ token'.used + erased' = HS'
      BY <1>t, <2>3, <2>4, <3>1, <3>2
    <3> QED
      BY <3>3 DEF TokenChargedOnce, HS
  <2>6. ChannelCountedOnce'
    <3>1. usage.channel = CS
      BY DEF ChannelCountedOnce, CS
    <3>2. usage'.channel = usage.channel + (IF s.counted THEN s.quota ELSE 0)
      BY <1>4, <1>t, <2>0 DEF SettleRow, CountUsage
    <3>3. usage'.channel = CS'
      BY <2>3, <3>1, <3>2
    <3> QED
      BY <3>3 DEF ChannelCountedOnce, CS
  <2> QED
    BY <2>5, <2>6
<1>5. ASSUME NEW r \in Attempt, ops[r].state = "reserved", RefundRow(r) PROVE Q
  <2>0. ReserveOf[r] \in Nat
    OBVIOUS
  <2>1. \A q \in Attempt : q # r => ops'[q] = ops[q]
    BY <1>5, <1>t DEF RefundRow
  <2>2. Hold[r] = ReserveOf[r] /\ Hold'[r] = 0 /\ Count[r] = 0 /\ Count'[r] = 0
    <3>1. ops'[r].state = "refunded"
      BY <1>5, <1>t DEF RefundRow, Row
    <3> QED
      BY <1>5, <3>1 DEF Hold, Count, Held, Counted
  <2>3. HS' = HS - ReserveOf[r] /\ CS' = CS
    <3> HIDE DEF HS, CS
    <3>1. /\ HS' = HS + (Hold'[r] - Hold[r]) /\ CS' = CS + (Count'[r] - Count[r])
          /\ HS \in Nat /\ CS \in Nat
      BY <1>t, <2>1, SumsMove DEF HS, CS
    <3> QED
      BY <2>0, <2>2, <3>1
  <2>4. Playground \/ token'.used = token.used + (- ReserveOf[r])
    BY <1>5, <2>0, ChargeMoves DEF RefundRow
  <2> HIDE DEF HS, CS
  <2>5. TokenChargedOnce'
    <3>1. Playground \/ token.used + erased = HS
      BY DEF TokenChargedOnce, HS
    <3>2. erased' = erased
      BY <1>5 DEF RefundRow
    <3>3. Playground \/ token'.used + erased' = HS'
      BY <1>t, <2>0, <2>3, <2>4, <3>1, <3>2
    <3> QED
      BY <3>3 DEF TokenChargedOnce, HS
  <2>6. ChannelCountedOnce'
    BY <1>5, <2>3 DEF RefundRow, ChannelCountedOnce, CS
  <2> QED
    BY <2>5, <2>6
<1>6. CASE \E r \in Attempt : InsertLog(r)
  BY <1>0, <1>6 DEF InsertLog
<1>7. CASE \E r \in Attempt, mark \in {"logged", "skipped"} : MarkDelivered(r, mark)
  BY <1>0, <1>7 DEF MarkDelivered
<1>8. CASE ResetCounters
  <2>1. token'.used = 0 /\ erased' = erased + token.used /\ usage'.channel = usage.channel
    BY <1>8 DEF ResetCounters, TypeOK
  <2>2. HS' = HS /\ CS' = CS
    BY <1>8, SumsStay DEF ResetCounters
  <2>3. token'.used + erased' = token.used + erased
    BY <1>t, <2>1
  <2> QED
    BY <2>1, <2>2, <2>3 DEF TokenChargedOnce, ChannelCountedOnce
<1>9. CASE DeleteUsageLogs
  BY <1>0, <1>9 DEF DeleteUsageLogs
<1> QED
  BY <1>1, <1>2, <1>3, <1>4, <1>5, <1>6, <1>7, <1>8, <1>9 DEF DbStep

\* With no row, every counter starts at zero.
LEMMA CountersStart ==
  ASSUME IsFiniteSet(Attempt), Init
  PROVE  TokenChargedOnce /\ ChannelCountedOnce
<1>1. \A r \in Attempt : Hold[r] = 0 /\ Count[r] = 0
  BY DEF Init, DbInit, Hold, Count, Held, Counted
<1>2. Total(Hold, Attempt) = 0 /\ Total(Count, Attempt) = 0
  BY <1>1, TotalZero
<1> QED
  BY <1>2, HeldSum, CountedSum DEF Init, DbInit, TokenChargedOnce, ChannelCountedOnce

\* However often operations are retried, settled and refunded, whatever
\* fails, and whenever root clears the usage, the token is charged for
\* exactly the open reservations and the settled receipts, the channel has
\* counted each settled receipt once, and the used quota is never negative.
THEOREM CountersAreRight ==
  ASSUME IsFiniteSet(Attempt)
  PROVE  Spec => []CountersMatchReceipts
<1> DEFINE Inv == TokenChargedOnce /\ ChannelCountedOnce
<1>1. Init => Inv
  BY CountersStart
<1>2. TypeOK /\ SessionInv /\ Inv /\ [Next]_vars => Inv'
  BY NextIsDbStep, CountersStep
<1>3. Inv /\ QuotaInv => CountersMatchReceipts
  BY DEF CountersMatchReceipts, QuotaInv
<1> QED
  BY <1>1, <1>2, <1>3, TypeCorrect, QuotaInvariant, PTL DEF Spec

-----------------------------------------------------------------------------
(* The consume log *)

\* Without a usage reset no log is deleted, and a request writes the log
\* before it marks the delivery.
LogInv ==
  /\ ~ clearing
  /\ \A r \in Attempt : outbox[r] = "logged" => r \in logs
  /\ \A a \in Attempt : pc[a] = "markLogged" => sess[a].id \in logs

\* Without a usage reset logs only grow, and only the request that wrote the
\* log marks a delivery as logged.
LEMMA LogGrows ==
  ASSUME TypeOK, SessionInv, LogInv, "reset" \notin Faults, [Next]_vars
  PROVE  /\ ~ clearing'
         /\ logs \subseteq logs'
         /\ \A r \in Attempt : outbox'[r] = "logged" =>
              outbox[r] = "logged" \/ \E a \in Attempt : pc[a] = "markLogged" /\ sess[a].id = r
<1> DEFINE Marked(r) == outbox[r] = "logged"
                        \/ \E a \in Attempt : pc[a] = "markLogged" /\ sess[a].id = r
           Q == /\ ~ clearing'
                /\ logs \subseteq logs'
                /\ \A r \in Attempt : outbox'[r] = "logged" => Marked(r)
<1>0. UNCHANGED <<clearing, outbox>> /\ logs \subseteq logs' => Q
  BY DEF LogInv
<1>1. ASSUME NEW a \in Attempt,
             Arrive(a) \/ Crash(a) \/ UpstreamFails(a) \/ FrozenCheck(a)
             \/ VerifyFrozen(a) \/ ReadOutbox(a)
      PROVE  Q
  BY <1>0, <1>1 DEF Arrive, Crash, UpstreamFails, FrozenCheck, VerifyFrozen, ReadOutbox
<1>2. ASSUME NEW a \in Attempt,
             ReserveLookup(a) \/ ReserveCreate(a) \/ ReserveFallback(a) \/ RefundTx(a)
      PROVE  Q
  BY <1>0, <1>2 DEF ReserveLookup, ReserveCreate, ReserveFallback, RefundTx,
       MigrateKey, CreateRow, RefundRow
<1>3. ASSUME NEW a \in Attempt, SettleTx(a) PROVE Q
  <2>1. clearing' = clearing
    BY <1>3 DEF SettleTx
  <2>2. UNCHANGED dbVars \/ \E s \in Settlement : SettleRow(sess[a].id, s)
    BY <1>3 DEF SettleTx
  <2>3. CASE \E s \in Settlement : SettleRow(sess[a].id, s)
    <3>1. logs' = logs /\ \A r \in Attempt : outbox'[r] \in {outbox[r], "pending"}
      BY <2>3 DEF SettleRow, TypeOK
    <3> QED
      BY <2>1, <3>1 DEF LogInv
  <2> QED
    BY <1>0, <2>1, <2>2, <2>3
<1>4. ASSUME NEW a \in Attempt, RecordLog(a) PROVE Q
  BY <1>0, <1>4 DEF RecordLog, InsertLog
<1>5. ASSUME NEW a \in Attempt, MarkOutbox(a) PROVE Q
  <2>1. clearing' = clearing /\ logs' = logs
    BY <1>5 DEF MarkOutbox, MarkDelivered
  <2>2. sess[a].id \in Attempt
    BY <1>5 DEF MarkOutbox, SessionInv, Adopted
  <2>3. \A r \in Attempt : outbox'[r] = outbox[r]
          \/ (r = sess[a].id /\ outbox'[r] = IF pc[a] = "markLogged" THEN "logged" ELSE "skipped")
    BY <1>5, <2>2 DEF MarkOutbox, MarkDelivered, TypeOK
  <2> QED
    BY <2>1, <2>3 DEF LogInv
<1>6. CASE \E n \in Node : RotateKey(n)
  BY <1>0, <1>6 DEF RotateKey
<1>7. CASE SetLogConsumeEnabled \/ ClearUsage \/ UNCHANGED vars
  BY <1>0, <1>7 DEF SetLogConsumeEnabled, ClearUsage, LogInv, vars
<1> QED
  BY <1>1, <1>2, <1>3, <1>4, <1>5, <1>6, <1>7 DEF Next, Step

LEMMA LogStep ==
  ASSUME TypeOK, SessionInv, LogInv, "reset" \notin Faults, [Next]_vars
  PROVE  LogInv'
<1>1. /\ ~ clearing'
      /\ logs \subseteq logs'
      /\ \A r \in Attempt : outbox'[r] = "logged" =>
           outbox[r] = "logged" \/ \E a \in Attempt : pc[a] = "markLogged" /\ sess[a].id = r
  BY LogGrows
<1>2. \A r \in Attempt : outbox'[r] = "logged" => r \in logs'
  BY <1>1 DEF LogInv
<1>3. ASSUME NEW a \in Attempt, pc'[a] = "markLogged" PROVE sess'[a].id \in logs'
  <2>1. \A l \in Live \union Ended : Goto(a, l) => l = "markLogged"
    BY <1>3 DEF Goto, TypeOK
  <2>2. CASE pc'[a] \in {pc[a], "crashed"} /\ sess'[a] = sess[a]
    BY <1>1, <1>3, <2>2 DEF LogInv
  <2>3. CASE RecordLog(a)
    BY <2>1, <2>3 DEF RecordLog, InsertLog, Live, Ended
  <2>4. ~ (Arrive(a) \/ Crash(a) \/ UpstreamFails(a) \/ FrozenCheck(a) \/ RefundTx(a)
           \/ VerifyFrozen(a) \/ ReadOutbox(a) \/ MarkOutbox(a))
    BY <2>1 DEF Arrive, Crash, UpstreamFails, FrozenCheck, RefundTx, VerifyFrozen,
         ReadOutbox, MarkOutbox, Finish, Live, Ended
  <2>5. ~ (ReserveLookup(a) \/ ReserveCreate(a) \/ ReserveFallback(a))
    BY <2>1 DEF ReserveLookup, ReserveCreate, ReserveFallback, Adopt, Live, Ended
  <2>6. ~ SettleTx(a)
    BY <2>1 DEF SettleTx, Live, Ended
  <2> QED
    BY <2>2, <2>3, <2>4, <2>5, <2>6, OwnStep DEF Step
<1> QED
  BY <1>1, <1>2, <1>3 DEF LogInv

\* The outbox and the consume log stand for settled operations only; and as
\* long as root does not clear the usage, a delivery recorded as logged has
\* its row in the log database, whoever wrote it and whoever crashed.
THEOREM LogsFollowSettlements == Spec => []LogFollowsSettlement
<1> DEFINE Inv == "reset" \notin Faults => LogInv
<1>1. Init => Inv
  BY DEF Init, DbInit, LogInv
<1>2. TypeOK /\ SessionInv /\ Inv /\ [Next]_vars => Inv'
  BY LogStep
<1>3. OutboxInv /\ Inv => LogFollowsSettlement
  BY DEF OutboxInv, LogInv, LogFollowsSettlement
<1> QED
  BY <1>1, <1>2, <1>3, TypeCorrect, DeliveryInvariant, PTL DEF Spec

-----------------------------------------------------------------------------
(* The refund *)

\* A session that believes its operation refunded is right.
RefundedInv ==
  \A a \in Attempt : sess[a].state = "refunded" => ops[sess[a].id].state = "refunded"

LEMMA RefundedStep ==
  ASSUME TypeOK, SessionInv, RefundedInv, [Next]_vars
  PROVE  RefundedInv'
<1> SUFFICES ASSUME NEW a \in Attempt, sess'[a].state = "refunded"
             PROVE  ops'[sess'[a].id].state = "refunded"
  BY DEF RefundedInv
<1>1. RowsAdvance
  BY NextIsDbStep, DbStepType
<1>2. CASE sess'[a] = sess[a]
  BY <1>1, <1>2 DEF RefundedInv, SessionInv, RowsAdvance
<1>3. ASSUME NEW r \in Attempt, Adopt(a, r), sess'[a] # sess[a]
      PROVE  ops'[sess'[a].id].state = "refunded"
  <2>1. sess' = [sess EXCEPT ![a] = [id |-> r, state |-> ops'[r].state]]
    BY <1>3 DEF Adopt
  <2>2. sess'[a].id = r /\ sess'[a].state = ops'[r].state
    BY <2>1 DEF TypeOK
  <2> QED
    BY <2>2
<1>4. CASE SettleTx(a) \/ VerifyFrozen(a)
  <2>1. UNCHANGED sess \/ Remember(a, "settled")
    BY <1>4 DEF SettleTx, VerifyFrozen
  <2> QED
    BY <1>2, <2>1 DEF Remember, TypeOK
<1>5. CASE RefundTx(a)
  <2>1. sess[a].id \in Attempt
    BY <1>5 DEF RefundTx, SessionInv, Adopted
  <2>2. UNCHANGED sess \/ (Remember(a, ops[sess[a].id].state) /\ UNCHANGED dbVars)
        \/ RefundRow(sess[a].id)
    BY <1>5 DEF RefundTx
  <2>3. sess'[a].id = sess[a].id
    BY <1>5 DEF RefundTx, Remember, TypeOK
  <2>4. CASE RefundRow(sess[a].id)
    BY <2>1, <2>3, <2>4 DEF RefundRow, TypeOK, Row
  <2>5. CASE Remember(a, ops[sess[a].id].state) /\ UNCHANGED dbVars
    BY <2>1, <2>3, <2>5 DEF Remember, TypeOK
  <2> QED
    BY <1>2, <2>2, <2>4, <2>5
<1>6. sess'[a] = sess[a] \/ SettleTx(a) \/ VerifyFrozen(a) \/ RefundTx(a)
      \/ \E r \in Attempt : Adopt(a, r)
  BY OwnStep DEF Arrive, Step, Crash, ReserveLookup, ReserveCreate,
       ReserveFallback, UpstreamFails, FrozenCheck, ReadOutbox, RecordLog,
       MarkOutbox
<1> QED
  BY <1>2, <1>3, <1>4, <1>5, <1>6

\* The failures under which a refund that was tried may leave the
\* reservation open: a COMMIT that fails, and a reset that takes away the
\* used quota a decrease must find.
RefundBreakers == {"settleTx", "refundTx", "reset"}

\* Without a reset nothing is erased, so an open reservation is covered by
\* the used quota and its refund passes the guard.
LEMMA RefundIsCovered ==
  ASSUME IsFiniteSet(Attempt), TypeOK, erased = 0, TokenChargedOnce,
         NEW r \in Attempt, ops[r].state = "reserved"
  PROVE  CanRefund(r)
<1>1. CASE Playground
  BY <1>1 DEF CanRefund, CanGiveBack
<1>2. CASE ~ Playground
  <2>1. ops \in [Attempt -> Row] /\ token.used \in Int
    BY DEF TypeOK
  <2>2. Hold \in [Attempt -> Nat] /\ Hold[r] = ReserveOf[r]
    BY <2>1, AmountTypes DEF Hold, Held
  <2>3. ReserveOf[r] <= Total(Hold, Attempt)
    BY <2>2, TotalBounds
  <2>4. token.used = Total(Hold, Attempt)
    BY <1>2, <2>1, HeldSum DEF TokenChargedOnce
  <2> QED
    BY <2>3, <2>4 DEF CanRefund, CanGiveBack
<1> QED
  BY <1>1, <1>2

\* Nothing is erased without a reset.
LEMMA ErasedStep ==
  ASSUME TypeOK, SessionInv, ~ clearing, erased = 0, "reset" \notin Faults, [Next]_vars
  PROVE  erased' = 0
<1>1. CASE \E a \in Attempt : Arrive(a) \/ Step(a) \/ Crash(a)
  <2>1. PICK a \in Attempt : Arrive(a) \/ Step(a) \/ Crash(a)
    BY <1>1
  <2>2. CASE Arrive(a) \/ Crash(a) \/ UpstreamFails(a) \/ FrozenCheck(a)
    BY <2>2 DEF Arrive, Crash, UpstreamFails, FrozenCheck
  <2>3. CASE ReserveLookup(a) \/ ReserveCreate(a) \/ ReserveFallback(a)
    <3>1. \A r \in Attempt : MigrateKey(a, r) => erased' = erased
      BY DEF MigrateKey
    <3>2. CreateRow(a) => erased' = erased
      BY DEF CreateRow
    <3> QED
      BY <2>3, <3>1, <3>2 DEF ReserveLookup, ReserveCreate, ReserveFallback
  <2>4. CASE SettleTx(a)
    <3>1. \A r \in Attempt, c \in Settlement : SettleRow(r, c) => erased' = erased
      BY DEF SettleRow
    <3> QED
      BY <2>4, <3>1 DEF SettleTx, SessionInv, Adopted, Live
  <2>5. CASE RefundTx(a)
    <3>1. \A r : RefundRow(r) => erased' = erased
      BY DEF RefundRow
    <3> QED
      BY <2>5, <3>1 DEF RefundTx
  <2>6. CASE VerifyFrozen(a) \/ ReadOutbox(a) \/ RecordLog(a) \/ MarkOutbox(a)
    BY <2>6 DEF VerifyFrozen, ReadOutbox, RecordLog, MarkOutbox, InsertLog, MarkDelivered
  <2> QED
    BY <2>1, <2>2, <2>3, <2>4, <2>5, <2>6 DEF Step
<1>2. CASE \E n \in Node : RotateKey(n)
  BY <1>2 DEF RotateKey
<1>3. CASE SetLogConsumeEnabled \/ ClearUsage \/ UNCHANGED vars
  BY <1>3 DEF SetLogConsumeEnabled, ClearUsage, vars
<1> QED
  BY <1>1, <1>2, <1>3 DEF Next

\* The refund a failing request tries closes its reservation.
LEMMA FailedStep ==
  ASSUME IsFiniteSet(Attempt), TypeOK, SessionInv, RefundedInv,
         SessionSettledIsDurable, TokenChargedOnce, erased = 0,
         "refundTx" \notin Faults, FailedRequestIsRefunded, [Next]_vars
  PROVE  FailedRequestIsRefunded'
<1> SUFFICES ASSUME NEW a \in Attempt, pc'[a] = "failed"
             PROVE  ops'[sess'[a].id].state # "reserved"
  BY DEF FailedRequestIsRefunded
<1>1. RowsAdvance
  BY NextIsDbStep, DbStepType
<1>2. \A l \in Live \union Ended : Goto(a, l) => l = "failed"
  BY DEF Goto, TypeOK
<1>3. CASE pc'[a] \in {pc[a], "crashed"} /\ sess'[a] = sess[a]
  <2>1. pc[a] = "failed" /\ sess[a].id \in Attempt
    BY <1>3 DEF SessionInv, Adopted
  <2>2. ops[sess[a].id].state \in {"settled", "refunded"}
    BY <2>1 DEF FailedRequestIsRefunded, SessionInv, TypeOK, Row, RowState
  <2> QED
    BY <1>1, <1>3, <2>1, <2>2 DEF RowsAdvance
<1>4. CASE RefundTx(a)
  <2> DEFINE r == sess[a].id
  <2>1. r \in Attempt /\ ops[r] \in Row /\ ops[r].state # "absent"
    BY <1>4 DEF RefundTx, SessionInv, Adopted, TypeOK
  <2>2. sess'[a].id = r
    BY <1>4 DEF RefundTx, Remember, TypeOK
  <2>3. CASE sess[a].state \in {"settled", "refunded"}
    BY <1>1, <2>1, <2>2, <2>3 DEF SessionSettledIsDurable, RefundedInv, RowsAdvance
  <2>4. CASE ~ Refundable(r)
    BY <1>1, <2>1, <2>2, <2>4 DEF Refundable, RowsAdvance, Row, RowState
  <2>5. CASE Refundable(r) /\ sess[a].state \notin {"settled", "refunded"}
    <3>1. CanRefund(r)
      BY <2>1, <2>5, RefundIsCovered DEF Refundable
    <3>2. RefundRow(r)
      BY <1>4, <2>5, <3>1 DEF RefundTx
    <3> QED
      BY <2>1, <2>2, <3>2 DEF RefundRow, TypeOK, Row
  <2> QED
    BY <2>3, <2>4, <2>5
<1>5. ~ (Arrive(a) \/ Crash(a) \/ UpstreamFails(a) \/ FrozenCheck(a) \/ RecordLog(a)
         \/ VerifyFrozen(a) \/ ReadOutbox(a) \/ MarkOutbox(a))
  BY <1>2 DEF Arrive, Crash, UpstreamFails, FrozenCheck, RecordLog, VerifyFrozen,
       ReadOutbox, MarkOutbox, Finish, Live, Ended
<1>6. ~ (ReserveLookup(a) \/ ReserveCreate(a) \/ ReserveFallback(a))
  BY <1>2 DEF ReserveLookup, ReserveCreate, ReserveFallback, Adopt, Live, Ended
<1>7. ~ SettleTx(a)
  BY <1>2 DEF SettleTx, Live, Ended
<1> QED
  BY <1>3, <1>4, <1>5, <1>6, <1>7, OwnStep DEF Step

\* As long as no COMMIT of a settlement or refund fails and root does not
\* clear the usage, a request that ended in an error after its refund was
\* tried leaves no reservation behind, whatever else fails: the guard on
\* used_quota never refuses the refund.
THEOREM FailuresAreRefunded ==
  ASSUME IsFiniteSet(Attempt)
  PROVE  Spec => [](Faults \intersect RefundBreakers = {} => FailedRequestIsRefunded)
<1> DEFINE Free == Faults \intersect RefundBreakers = {}
           Inv == /\ RefundedInv
                  /\ Free => /\ ~ clearing
                             /\ erased = 0
                             /\ FailedRequestIsRefunded
           Sound == "settleTx" \notin Faults => SessionSettledIsDurable
<1>1. Init => Inv
  BY DEF Init, DbInit, NoSession, RefundedInv, FailedRequestIsRefunded
<1>2. TypeOK /\ SessionInv /\ Sound /\ CountersMatchReceipts /\ Inv /\ [Next]_vars => Inv'
  <2> SUFFICES ASSUME TypeOK, SessionInv, Sound, CountersMatchReceipts, Inv, [Next]_vars
               PROVE  Inv'
    OBVIOUS
  <2>1. RefundedInv'
    BY RefundedStep
  <2>2. ASSUME Free
        PROVE  ~ clearing' /\ erased' = 0 /\ FailedRequestIsRefunded'
    <3>1. "settleTx" \notin Faults /\ "refundTx" \notin Faults /\ "reset" \notin Faults
      BY <2>2 DEF RefundBreakers
    <3>2. erased' = 0
      BY <2>2, <3>1, ErasedStep
    <3>3. FailedRequestIsRefunded'
      BY <2>2, <3>1, FailedStep DEF CountersMatchReceipts
    <3>4. ~ clearing'
      BY <2>2, <3>1 DEF Next, vars, Arrive, Crash, Step, ReserveLookup,
           ReserveCreate, ReserveFallback, UpstreamFails, FrozenCheck, SettleTx,
           VerifyFrozen, ReadOutbox, RecordLog, MarkOutbox, RefundTx, RotateKey,
           SetLogConsumeEnabled, ClearUsage
    <3> QED
      BY <3>2, <3>3, <3>4
  <2> QED
    BY <2>1, <2>2
<1>3. Inv => (Free => FailedRequestIsRefunded)
  OBVIOUS
<1> QED
  BY <1>1, <1>2, <1>3, TypeCorrect, SessionsAreRight, CountersAreRight, PTL DEF Spec
=============================================================================
