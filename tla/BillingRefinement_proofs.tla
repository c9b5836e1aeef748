--------------------- MODULE BillingRefinement_proofs ---------------------
(***************************************************************************)
(* One process, or processes that always share one key ring, keep one row  *)
(* per operation, and then durable billing implements BillingReceipt.      *)
(***************************************************************************)
EXTENDS BillingSession_proofs, BillingRefinement

USE MappingAssumption, QuotaAssumption, SessionAssumption
USE DEF dbVars

\* All attempts are served under one key ring: one gateway process, or all
\* of them restarted together when the key is rotated.
SingleKeyRing == \A m, n \in Node : m = n

\* No row carries a key the process does not know yet, and an attempt that
\* found no row can only be beaten by a row of its own active key.
KeyInv ==
  /\ \A r \in Attempt, n \in Node :
       ops[r].state # "absent" => ops[r].key <= nodeKey[n]
  /\ \A a \in Attempt : pc[a] = "create" =>
       \A r \in RowsFor(OpOf[a]) : ops[r].key = ActiveKey(a)
  /\ OneRowPerOperation

\* Steps that leave the rows and the keys alone keep KeyInv, provided that
\* whoever starts to create has seen no row.
LEMMA QuietStepKeepsKeys ==
  ASSUME TypeOK, KeyInv, ops' = ops, nodeKey' = nodeKey,
         \A a \in Attempt : pc'[a] = "create" =>
           pc[a] = "create" \/ RowsFor(OpOf[a]) = {}
  PROVE  KeyInv'
  BY DEF KeyInv, RowsFor, ActiveKey, OneRowPerOperation

LEMMA MissIsNoRow ==
  ASSUME TypeOK, KeyInv, NEW a \in Attempt, LookupMiss(a)
  PROVE  RowsFor(OpOf[a]) = {}
<1>1. \A r \in RowsFor(OpOf[a]) : ops[r].key \in Candidates(a)
  <2> SUFFICES ASSUME NEW r \in RowsFor(OpOf[a]) PROVE ops[r].key \in Candidates(a)
    OBVIOUS
  <2>1. r \in Attempt /\ ops[r].state # "absent" /\ NodeOf[a] \in Node
    BY DEF RowsFor
  <2>2. ops[r].key <= nodeKey[NodeOf[a]] /\ ops[r].key \in 1..MaxKey
        /\ nodeKey[NodeOf[a]] \in 1..MaxKey
    BY <2>1 DEF KeyInv, TypeOK, Row
  <2> QED
    BY <2>2 DEF Candidates, ActiveKey
<1> QED
  BY <1>1 DEF LookupMiss, Found

LEMMA KeyStep ==
  ASSUME SingleKeyRing, TypeOK, SessionInv, KeyInv, [Next]_vars
  PROVE  KeyInv'
<1>0. \A a, b \in Attempt : ActiveKey(a) = ActiveKey(b)
  BY DEF SingleKeyRing, ActiveKey
<1>1. ASSUME NEW a \in Attempt, NEW r \in Attempt, MigrateKey(a, r), Adoptable(a, r),
             ReserveLookup(a), Adopt(a, r)
      PROVE  KeyInv'
  <2>1. nodeKey' = nodeKey /\ ops[r].state # "absent"
    BY <1>1 DEF ReserveLookup, Adoptable, LookupHit, Found, RowsFor
  <2>2. \A q \in Attempt : ops'[q].state = ops[q].state
    BY <1>1 DEF MigrateKey, TypeOK, Row
  <2>3. \A q \in Attempt : ops'[q].key = ops[q].key \/ ops'[q].key = ActiveKey(a)
    BY <1>1 DEF MigrateKey, TypeOK, Row
  <2>4. \A o : RowsFor(o)' = RowsFor(o)
    BY <2>2 DEF RowsFor
  <2>5. \A q \in Attempt : pc'[q] = "create" => pc[q] = "create"
    BY <1>1 DEF Adopt, Goto, TypeOK
  <2>6. \A q \in Attempt, n \in Node :
          ops'[q].state # "absent" => ops'[q].key <= nodeKey'[n]
    <3>1. \A n \in Node : ActiveKey(a) = nodeKey[n] /\ nodeKey[n] \in Int
      BY DEF ActiveKey, SingleKeyRing, TypeOK
    <3> QED
      BY <2>1, <2>2, <2>3, <3>1 DEF KeyInv
  <2>7. \A b \in Attempt : pc'[b] = "create" =>
          \A q \in RowsFor(OpOf[b])' : ops'[q].key = ActiveKey(b)'
    <3>1. \A b \in Attempt : ActiveKey(b)' = ActiveKey(b)
      BY <2>1 DEF ActiveKey
    <3> SUFFICES ASSUME NEW b \in Attempt, pc'[b] = "create",
                        NEW q \in RowsFor(OpOf[b])
                 PROVE  ops'[q].key = ActiveKey(b)
      BY <2>4, <3>1
    <3>2. q \in Attempt /\ ops[q].key = ActiveKey(b)
      BY <2>5 DEF KeyInv, RowsFor
    <3> QED
      BY <1>0, <2>3, <3>2
  <2>8. OneRowPerOperation'
    BY <2>4 DEF KeyInv, OneRowPerOperation
  <2> QED
    BY <2>6, <2>7, <2>8 DEF KeyInv
<1>2. ASSUME NEW a \in Attempt, pc[a] = "create", CanCreate(a), CreateRow(a),
             ReserveCreate(a)
      PROVE  KeyInv'
  <2>1. nodeKey' = nodeKey
    BY <1>2 DEF ReserveCreate
  <2>2. RowsFor(OpOf[a]) = {}
    BY <1>2 DEF KeyInv, CanCreate, UniqueKeyFree
  <2>3. ops'[a].state = "reserved" /\ ops'[a].key = ActiveKey(a)
    BY <1>2 DEF CreateRow, TypeOK
  <2>4. \A q \in Attempt : q # a => ops'[q] = ops[q]
    BY <1>2 DEF CreateRow, TypeOK
  <2>5. \A q \in Attempt : pc'[q] = "create" => pc[q] = "create"
    BY <1>2 DEF ReserveCreate, Adopt, Goto, TypeOK
  <2>6. \A o, q : q \in RowsFor(o)' => q \in RowsFor(o) \/ (q = a /\ o = OpOf[a])
    BY <2>4 DEF RowsFor
  <2>7. \A q \in Attempt, n \in Node :
          ops'[q].state # "absent" => ops'[q].key <= nodeKey'[n]
    <3>1. \A n \in Node : ActiveKey(a) = nodeKey[n] /\ nodeKey[n] \in Int
      BY DEF ActiveKey, SingleKeyRing, TypeOK
    <3> QED
      BY <2>1, <2>3, <2>4, <3>1 DEF KeyInv
  <2>8. \A b \in Attempt : pc'[b] = "create" =>
          \A q \in RowsFor(OpOf[b])' : ops'[q].key = ActiveKey(b)'
    <3>1. \A b \in Attempt : ActiveKey(b)' = ActiveKey(b)
      BY <2>1 DEF ActiveKey
    <3> SUFFICES ASSUME NEW b \in Attempt, pc'[b] = "create",
                        NEW q \in RowsFor(OpOf[b])'
                 PROVE  ops'[q].key = ActiveKey(b)
      BY <3>1
    <3>2. CASE q = a
      BY <1>0, <2>3, <3>2
    <3>3. CASE q # a
      BY <2>4, <2>5, <2>6, <3>3 DEF KeyInv, RowsFor
    <3> QED
      BY <3>2, <3>3
  <2>9. OneRowPerOperation'
    BY <2>2, <2>6 DEF KeyInv, OneRowPerOperation
  <2> QED
    BY <2>7, <2>8, <2>9 DEF KeyInv
<1>3. ASSUME NEW a \in Attempt, ReserveLookup(a) \/ ReserveCreate(a) \/ ReserveFallback(a)
      PROVE  KeyInv'
  <2>1. CASE \E r \in Attempt : MigrateKey(a, r) /\ Adoptable(a, r) /\ Adopt(a, r)
                               /\ ReserveLookup(a)
    BY <1>1, <2>1
  <2>2. CASE ReserveCreate(a) /\ CanCreate(a) /\ CreateRow(a)
    BY <1>2, <2>2 DEF ReserveCreate
  <2>3. CASE UNCHANGED dbVars
    <3>1. nodeKey' = nodeKey
      BY <1>3 DEF ReserveLookup, ReserveCreate, ReserveFallback
    <3>2. \A q \in Attempt : pc'[q] = "create" => pc[q] = "create" \/ RowsFor(OpOf[q]) = {}
      BY <1>3, MissIsNoRow
      DEF ReserveLookup, ReserveCreate, ReserveFallback, Adopt, Goto, TypeOK
    <3> QED
      BY <2>3, <3>1, <3>2, QuietStepKeepsKeys
  <2> QED
    BY <1>3, <2>1, <2>2, <2>3 DEF ReserveLookup, ReserveCreate, ReserveFallback
<1>4. ASSUME NEW r \in Attempt, ops[r].state # "absent", nodeKey' = nodeKey,
             ops'[r].state # "absent", ops'[r].key = ops[r].key,
             \A q \in Attempt : q # r => ops'[q] = ops[q],
             \A q \in Attempt : pc'[q] = "create" => pc[q] = "create"
      PROVE  KeyInv'
  <2>1. \A q \in Attempt : ops'[q].key = ops[q].key
    BY <1>4
  <2>2. \A o : RowsFor(o)' = RowsFor(o)
    BY <1>4 DEF RowsFor
  <2>3. \A a \in Attempt : ActiveKey(a)' = ActiveKey(a)
    BY <1>4 DEF ActiveKey
  <2> QED
    BY <1>4, <2>1, <2>2, <2>3 DEF KeyInv, OneRowPerOperation, RowsFor
<1>5. ASSUME NEW a \in Attempt, SettleTx(a) PROVE KeyInv'
  <2> DEFINE r == sess[a].id
  <2>1. r \in Attempt /\ ops[r].state # "absent"
    BY <1>5 DEF SettleTx, SessionInv, Adopted
  <2>2. /\ nodeKey' = nodeKey
        /\ \A q \in Attempt : pc'[q] = "create" => pc[q] = "create"
    BY <1>5 DEF SettleTx, Goto, TypeOK
  <2>3. CASE UNCHANGED dbVars
    BY <2>2, <2>3, QuietStepKeepsKeys
  <2>4. ASSUME NEW s \in Settlement, SettleRow(r, s) PROVE KeyInv'
    <3>1. /\ ops'[r].state # "absent" /\ ops'[r].key = ops[r].key
          /\ \A q \in Attempt : q # r => ops'[q] = ops[q]
      BY <2>1, <2>4 DEF SettleRow, TypeOK, Row
    <3> QED
      BY <1>4, <2>1, <2>2, <3>1
  <2> QED
    BY <1>5, <2>3, <2>4 DEF SettleTx
<1>6. ASSUME NEW a \in Attempt, RefundTx(a) PROVE KeyInv'
  <2> DEFINE r == sess[a].id
  <2>1. r \in Attempt /\ ops[r].state # "absent"
    BY <1>6 DEF RefundTx, SessionInv, Adopted
  <2>2. /\ nodeKey' = nodeKey
        /\ \A q \in Attempt : pc'[q] = "create" => pc[q] = "create"
    BY <1>6 DEF RefundTx, Goto, TypeOK
  <2>3. CASE UNCHANGED dbVars
    BY <2>2, <2>3, QuietStepKeepsKeys
  <2>4. CASE RefundRow(r)
    <3>1. /\ ops'[r].state # "absent" /\ ops'[r].key = ops[r].key
          /\ \A q \in Attempt : q # r => ops'[q] = ops[q]
      BY <2>1, <2>4 DEF RefundRow, TypeOK, Row
    <3> QED
      BY <1>4, <2>1, <2>2, <3>1
  <2> QED
    BY <1>6, <2>3, <2>4 DEF RefundTx
<1>7. ASSUME NEW a \in Attempt, Arrive(a) \/ UpstreamFails(a) \/ FrozenCheck(a)
             \/ VerifyFrozen(a) \/ ReadOutbox(a) \/ RecordLog(a) \/ MarkOutbox(a) \/ Crash(a)
      PROVE  KeyInv'
  <2>1. ops' = ops /\ nodeKey' = nodeKey
    BY <1>7 DEF Arrive, UpstreamFails, FrozenCheck, VerifyFrozen, ReadOutbox, RecordLog,
                MarkOutbox, Crash, InsertLog, MarkDelivered
  <2>2. \A q \in Attempt : pc'[q] = "create" => pc[q] = "create"
    BY <1>7 DEF Arrive, UpstreamFails, FrozenCheck, VerifyFrozen, ReadOutbox, RecordLog,
                MarkOutbox, Crash, Goto, Finish, TypeOK
  <2> QED
    BY <2>1, <2>2, QuietStepKeepsKeys
<1>8. ASSUME NEW n \in Node, RotateKey(n) PROVE KeyInv'
  <2>1. ops' = ops /\ \A m \in Node : nodeKey'[m] = nodeKey[m] + 1 /\ nodeKey[m] \in Int
    BY <1>8 DEF RotateKey, SingleKeyRing, TypeOK
  <2>2. \A q \in Attempt : pc'[q] # "create"
    BY <1>8 DEF RotateKey, SingleKeyRing, Live
  <2>3. \A r \in Attempt : ops[r].key \in Int
    BY DEF TypeOK, Row
  <2>4. \A r \in Attempt, m \in Node :
          ops'[r].state # "absent" => ops'[r].key <= nodeKey'[m]
    BY <2>1, <2>3 DEF KeyInv
  <2>5. OneRowPerOperation'
    BY <2>1 DEF KeyInv, OneRowPerOperation, RowsFor
  <2> QED
    BY <2>2, <2>4, <2>5 DEF KeyInv
<1>9. CASE SetLogConsumeEnabled \/ ClearUsage \/ UNCHANGED vars
  <2>1. ops' = ops /\ nodeKey' = nodeKey /\ pc' = pc
    BY <1>9 DEF SetLogConsumeEnabled, ClearUsage, ResetCounters, DeleteUsageLogs, vars
  <2> QED
    BY <2>1, QuietStepKeepsKeys
<1> QED
  BY <1>3, <1>5, <1>6, <1>7, <1>8, <1>9 DEF Next, Step

LEMMA KeyInvariant == Spec => [](SingleKeyRing => KeyInv)
<1>1. Init => KeyInv
  BY DEF Init, DbInit, KeyInv, RowsFor, OneRowPerOperation
<1>2. TypeOK /\ SessionInv /\ (SingleKeyRing => KeyInv) /\ [Next]_vars
        => (SingleKeyRing => KeyInv)'
  BY KeyStep DEF SingleKeyRing
<1> QED
  BY <1>1, <1>2, TypeCorrect, PTL DEF Spec

\* Under one key ring, concurrent creation, retries, crashes and key
\* rotations never leave two rows for one business operation.
THEOREM OneReceiptPerOperation == Spec => [](SingleKeyRing => OneRowPerOperation)
<1>1. (SingleKeyRing => KeyInv) => (SingleKeyRing => OneRowPerOperation)
  BY DEF KeyInv
<1> QED
  BY <1>1, KeyInvariant, PTL

-----------------------------------------------------------------------------
(* Refinement *)

\* With one row per operation, the receipt of an operation is its row.
LEMMA ReceiptOfRow ==
  ASSUME OneRowPerOperation, NEW r \in Attempt, ops[r].state # "absent"
  PROVE  ReceiptOf(OpOf[r]) = [state |-> ops[r].state, quota |-> Held(r)]
<1>1. r \in RowsFor(OpOf[r]) /\ OpOf[r] \in Op
  BY DEF RowsFor
<1>2. RowOf(OpOf[r]) \in RowsFor(OpOf[r])
  BY <1>1 DEF RowOf
<1>3. RowOf(OpOf[r]) = r
  BY <1>1, <1>2 DEF OneRowPerOperation
<1> QED
  BY <1>1, <1>3 DEF ReceiptOf

LEMMA NextReceiptOfRow ==
  ASSUME OneRowPerOperation', NEW r \in Attempt, ops'[r].state # "absent"
  PROVE  ReceiptOf(OpOf[r])' = [state |-> ops'[r].state, quota |-> Held(r)']
<1>1. r \in RowsFor(OpOf[r])' /\ OpOf[r] \in Op
  BY DEF RowsFor
<1>2. RowOf(OpOf[r])' \in RowsFor(OpOf[r])'
  BY <1>1 DEF RowOf, RowsFor
<1>3. RowOf(OpOf[r])' = r
  BY <1>1, <1>2 DEF OneRowPerOperation
<1> QED
  BY <1>1, <1>3 DEF ReceiptOf, Held

LEMMA NoRowNoReceipt ==
  ASSUME NEW o \in Op, RowsFor(o) = {}
  PROVE  ReceiptOf(o) = [state |-> "none", quota |-> 0]
  BY DEF ReceiptOf

\* An operation none of whose rows changes keeps its receipt.
LEMMA ReceiptUnchanged ==
  ASSUME NEW o \in Op,
         \A q \in Attempt : OpOf[q] = o =>
           ops'[q].state = ops[q].state /\ ops'[q].actual = ops[q].actual
  PROVE  ReceiptOf(o)' = ReceiptOf(o)
<1>1. RowsFor(o)' = RowsFor(o)
  BY DEF RowsFor
<1>2. RowOf(o)' = RowOf(o)
  BY <1>1 DEF RowOf
<1>3. CASE RowsFor(o) = {}
  BY <1>1, <1>3 DEF ReceiptOf
<1>4. CASE RowsFor(o) # {}
  <2>1. RowOf(o) \in Attempt /\ OpOf[RowOf(o)] = o
    BY <1>4 DEF RowOf, RowsFor
  <2>2. Held(RowOf(o))' = Held(RowOf(o))
    BY <1>2, <2>1 DEF Held
  <2> QED
    BY <1>1, <1>2, <1>4, <2>1, <2>2 DEF ReceiptOf
<1> QED
  BY <1>3, <1>4

LEMMA InitRefines == Init => Contract!Init
<1> SUFFICES ASSUME Init PROVE Contract!Init
  OBVIOUS
<1>1. \A o \in Op : ReceiptOf(o) = [state |-> "none", quota |-> 0]
  BY DEF Init, DbInit, RowsFor, ReceiptOf
<1>2. token.remain = InitialQuota
  BY DEF Init, DbInit
<1> QED
  BY <1>1, <1>2 DEF Contract!Init, Contract!NoReceipt

\* The guard of a charge is the guard the contract puts on the balance.
LEMMA ChargePays ==
  ASSUME TypeOK, QuotaInv, NEW q \in Int, Charge(q),
         IF q > 0 THEN Covers(q) ELSE CanGiveBack(-q)
  PROVE  Contract!Pay(q)
<1>1. token.remain \in Int
  BY DEF TypeOK
<1>2. CASE Playground
  BY <1>1, <1>2 DEF Charge, QuotaInv, Contract!Pay
<1>3. CASE ~ Playground
  <2>1. token'.remain = token.remain - q
    BY <1>3 DEF Charge
  <2> QED
    BY <1>1, <1>3, <2>1 DEF Covers, Contract!Pay
<1> QED
  BY <1>2, <1>3

\* Every change of the database is a step of the contract or none at all.
LEMMA RefineStep ==
  ASSUME TypeOK, SessionInv, QuotaInv, OneRowPerOperation, OneRowPerOperation', DbStep
  PROVE  [Contract!Next]_<<[o \in Op |-> ReceiptOf(o)], token.remain>>
<1> DEFINE receipt == [o \in Op |-> ReceiptOf(o)]
           Q == [Contract!Next]_<<[o \in Op |-> ReceiptOf(o)], token.remain>>
<1>1. ASSUME token'.remain = token.remain,
             \A q \in Attempt : ops'[q].state = ops[q].state /\ ops'[q].actual = ops[q].actual
      PROVE  Q
  BY <1>1, ReceiptUnchanged
<1>2. ASSUME NEW a \in Attempt, NEW r \in Attempt, MigrateKey(a, r) PROVE Q
  <2>1. \A q \in Attempt : ops'[q].state = ops[q].state /\ ops'[q].actual = ops[q].actual
    BY <1>2 DEF MigrateKey, TypeOK, Row
  <2> QED
    BY <1>1, <1>2, <2>1 DEF MigrateKey
<1>3. ASSUME NEW a \in Attempt, pc[a] = "create", CanCreate(a), CreateRow(a)
      PROVE  Q
  <2> DEFINE o == OpOf[a]
             R == ReserveOf[a]
  <2>1. o \in Op /\ R \in Nat /\ ops[a].state = "absent"
    BY <1>3 DEF SessionInv
  <2>2. ops'[a].state = "reserved" /\ \A q \in Attempt : q # a => ops'[q] = ops[q]
    BY <1>3 DEF CreateRow, TypeOK
  <2>3. RowsFor(o) = {}
    <3>1. \A q \in RowsFor(o) : q \in RowsFor(o)' /\ q # a
      BY <2>1, <2>2 DEF RowsFor
    <3>2. a \in RowsFor(o)'
      BY <2>2 DEF RowsFor
    <3> QED
      BY <2>1, <3>1, <3>2 DEF OneRowPerOperation
  <2>4. receipt[o] = [state |-> "none", quota |-> 0]
    BY <2>1, <2>3, NoRowNoReceipt
  <2>5. ReceiptOf(o)' = [state |-> "reserved", quota |-> R]
    <3>1. ReceiptOf(o)' = [state |-> ops'[a].state, quota |-> Held(a)']
      BY <2>2, NextReceiptOfRow
    <3> QED
      BY <2>2, <3>1 DEF Held
  <2>6. \A p \in Op : p # o => ReceiptOf(p)' = ReceiptOf(p)
    BY <2>2, ReceiptUnchanged
  <2>7. receipt' = [receipt EXCEPT ![o] = [state |-> "reserved", quota |-> R]]
    BY <2>1, <2>5, <2>6
  <2>8. Contract!Pay(R)
    <3>1. IF R > 0 THEN Covers(R) ELSE CanGiveBack(- R)
      BY <1>3, <2>1 DEF CanCreate, CanGiveBack
    <3> QED
      BY <1>3, <2>1, <3>1, ChargePays DEF CreateRow
  <2>9. Contract!Reserve(o, R)
    BY <2>4, <2>7, <2>8 DEF Contract!Reserve, Contract!NoReceipt
  <2> QED
    BY <2>1, <2>9 DEF Contract!Next
<1>4. ASSUME NEW r \in Attempt, NEW s \in Settlement, ops[r].state = "reserved",
             CanSettle(r, s), SettleRow(r, s)
      PROVE  Q
  <2> DEFINE o == OpOf[r]
  <2>1. o \in Op /\ s.quota \in Nat /\ ReserveOf[r] \in Nat
    OBVIOUS
  <2>2. /\ ops'[r].state = "settled" /\ ops'[r].actual = s.quota
        /\ \A q \in Attempt : q # r => ops'[q] = ops[q]
    BY <1>4 DEF SettleRow, TypeOK, Row
  <2>3. receipt[o] = [state |-> "reserved", quota |-> ReserveOf[r]]
    BY <1>4, <2>1, ReceiptOfRow DEF Held
  <2>4. ReceiptOf(o)' = [state |-> "settled", quota |-> s.quota]
    <3>1. ReceiptOf(o)' = [state |-> ops'[r].state, quota |-> Held(r)']
      BY <2>2, NextReceiptOfRow
    <3> QED
      BY <2>2, <3>1 DEF Held
  <2>5. \A p \in Op : p # o => ReceiptOf(p)' = ReceiptOf(p)
    BY <2>2, ReceiptUnchanged
  <2>6. receipt' = [receipt EXCEPT ![o] = [state |-> "settled", quota |-> s.quota]]
    BY <2>1, <2>4, <2>5
  <2>7. Contract!Pay(s.quota - ReserveOf[r])
    BY <1>4, <2>1, ChargePays DEF CanSettle, SettleRow, Delta
  <2>8. Contract!Settle(o, s.quota)
    BY <2>3, <2>6, <2>7 DEF Contract!Settle
  <2> QED
    BY <2>1, <2>8 DEF Contract!Next
<1>5. ASSUME NEW r \in Attempt, ops[r].state = "reserved", CanRefund(r), RefundRow(r)
      PROVE  Q
  <2> DEFINE o == OpOf[r]
  <2>1. o \in Op /\ ReserveOf[r] \in Nat
    OBVIOUS
  <2>2. /\ ops'[r].state = "refunded"
        /\ \A q \in Attempt : q # r => ops'[q] = ops[q]
    BY <1>5 DEF RefundRow, TypeOK, Row
  <2>3. receipt[o] = [state |-> "reserved", quota |-> ReserveOf[r]]
    BY <1>5, <2>1, ReceiptOfRow DEF Held
  <2>4. ReceiptOf(o)' = [state |-> "refunded", quota |-> 0]
    <3>1. ReceiptOf(o)' = [state |-> ops'[r].state, quota |-> Held(r)']
      BY <2>2, NextReceiptOfRow
    <3> QED
      BY <2>2, <3>1 DEF Held
  <2>5. \A p \in Op : p # o => ReceiptOf(p)' = ReceiptOf(p)
    BY <2>2, ReceiptUnchanged
  <2>6. receipt' = [receipt EXCEPT ![o] = [state |-> "refunded", quota |-> 0]]
    BY <2>1, <2>4, <2>5
  <2>7. Contract!Pay(- ReserveOf[r])
    <3>1. - ReserveOf[r] \in Int /\ ~ (- ReserveOf[r] > 0) /\ -(- ReserveOf[r]) = ReserveOf[r]
      BY <2>1
    <3> QED
      BY <1>5, <3>1, ChargePays DEF CanRefund, RefundRow
  <2>8. Contract!Refund(o)
    BY <2>3, <2>6, <2>7 DEF Contract!Refund
  <2> QED
    BY <2>1, <2>8 DEF Contract!Next
<1>6. CASE UNCHANGED dbVars \/ ResetCounters \/ DeleteUsageLogs
           \/ \E r \in Attempt : InsertLog(r) \/ \E mark : MarkDelivered(r, mark)
  <2>1. ops' = ops /\ token'.remain = token.remain
    BY <1>6 DEF ResetCounters, DeleteUsageLogs, InsertLog, MarkDelivered, TypeOK
  <2> QED
    BY <1>1, <2>1
<1> QED
  BY <1>2, <1>3, <1>4, <1>5, <1>6 DEF DbStep

\* Under one key ring, durable billing implements its contract: one receipt
\* per operation, reserved once and then settled or refunded once, and a
\* token balance that moves with the receipts and in no other way.
THEOREM BillingRefinesContract ==
  ASSUME SingleKeyRing PROVE Spec => ImplementsContract
<1>1. Init => Contract!Init
  BY InitRefines
<1>2. TypeOK /\ SessionInv /\ QuotaInv /\ (SingleKeyRing => OneRowPerOperation)
        /\ (SingleKeyRing => OneRowPerOperation)' /\ [Next]_vars
        => [Contract!Next]_<<[o \in Op |-> ReceiptOf(o)], token.remain>>
  BY NextIsDbStep, RefineStep DEF SingleKeyRing
<1> QED
  BY <1>1, <1>2, TypeCorrect, QuotaInvariant, OneReceiptPerOperation, PTL
  DEF Spec, ImplementsContract, Contract!Spec
=============================================================================
