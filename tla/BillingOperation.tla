------------------------- MODULE BillingOperation -------------------------
(***************************************************************************)
(* The main-database side of durable billing: the token row, the usage     *)
(* counters, the billing_operations table, its log outbox and the log      *)
(* table, and the transactions of model/billing_operation.go on them.      *)
(*                                                                         *)
(* A client attempt inserts at most one billing_operations row, so a row   *)
(* is named by the attempt that inserted it: row r belongs to business     *)
(* operation OpOf[r], freezes fingerprint FpOf[r] and reserves             *)
(* ReserveOf[r].  FpOf stands for the request fingerprint together with    *)
(* the user, token, channel and playground identity, which the code        *)
(* compares one by one with the same outcome.                              *)
(***************************************************************************)
EXTENDS Integers

CONSTANTS
  Attempt,       \* client attempts (one HTTP request each)
  Op,            \* business operations: owner, conversation, revision, purpose
  Node,          \* gateway processes
  OpOf,          \* the operation an attempt is for
  NodeOf,        \* the process that serves an attempt
  FpOf,          \* the fingerprint of an attempt
  ReserveOf,     \* QuotaToPreConsume of an attempt
  Settlement,    \* what upstream may have cost: [quota |-> n, counted |-> b]
  MaxKey,        \* bound on HMAC key versions
  InitialQuota,  \* remain_quota of the token at the start
  Unlimited,     \* unlimited_quota of the token
  Playground     \* IsPlayground: token accounting is bypassed

ASSUME MappingAssumption ==
  /\ OpOf \in [Attempt -> Op]
  /\ NodeOf \in [Attempt -> Node]
  /\ ReserveOf \in [Attempt -> Nat]

ASSUME QuotaAssumption ==
  /\ Settlement \subseteq [quota : Nat, counted : BOOLEAN]
  /\ MaxKey \in Nat \ {0}
  /\ InitialQuota \in Nat
  /\ Unlimited \in BOOLEAN
  /\ Playground \in BOOLEAN

VARIABLES
  token,    \* [remain, used] of the API token
  erased,   \* token.used_quota thrown away by usage resets (history)
  usage,    \* [quota, requests, channel]: users and channels counters
  ops,      \* billing_operations
  outbox,   \* billing_operation_log_outboxes
  logs,     \* rows of the log table, by billing_operation_id
  nodeKey   \* the active key version each process was started with

dbVars == <<token, erased, usage, ops, outbox, logs>>

RowState == {"absent", "reserved", "settled", "refunded"}
Row == [state : RowState, key : 1..MaxKey, actual : Nat, counted : BOOLEAN]
OutboxState == {"none", "pending", "logged", "skipped"}

DbInit ==
  /\ token = [remain |-> InitialQuota, used |-> 0]
  /\ erased = 0
  /\ usage = [quota |-> 0, requests |-> 0, channel |-> 0]
  /\ ops = [r \in Attempt |->
              [state |-> "absent", key |-> 1, actual |-> 0, counted |-> FALSE]]
  /\ outbox = [r \in Attempt |-> "none"]
  /\ logs = {}
  /\ nodeKey = [n \in Node |-> 1]

-----------------------------------------------------------------------------
(* Lookup candidates are derived from the active key and all previous ones *)
(* of the process; the active one comes first.                             *)

ActiveKey(a) == nodeKey[NodeOf[a]]
Candidates(a) == 1..ActiveKey(a)

RowsFor(o) == {r \in Attempt : ops[r].state # "absent" /\ OpOf[r] = o}

\* findBillingOperation: every row one of the candidates locates.
Found(a) == {r \in RowsFor(OpOf[a]) : ops[r].key \in Candidates(a)}

LookupMiss(a) == Found(a) = {}

\* Exactly one row, and it was frozen for the same request.
LookupHit(a, r) == Found(a) = {r} /\ FpOf[r] = FpOf[a]

\* The row a retry may continue with.
Adoptable(a, r) == LookupHit(a, r) /\ ops[r].state # "refunded"

\* Seeded bug: the conditional update lost its WHERE clause.
OverdraftCovers(q) == TRUE

\* "unlimited_quota = true OR remain_quota >= ?"; nothing is asked of the
\* token when no quota moves.
Covers(q) == Playground \/ q = 0 \/ Unlimited \/ token.remain >= q

\* Seeded bug: a decrease without the used_quota guard.
UncheckedGiveBack(q) == TRUE

\* "used_quota >= ?" of a decrease.
CanGiveBack(q) == Playground \/ q = 0 \/ token.used >= q

\* remain_quota - q, used_quota + q (q may be negative).
Charge(q) ==
  token' = IF Playground
             THEN token
             ELSE [remain |-> token.remain - q, used |-> token.used + q]

-----------------------------------------------------------------------------
(* ReserveBillingOperation *)

\* The transaction finds the row and moves it to the active key.
MigrateKey(a, r) ==
  /\ ops' = [ops EXCEPT ![r].key = ActiveKey(a)]
  /\ UNCHANGED <<token, erased, usage, outbox, logs>>

\* Seeded bug: the unique index is missing.
NoUniqueKey(a) == TRUE

\* idx_billing_operation_business: the HMACs, hence the key version, are
\* part of the unique key.
UniqueKeyFree(a) == \A r \in RowsFor(OpOf[a]) : ops[r].key # ActiveKey(a)

CanCreate(a) == Covers(ReserveOf[a]) /\ UniqueKeyFree(a)

CreateRow(a) ==
  /\ Charge(ReserveOf[a])
  /\ ops' = [ops EXCEPT ![a] = [state |-> "reserved", key |-> ActiveKey(a),
                                actual |-> 0, counted |-> FALSE]]
  /\ UNCHANGED <<erased, usage, outbox, logs>>

-----------------------------------------------------------------------------
(* SettleBillingOperation on a row still reserved *)

\* Seeded bug: the reservation is not deducted from the price.
FullPrice(r, s) == s.quota

Delta(r, s) == s.quota - ReserveOf[r]

CanSettle(r, s) ==
  IF Delta(r, s) > 0 THEN Covers(Delta(r, s)) ELSE CanGiveBack(- Delta(r, s))

\* Seeded bug: the price is taken off the user's consumption.
CountDown(r, s) == usage' = [usage EXCEPT !.quota = @ - s.quota]

CountUsage(r, s) ==
  usage' = IF s.counted
             THEN [quota    |-> usage.quota + s.quota,
                   requests |-> usage.requests + 1,
                   channel  |-> usage.channel + s.quota]
             ELSE usage

SettleRow(r, s) ==
  /\ Charge(Delta(r, s))
  /\ CountUsage(r, s)
  /\ ops' = [ops EXCEPT ![r].state = "settled", ![r].actual = s.quota,
                        ![r].counted = s.counted]
  /\ outbox' = [outbox EXCEPT ![r] = "pending"]
  /\ UNCHANGED <<erased, logs>>

-----------------------------------------------------------------------------
(* RefundBillingOperation on a row still reserved *)

\* Seeded bug: the state of the locked row is not looked at.
AnyRefundable(r) == ops[r].state # "refunded"

Refundable(r) == ops[r].state = "reserved"

CanRefund(r) == CanGiveBack(ReserveOf[r])

\* Seeded bug: the refund forgets used_quota.
RefundRowKeepsUsed(r) ==
  /\ token' = [token EXCEPT !.remain = @ + ReserveOf[r]]
  /\ ops' = [ops EXCEPT ![r].state = "refunded"]
  /\ UNCHANGED <<erased, usage, outbox, logs>>

\* Seeded bug: the refunded row is removed, and its operation can start again.
RefundRowAway(r) ==
  /\ Charge(-ReserveOf[r])
  /\ ops' = [ops EXCEPT ![r].state = "absent"]
  /\ UNCHANGED <<erased, usage, outbox, logs>>

RefundRow(r) ==
  /\ Charge(-ReserveOf[r])
  /\ ops' = [ops EXCEPT ![r].state = "refunded"]
  /\ UNCHANGED <<erased, usage, outbox, logs>>

-----------------------------------------------------------------------------
(* DeliverBillingOperationConsumeLog: the log insert (on conflict do       *)
(* nothing) and the delivered compare-and-swap are separate statements on  *)
(* separate databases.                                                     *)

InsertLog(r) ==
  /\ logs' = logs \union {r}
  /\ UNCHANGED <<token, erased, usage, ops, outbox>>

MarkDelivered(r, mark) ==
  /\ outbox' = [outbox EXCEPT ![r] = IF @ = "pending" THEN mark ELSE @]
  /\ UNCHANGED <<token, erased, usage, ops, logs>>

-----------------------------------------------------------------------------
(* ResetUsageAccumulations, the root-only "clear usage" endpoint: one      *)
(* transaction for the counters, then the usage logs.                      *)

ResetCounters ==
  /\ token' = [token EXCEPT !.used = 0]
  /\ erased' = erased + token.used
  /\ usage' = [usage EXCEPT !.quota = 0, !.requests = 0]
  /\ UNCHANGED <<ops, outbox, logs>>

DeleteUsageLogs ==
  /\ logs' = {}
  /\ UNCHANGED <<token, erased, usage, ops, outbox>>

=============================================================================
