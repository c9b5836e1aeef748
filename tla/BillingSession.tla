-------------------------- MODULE BillingSession --------------------------
(***************************************************************************)
(* The service side of durable billing: what one request does with its     *)
(* billing operation, from the reservation before the upstream call to the *)
(* settlement, the consume log and the refund (service/billing_operation,  *)
(* service/billing_session, the settlement part of service/text_quota and  *)
(* the checks controller/relay and managed execution make of the result).  *)
(* Attempts run concurrently; a client retry is another attempt for the    *)
(* same operation.  Each database transaction is one step, and whatever    *)
(* the code does between two transactions is left to interleave.           *)
(***************************************************************************)
EXTENDS BillingOperation, FiniteSetsExt

CONSTANTS
  Faults,   \* which failures the environment may inject
  NoRow     \* billingOperationId = 0

FaultKinds == {"crash",      \* the process dies
               "cache",      \* Redis refuses the token cache invalidation
               "reserveTx", "settleTx", "refundTx",  \* COMMIT fails
               "ack",        \* COMMIT succeeds, its answer is lost
               "db",         \* a statement outside the transactions fails
               "log",        \* the log database refuses the insert
               "rotate",     \* a process restarts with the next key
               "reset"}      \* root clears the accumulated usage

ASSUME SessionAssumption == Faults \subseteq FaultKinds /\ NoRow \notin Attempt

VARIABLES
  pc,          \* where each attempt is
  sess,        \* its BillingSession: [id, state], id = NoRow before adoption
  logEnabled,  \* common.LogConsumeEnabled
  clearing     \* ResetUsageAccumulations is between its two databases

vars == <<token, erased, usage, ops, outbox, logs, nodeKey, pc, sess,
          logEnabled, clearing>>

Live == {"lookup", "create", "fallback", "upstream", "settle", "verify",
         "outbox", "record", "markLogged", "markSkipped", "refund"}
Ended == {"idle", "done", "failed", "rejected", "crashed"}
SessionState == {"none", "reserved", "settled", "refunded"}
NoSession == [id |-> NoRow, state |-> "none"]

TypeOK ==
  /\ token \in [remain : Int, used : Int]
  /\ erased \in Int
  /\ usage \in [quota : Nat, requests : Nat, channel : Nat]
  /\ ops \in [Attempt -> Row]
  /\ outbox \in [Attempt -> OutboxState]
  /\ logs \subseteq Attempt
  /\ nodeKey \in [Node -> 1..MaxKey]
  /\ pc \in [Attempt -> Live \union Ended]
  /\ sess \in [Attempt -> [id : Attempt \union {NoRow}, state : SessionState]]
  /\ logEnabled \in BOOLEAN
  /\ clearing \in BOOLEAN

Init ==
  /\ DbInit
  /\ pc = [a \in Attempt |-> "idle"]
  /\ sess = [a \in Attempt |-> NoSession]
  /\ logEnabled \in BOOLEAN
  /\ clearing = FALSE

Goto(a, l) == pc' = [pc EXCEPT ![a] = l]
Remember(a, st) == sess' = [sess EXCEPT ![a].state = st]

-----------------------------------------------------------------------------
(* reserveBillingOperation *)

\* The client sends the request.
Arrive(a) ==
  /\ pc[a] = "idle"
  /\ Goto(a, "lookup")
  /\ UNCHANGED <<dbVars, nodeKey, sess, logEnabled, clearing>>

\* The session takes over row r as it now is.  A failed cache invalidation
\* returns before the session knows its operation: nobody will refund it.
Adopt(a, r) ==
  \/ /\ sess' = [sess EXCEPT ![a] = [id |-> r, state |-> ops'[r].state]]
     /\ Goto(a, "upstream")
  \/ /\ "cache" \in Faults
     /\ Goto(a, "rejected")
     /\ UNCHANGED sess

ReserveLookup(a) ==
  /\ pc[a] = "lookup"
  /\ \/ /\ \E r \in Attempt :
             /\ Adoptable(a, r)
             /\ MigrateKey(a, r)
             /\ Adopt(a, r)
     \/ /\ LookupMiss(a)
        /\ Goto(a, "create")
        /\ UNCHANGED <<dbVars, sess>>
     \/ /\ \/ "reserveTx" \in Faults
           \/ ~ LookupMiss(a) /\ ~ \E r \in Attempt : Adoptable(a, r)
        /\ Goto(a, "fallback")
        /\ UNCHANGED <<dbVars, sess>>
  /\ UNCHANGED <<nodeKey, logEnabled, clearing>>

\* The second half of the transaction: the select saw no row to lock, so
\* another attempt may have inserted one since.
ReserveCreate(a) ==
  /\ pc[a] = "create"
  /\ \/ /\ CanCreate(a)
        /\ CreateRow(a)
        /\ Adopt(a, a)
     \/ /\ CanCreate(a)
        /\ "ack" \in Faults
        /\ CreateRow(a)
        /\ Goto(a, "fallback")
        /\ UNCHANGED sess
     \/ /\ ~ CanCreate(a) \/ "reserveTx" \in Faults
        /\ Goto(a, "fallback")
        /\ UNCHANGED <<dbVars, sess>>
  /\ UNCHANGED <<nodeKey, logEnabled, clearing>>

\* After any error of the transaction: look once more, without the lock and
\* without moving the row to the active key.  When this look fails as well the
\* request ends, and a row whose COMMIT answer was lost stays without a session.
ReserveFallback(a) ==
  /\ pc[a] = "fallback"
  /\ \/ \E r \in Attempt : Adoptable(a, r) /\ UNCHANGED dbVars /\ Adopt(a, r)
     \/ /\ "db" \in Faults \/ ~ \E r \in Attempt : Adoptable(a, r)
        /\ Goto(a, "rejected")
        /\ UNCHANGED <<dbVars, sess>>
  /\ UNCHANGED <<nodeKey, logEnabled, clearing>>

-----------------------------------------------------------------------------
(* The upstream call, then PostTextConsumeQuotaResult *)

\* Seeded bug: the error path forgets the deferred Refund.
UpstreamFailsQuietly(a) ==
  /\ pc[a] = "upstream"
  /\ Goto(a, "failed")
  /\ UNCHANGED <<dbVars, nodeKey, sess, logEnabled, clearing>>

\* Upstream fails, or its answer is unusable: the deferred Refund follows.
UpstreamFails(a) ==
  /\ pc[a] = "upstream"
  /\ Goto(a, "refund")
  /\ UNCHANGED <<dbVars, nodeKey, sess, logEnabled, clearing>>

\* Upstream answered.  frozenTextSettlement first asks whether the operation
\* was settled already; a receipt without a consume log fails the request.
FrozenCheck(a) ==
  LET r == sess[a].id IN
  /\ pc[a] = "upstream"
  /\ \/ ops[r].state # "settled" /\ Goto(a, "settle")
     \/ ops[r].state = "settled" /\ outbox[r] = "pending" /\ Goto(a, "outbox")
     \/ ops[r].state = "settled" /\ outbox[r] = "logged" /\ Goto(a, "done")
     \/ ops[r].state = "settled" /\ outbox[r] = "skipped" /\ Goto(a, "refund")
     \/ "db" \in Faults /\ Goto(a, "refund")
  /\ UNCHANGED <<dbVars, nodeKey, sess, logEnabled, clearing>>

\* settleTextBillingOperation up to the cache invalidation.  The closure of
\* the transaction stores "settled" in the returned operation before COMMIT,
\* and the caller copies it into the session whatever COMMIT answered.
SettleTx(a) ==
  LET r == sess[a].id
      AfterCommit == \/ Goto(a, "outbox")
                     \/ "cache" \in Faults /\ Goto(a, "refund")
  IN
  /\ pc[a] = "settle"
  /\ \/ /\ ops[r].state = "settled"
        /\ Remember(a, "settled")
        /\ AfterCommit
        /\ UNCHANGED dbVars
     \/ /\ ops[r].state = "refunded"
        /\ Goto(a, "verify")
        /\ UNCHANGED <<dbVars, sess>>
     \/ /\ ops[r].state = "reserved"
        /\ \E s \in Settlement :
             \/ /\ CanSettle(r, s)
                /\ SettleRow(r, s)
                /\ Remember(a, "settled")
                /\ \/ AfterCommit
                   \/ "ack" \in Faults /\ Goto(a, "verify")
             \/ /\ CanSettle(r, s)
                /\ "settleTx" \in Faults
                /\ Remember(a, "settled")
                /\ Goto(a, "verify")
                /\ UNCHANGED dbVars
             \/ /\ ~ CanSettle(r, s)
                /\ Goto(a, "verify")
                /\ UNCHANGED <<dbVars, sess>>
  /\ UNCHANGED <<nodeKey, logEnabled, clearing>>

\* Seeded bug: the failed transaction is taken for a settlement.
TrustingVerify(a) ==
  /\ pc[a] = "verify"
  /\ Remember(a, "settled")
  /\ Goto(a, "outbox")
  /\ UNCHANGED <<dbVars, nodeKey, logEnabled, clearing>>

\* The transaction reported an error: only a durable receipt counts.
VerifyFrozen(a) ==
  LET r == sess[a].id IN
  /\ pc[a] = "verify"
  /\ \/ /\ ops[r].state = "settled"
        /\ Remember(a, "settled")
        /\ Goto(a, "outbox")
     \/ /\ ops[r].state # "settled" \/ "db" \in Faults
        /\ Goto(a, "refund")
        /\ UNCHANGED sess
  /\ UNCHANGED <<dbVars, nodeKey, logEnabled, clearing>>

-----------------------------------------------------------------------------
(* DeliverBillingOperationConsumeLog *)

\* Seeded bug: LogRecorded is not checked.
FinishAnyMark(a, mark) == Goto(a, "done")

\* A delivered receipt ends the request, with an error if no log was
\* written (validateManagedRelayResult), if the receipt cannot be read back
\* or if the cache invalidation had failed before.
Finish(a, mark) ==
  \/ mark = "logged" /\ Goto(a, "done")
  \/ mark = "skipped" /\ Goto(a, "refund")
  \/ Faults \intersect {"db", "cache"} # {} /\ Goto(a, "refund")

ReadOutbox(a) ==
  LET r == sess[a].id IN
  /\ pc[a] = "outbox"
  /\ \/ outbox[r] = "pending" /\ Goto(a, "record")
     \/ outbox[r] # "pending" /\ Finish(a, outbox[r])
     \/ "db" \in Faults /\ Goto(a, "refund")
  /\ UNCHANGED <<dbVars, nodeKey, sess, logEnabled, clearing>>

\* Seeded bug: the delivery is marked without the insert.
SkipInsert(a) ==
  /\ pc[a] = "record"
  /\ Goto(a, "markLogged")
  /\ UNCHANGED <<dbVars, nodeKey, sess, logEnabled, clearing>>

RecordLog(a) ==
  /\ pc[a] = "record"
  /\ \/ logEnabled /\ InsertLog(sess[a].id) /\ Goto(a, "markLogged")
     \/ ~ logEnabled /\ UNCHANGED dbVars /\ Goto(a, "markSkipped")
     \/ "log" \in Faults /\ UNCHANGED dbVars /\ Goto(a, "refund")
  /\ UNCHANGED <<nodeKey, sess, logEnabled, clearing>>

\* A lost race reports what the winner wrote.
MarkOutbox(a) ==
  LET r == sess[a].id IN
  /\ pc[a] \in {"markLogged", "markSkipped"}
  /\ \/ /\ MarkDelivered(r, IF pc[a] = "markLogged" THEN "logged" ELSE "skipped")
        /\ Finish(a, outbox'[r])
     \/ "db" \in Faults /\ UNCHANGED dbVars /\ Goto(a, "refund")
  /\ UNCHANGED <<nodeKey, sess, logEnabled, clearing>>

-----------------------------------------------------------------------------
(* refundBillingOperation *)

RefundTx(a) ==
  LET r == sess[a].id IN
  /\ pc[a] = "refund"
  /\ Goto(a, "failed")
  /\ \/ /\ sess[a].state \in {"settled", "refunded"}
        /\ UNCHANGED <<dbVars, sess>>
     \/ /\ sess[a].state = "reserved"
        /\ ~ Refundable(r)
        /\ Remember(a, ops[r].state)
        /\ UNCHANGED dbVars
     \/ /\ sess[a].state = "reserved"
        /\ Refundable(r)
        /\ CanRefund(r)
        /\ RefundRow(r)
        /\ \/ Remember(a, "refunded")
           \/ "ack" \in Faults /\ UNCHANGED sess
     \/ /\ sess[a].state = "reserved"
        /\ Refundable(r)
        /\ ~ CanRefund(r) \/ "refundTx" \in Faults
        /\ UNCHANGED <<dbVars, sess>>
  /\ UNCHANGED <<nodeKey, logEnabled, clearing>>

-----------------------------------------------------------------------------
(* The environment *)

Crash(a) ==
  /\ "crash" \in Faults
  /\ pc[a] \in Live
  /\ Goto(a, "crashed")
  /\ UNCHANGED <<dbVars, nodeKey, sess, logEnabled, clearing>>

\* Process n is restarted with a new active key; the old one stays in the
\* list of previous keys, and the requests it was serving are lost.
RotateKey(n) ==
  /\ "rotate" \in Faults
  /\ nodeKey[n] < MaxKey
  /\ nodeKey' = [nodeKey EXCEPT ![n] = @ + 1]
  /\ pc' = [a \in Attempt |->
              IF NodeOf[a] = n /\ pc[a] \in Live THEN "crashed" ELSE pc[a]]
  /\ UNCHANGED <<dbVars, sess, logEnabled, clearing>>

SetLogConsumeEnabled ==
  /\ logEnabled' = ~ logEnabled
  /\ UNCHANGED <<dbVars, nodeKey, pc, sess, clearing>>

\* The counters are cleared in one transaction, the usage logs after it.
ClearUsage ==
  \/ /\ "reset" \in Faults
     /\ ~ clearing
     /\ ResetCounters
     /\ clearing' = TRUE
     /\ UNCHANGED <<nodeKey, pc, sess, logEnabled>>
  \/ /\ clearing
     /\ \/ DeleteUsageLogs
        \/ "log" \in Faults /\ UNCHANGED dbVars
     /\ clearing' = FALSE
     /\ UNCHANGED <<nodeKey, pc, sess, logEnabled>>

\* What the process serving a does by itself.
Step(a) ==
  \/ ReserveLookup(a) \/ ReserveCreate(a) \/ ReserveFallback(a)
  \/ UpstreamFails(a) \/ FrozenCheck(a) \/ SettleTx(a) \/ VerifyFrozen(a)
  \/ ReadOutbox(a) \/ RecordLog(a) \/ MarkOutbox(a) \/ RefundTx(a)

Next ==
  \/ \E a \in Attempt : Arrive(a) \/ Step(a) \/ Crash(a)
  \/ \E n \in Node : RotateKey(n)
  \/ SetLogConsumeEnabled
  \/ ClearUsage

Spec == Init /\ [][Next]_vars

\* A request that arrived runs to its end: every call it makes has a
\* deadline.
FairSpec == Spec /\ \A a \in Attempt : WF_vars(Step(a))

-----------------------------------------------------------------------------
(* What durable billing promises *)

\* No transaction, retry or lost answer creates or destroys quota: what the
\* token lost in remain_quota is in used_quota, or was there when root
\* cleared the usage.
QuotaConserved == token.remain + token.used + erased = InitialQuota

\* A limited token is never overdrawn, and repeated refunds never lift the
\* balance above what it was.
BalanceBounded ==
  /\ Unlimited \/ token.remain >= 0
  /\ token.remain <= InitialQuota

\* What row r keeps of the token.
Held(r) ==
  IF ops[r].state = "reserved" THEN ReserveOf[r]
  ELSE IF ops[r].state = "settled" THEN ops[r].actual
  ELSE 0

\* What row r added to the used quota of its channel.
Counted(r) ==
  IF ops[r].state = "settled" /\ ops[r].counted THEN ops[r].actual ELSE 0

TokenChargedOnce ==
  Playground \/ token.used + erased = MapThenSumSet(Held, Attempt)

ChannelCountedOnce == usage.channel = MapThenSumSet(Counted, Attempt)

\* The counters agree with the receipts, however often each operation was
\* retried: the token is charged for exactly the open reservations and the
\* settled receipts, the channel (which no reset touches) has counted every
\* settled receipt once, and the used quota never falls below zero, not even
\* when root clears it under open reservations: their give-back is refused.
CountersMatchReceipts ==
  /\ TokenChargedOnce
  /\ ChannelCountedOnce
  /\ token.used >= 0

\* Concurrent creation and retries converge on one row per operation.
OneRowPerOperation ==
  \A o \in Op : \A q, r \in RowsFor(o) : q = r

\* A client that was told its request succeeded has a settled receipt whose
\* consume log was written.
ReceiptIsDurable ==
  \A a \in Attempt : pc[a] = "done" =>
    /\ ops[sess[a].id].state = "settled"
    /\ outbox[sess[a].id] = "logged"

\* The consume log and the outbox follow the settlement: none without the
\* other, and a delivery marked as logged has its log until root deletes it.
LogFollowsSettlement ==
  /\ \A r \in Attempt : (outbox[r] # "none") <=> (ops[r].state = "settled")
  /\ \A r \in logs : ops[r].state = "settled"
  /\ "reset" \notin Faults =>
       \A r \in Attempt : outbox[r] = "logged" => r \in logs

\* A session that believes its operation settled is right: otherwise it
\* would skip the refund of a reservation that is still open.
SessionSettledIsDurable ==
  \A a \in Attempt :
    sess[a].state = "settled" => ops[sess[a].id].state = "settled"

\* A request that ended in an error after its refund was tried leaves no
\* reservation behind.
FailedRequestIsRefunded ==
  \A a \in Attempt : pc[a] = "failed" => ops[sess[a].id].state # "reserved"

\* A settled row is never refunded or settled again, a refunded row never
\* settled or reserved again, and the frozen amounts stay.
FrozenReceipt ==
  [][\A r \in Attempt : ops[r].state \in {"settled", "refunded"} =>
       /\ ops'[r].state = ops[r].state
       /\ ops'[r].actual = ops[r].actual
       /\ ops'[r].counted = ops[r].counted]_vars

\* Nobody knows of row r: its creator was turned away without a session, since
\* both the answer of its COMMIT and the look-up after it failed, and no retry
\* of the operation has found the row.
Unclaimed(r) == pc[r] = "rejected" /\ \A a \in Attempt : sess[a].id # r

\* Whatever answers and statements fail on the way, every reservation is settled
\* or given back, at the latest by the retry that finds it; only a reservation
\* reserveBillingOperation lost track of stays open, and only until such a retry.
ReservationsResolve ==
  \A r \in Attempt :
    ops[r].state = "reserved" ~> (ops[r].state # "reserved" \/ Unclaimed(r))
=============================================================================
