------------------------ MODULE BillingRefinement -------------------------
(***************************************************************************)
(* BillingSession implements BillingReceipt: the receipt of an operation   *)
(* is its row in billing_operations.                                       *)
(***************************************************************************)
EXTENDS BillingSession

RowOf(o) == CHOOSE r \in Attempt : r \in RowsFor(o)

ReceiptOf(o) ==
  IF RowsFor(o) = {}
    THEN [state |-> "none", quota |-> 0]
    ELSE [state |-> ops[RowOf(o)].state, quota |-> Held(RowOf(o))]

Contract == INSTANCE BillingReceipt WITH
  receipt <- [o \in Op |-> ReceiptOf(o)],
  balance <- token.remain,
  Amount  <- {ReserveOf[a] : a \in Attempt} \union {s.quota : s \in Settlement},
  Balance <- InitialQuota,
  Free    <- Playground

\* Whatever fails, is retried or runs concurrently, a caller of durable
\* billing sees one receipt per operation and a balance that moves with it.
ImplementsContract == Contract!Spec
=============================================================================
