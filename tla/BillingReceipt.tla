-------------------------- MODULE BillingReceipt --------------------------
(***************************************************************************)
(* What durable billing promises its callers, without processes, retries,  *)
(* keys or failures: every business operation has at most one receipt,     *)
(* which is reserved once and then settled once or refunded once, and the  *)
(* token's balance moves only together with a receipt and by exactly the   *)
(* amount the receipt says.                                                *)
(***************************************************************************)
EXTENDS Integers

CONSTANTS
  Op,           \* business operations
  Amount,       \* quotas that may be reserved or charged
  Balance,      \* the token's balance at the start
  Unlimited,    \* the token may be overdrawn
  Free          \* the token is not charged at all

VARIABLES
  receipt,   \* [state, quota] of each operation
  balance    \* what is left on the token

NoReceipt == [state |-> "none", quota |-> 0]

Init ==
  /\ receipt = [o \in Op |-> NoReceipt]
  /\ balance = Balance

Pay(q) ==
  /\ balance' = IF Free THEN balance ELSE balance - q
  /\ q > 0 /\ ~ Unlimited => balance' >= 0

Reserve(o, q) ==
  /\ receipt[o] = NoReceipt
  /\ Pay(q)
  /\ receipt' = [receipt EXCEPT ![o] = [state |-> "reserved", quota |-> q]]

Settle(o, q) ==
  /\ receipt[o].state = "reserved"
  /\ Pay(q - receipt[o].quota)
  /\ receipt' = [receipt EXCEPT ![o] = [state |-> "settled", quota |-> q]]

Refund(o) ==
  /\ receipt[o].state = "reserved"
  /\ Pay(- receipt[o].quota)
  /\ receipt' = [receipt EXCEPT ![o] = [state |-> "refunded", quota |-> 0]]

Next ==
  \E o \in Op : \/ \E q \in Amount : Reserve(o, q) \/ Settle(o, q)
                \/ Refund(o)

Spec == Init /\ [][Next]_<<receipt, balance>>
=============================================================================
