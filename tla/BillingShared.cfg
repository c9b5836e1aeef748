CONSTANTS
  a1 = a1
  a2 = a2
  a3 = a3
  o1 = o1
  o2 = o2
  n1 = n1
  n2 = n2
  body = body
  otherBody = otherBody
  Attempt = {a1, a2, a3}
  Op = {o1, o2}
  Node = {n1}
  OpOf <- SharedOp
  FpOf <- ChangedBody
  NodeOf <- OneNode
  ReserveOf <- Reserves
  Settlement <- Costs
  MaxKey = 2
  InitialQuota = 4
  Unlimited = TRUE
  Playground = FALSE
  NoRow = NoRow
  Faults = {"crash", "rotate", "log", "ack", "reset"}
SPECIFICATION Spec
INVARIANTS
  OneRowPerOperation
  CountersMatchReceipts
PROPERTY ImplementsContract
