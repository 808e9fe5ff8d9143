SPECIFICATION Spec
CONSTANTS
  Nodes = {n1, n2}
  Peers = {p1}
  Amounts <- AuditAmounts
  MaxCalls = 1
  RpcFaults = TRUE
CHECK_DEADLOCK FALSE
INVARIANT
  OkMeansApplied
