SPECIFICATION Spec
CONSTANTS
  Nodes = {n1, n2}
  Peers = {p1, p2}
  Amounts <- AuditAmounts
  MaxCalls = 2
  RpcFaults = TRUE
CHECK_DEADLOCK FALSE
INVARIANTS
  LedgerTypeOK
  ReadsAreCurrent
  OnlyErrorsLeakSessions
  OkMeansCommitted
PROPERTIES
  AddsUp
