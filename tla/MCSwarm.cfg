SPECIFICATION Spec
CONSTANTS
  c1 = c1
  c2 = c2
  Callers <- MCCallers
  Ops <- AllOps
  Faults = {"cancel", "closed", "inbound_failure", "refused"}
  Capacity = 1
  MaxCalls <- MCMaxCalls
  MaxInbound = 2
  NoCaller = NoCaller
INVARIANTS
  SwarmTypeOK
  NoWaiterForgotten
  NoEntryLeaks
PROPERTIES
  DataOpsKeepNodeUp
  CallsImplemented
  EveryCallReturns
CHECK_DEADLOCK FALSE
