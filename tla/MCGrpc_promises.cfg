SPECIFICATION Spec
CONSTANTS
  Requests = {r1, r2}
  Kinds = {"store"}
  Peers = {p1, p2}
  REPLICATION_FACTOR = 2
  por_enabled = TRUE
  MaxTries = 2
  Faults = {}
  None = None
INVARIANTS
  EveryPromiseIsAudited
CHECK_DEADLOCK FALSE
