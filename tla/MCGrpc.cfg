SPECIFICATION Spec
CONSTANTS
  Requests = {r1, r2}
  Kinds = {"store", "put_to", "retrieve", "verify", "verify_file"}
  Peers = {p1, p2}
  REPLICATION_FACTOR = 2
  por_enabled = TRUE
  MaxTries = 2
  Faults = {"ledger", "put", "empty", "malice", "cancel", "crash"}
  None = None
INVARIANTS
  GrpcTypeOK
  AcknowledgedIsStored
  ContractMeansStored
  HalfPutIsHidden
PROPERTIES
  EveryRequestAnswered
CHECK_DEADLOCK FALSE
