SPECIFICATION Spec
CONSTANTS
  n1 = n1
  n2 = n2
  k1 = k1
  Verifiers = {n1}
  Corrupt = {}
  Keepers = {n1, k1}
  Files = {1, 3}
  Skew <- NoSkew
  Faults = {"ledger", "request", "put"}
  NUM_PEERS = 2
  MaxUuid = 3
  MaxContracts = 2
  MaxCycles = 5
  MaxTime = 0
  AUDIT_REWARD = 1
  AUDIT_PENALTY = 5
INVARIANTS
  RoundAuditsEveryContract
PROPERTIES
  RotationImplemented
  RewardsEarned
  CycleCompletes
CHECK_DEADLOCK FALSE
