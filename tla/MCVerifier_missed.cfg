SPECIFICATION Spec
CONSTANTS
  n1 = n1
  n2 = n2
  k1 = k1
  Verifiers = {n1, n2}
  Corrupt = {n2}
  Keepers = {k1}
  Files = {0}
  Skew <- NoSkew
  Faults = {}
  NUM_PEERS = 1
  MaxUuid = 3
  MaxContracts = 1
  MaxCycles = 2
  MaxTime = 3
  AUDIT_REWARD = 1
  AUDIT_PENALTY = 5
INVARIANTS
  CheatersCaught
CHECK_DEADLOCK FALSE
