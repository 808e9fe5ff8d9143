SPECIFICATION Spec
CONSTANTS
  n1 = n1
  n2 = n2
  k1 = k1
  Verifiers = {n1, n2}
  Corrupt = {n2}
  Keepers = {n1, k1}
  Files = {0}
  Skew <- OneAhead
  Faults = {"malice"}
  NUM_PEERS = 1
  MaxUuid = 3
  MaxContracts = 2
  MaxCycles = 2
  MaxTime = 1
  AUDIT_REWARD = 1
  AUDIT_PENALTY = 5
INVARIANTS
  VerifierTypeOK
  AlarmsHaveACause
  OnlySlowClocksStop
PROPERTIES
  PunishedOnlyForCause
CHECK_DEADLOCK FALSE
