SPECIFICATION Spec
CONSTANTS
  Verifiers = {v1, v2, v3}
  NUM_PEERS = 3
  MaxUuid = 11
INVARIANTS
  RotationTypeOK
  RoundCoversKeySpace
  NoWrapAround
PROPERTIES
  WindowsMeetInOneUuid
  EveryUuidAuditedAgain
