SPECIFICATION Spec
CONSTANTS
  Keys = {1, 2, 3}
  Behaviours = {"none", "delete_all", "delete_last"}
  Ttl = 2
  MaxTime = 1
  MaxRestarts = 1
INVARIANTS
  StorageTypeOK
  DiscoveriesAreReal
  OnlyExpiryEndsLoop
PROPERTIES
  EverythingDeleted
CHECK_DEADLOCK FALSE
