SPECIFICATION Spec
CONSTANTS
  Keys = {1}
  Behaviours = {"none"}
  Ttl = 2
  MaxTime = 1
  MaxRestarts = 0
INVARIANTS
  ExpiryKept
CHECK_DEADLOCK FALSE
