SPECIFICATION Spec
CONSTANTS
  Values = {v1}
  Timeouts = {1}
  MaxTime = 3
INVARIANTS
  NoLateRevival
