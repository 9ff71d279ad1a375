SPECIFICATION Spec
CONSTANTS
  Values = {v1, v2}
  Timeouts = {0, 1}
  MaxTime = 3
INVARIANTS
  TypeOK
  NewestWins
  StaleInBothViews
PROPERTIES
  NoRevival
