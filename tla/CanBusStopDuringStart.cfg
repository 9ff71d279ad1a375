SPECIFICATION Spec
CONSTANTS
  Callers = {c1, c2}
  Tasks = {t1, t2}
  Capacity = 1
  CounterModulus = 2
  MaxEvents = 0
  Serialised = FALSE
  PromptExit = TRUE
INVARIANTS
  RestartableOnlyWhenReleased
