SPECIFICATION Spec
CONSTANTS
  Callers = {c1}
  Tasks = {t1, t2}
  Capacity = 1
  CounterModulus = 2
  MaxEvents = 0
  Serialised = TRUE
  PromptExit = FALSE
INVARIANTS
  DriverOutlivesTask
