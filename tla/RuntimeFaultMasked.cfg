SPECIFICATION Spec
CONSTANTS
  Callers = {c1}
  Configurations = {small}
  Platforms = {"esp"}
INVARIANTS
  FaultStaysVisible
