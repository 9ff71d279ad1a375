SPECIFICATION Spec
CONSTANTS
  Callers = {c1}
  Configurations = {small}
  Platforms = {"host"}
INVARIANTS
  CallbackStopRefused
