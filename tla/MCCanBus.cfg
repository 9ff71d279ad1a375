SPECIFICATION FairSpec
CONSTANTS
  Callers = {c1}
  Tasks = {t1, t2}
  Capacity = 2
  CounterModulus = 2
  MaxEvents = 3
  Serialised = TRUE
  PromptExit = TRUE
INVARIANTS
  TypeOK
  NoSecondOwner
  DriverOutlivesTask
  RestartableOnlyWhenReleased
  FlagsTellTheTruth
  NoPhantomFrame
  FaultWakesConsumer
  DriverEventsCounted
PROPERTIES
  SourceKeepsContract
  StopEventuallySucceeds
