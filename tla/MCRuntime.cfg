SPECIFICATION FairSpec
CONSTANTS
  Callers = {c1, c2}
  Configurations = {small, large}
  Platforms = {"esp", "host"}
INVARIANTS
  TypeOK
  OneWorker
  NoWorkerLeftBehind
  StoppedIsVisible
  StopIsOneShot
  RetainedUntilReleased
  CallbackStopRefusedOnEsp
  StopIsNoFault
PROPERTIES
  ConfigurationIsSettled
  StopEventuallySucceeds
  DestructionEnds
