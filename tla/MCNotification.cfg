SPECIFICATION FairSpec
CONSTANTS
  SlotCount = 2
  Dispatchers = {d1, d2}
  Readings <- MCReadings
  Generations = 4
  InitialGeneration = 2
  MaxSubscriptions = 3
  MaxChanges = 4
INVARIANTS
  TypeOK
  OneCallbackAtATime
  CallbackWithinSubscription
  HandleNamesOneSubscription
  PendingIffBehind
  PendingSummarises
  FairTurns
PROPERTIES
  EventuallyNotified
