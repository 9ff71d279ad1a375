SPECIFICATION Spec
CONSTANTS
  Capacity = 2
  Modulus = 8
  InitialIndex = 6
  MaxFrames = 3
  MaxEvents = 1
  Observers = {o1}
INVARIANTS
  TypeOK
  NoSlotRace
  DepthBounded
  DepthIsCoherent
  WatermarkCoversDepth
  Accounting
PROPERTIES
  ImplementsFrameQueue
