SPECIFICATION TSOSpec
CONSTANTS
  Capacity = 2
  Modulus = 8
  InitialIndex = 6
  MaxFrames = 3
  MaxEvents = 0
  Observers = {o1}
INVARIANTS
  WatermarkCoversDepthAtRest
