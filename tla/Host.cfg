SPECIFICATION Spec
CONSTANTS
  NoMessage = NoMessage
  MaxParts = 3
  MaxSent = 3
  Faults <- MCAllFaults
  MaxFaults = 2
INVARIANTS
  NoCountIsLost
  TaskIsWoken
  BufferIsHeld
  EveryMessageAnswered
PROPERTIES
  DeliversInOrder
  Delivers
CHECK_DEADLOCK FALSE
