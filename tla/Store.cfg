SPECIFICATION StoreSpec
CONSTANTS
  Message <- ThreeMessages
  NoMessage = NoMessage
  Erased = Erased
  Torn = Torn
  BlockUsage = 3
  Marked = {0, 1, 2}
INVARIANTS
  SettledIsStored
PROPERTIES
  KeepsPromise
