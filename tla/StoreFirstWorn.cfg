SPECIFICATION StoreSpec
CONSTANTS
  Message <- ThreeMessages
  NoMessage = NoMessage
  Erased = Erased
  Torn = Torn
  BlockUsage = 3
  Marked = {}
INVARIANTS SettledIsRestored
