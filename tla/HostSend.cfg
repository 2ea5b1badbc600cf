SPECIFICATION Spec
CONSTANTS
  winc = winc
  status = status
  Senders = {winc, status}
  Buffers = {1, 2}
  Sizes = {1, 2}
  MaxPolls = 1
  MaxSends = 3
  MaxFaults = 1
CHECK_DEADLOCK FALSE
INVARIANTS
  AloneArrives
  LeaksAreBounded
PROPERTIES
  EverySendReturns
