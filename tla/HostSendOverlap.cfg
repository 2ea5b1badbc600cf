SPECIFICATION Spec
CONSTANTS
  winc = winc
  status = status
  Senders = {winc, status}
  Buffers = {1, 2}
  Sizes = {1}
  MaxPolls = 2
  MaxSends = 2
  MaxFaults = 0
CHECK_DEADLOCK FALSE
INVARIANTS
  SuccessArrives
