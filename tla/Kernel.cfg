SPECIFICATION FairSpec
CONSTANTS
  led = led
  status = status
  control = control
  Sleepers = {led, status}
  Winc = winc
  Idle = idle
  Busy = {}
  Delay <- ShortAndLong
  MaxTick = 2
  MaxMissed = 1
  IsrIsMasked = TRUE
INVARIANTS
  SuspensionExcludes
  OneListEach
  DelayedBeforeWrap
  NeverLate
  NoLostWakeup
PROPERTIES
  NeverEarly
  DelaysEnd
  IsBinarySemaphore
