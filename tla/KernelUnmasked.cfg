SPECIFICATION Spec
CONSTANTS
  led = led
  status = status
  control = control
  Sleepers = {led, status}
  Winc = winc
  Idle = idle
  Busy = {control}
  Delay <- ShortAndLong
  MaxTick = 3
  MaxMissed = 2
  IsrIsMasked = FALSE
INVARIANTS
  NoLostWakeup
