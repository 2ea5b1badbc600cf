SPECIFICATION TickSpec
CONSTANTS
  TickValues = 6
  OverflowValues = 3
  MaxWait = 4
INVARIANTS NeverLate EarlyOnlyIfTorn IsTimeOut
