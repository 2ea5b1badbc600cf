SPECIFICATION AgedSpec
CONSTANTS
  Coord <- AgeCoord
  Name <- AgeName
  NoName = NoName
  Unset = Unset
  Video <- MCVideo
  RawSetting <- MCRawSetting
  Messages <- AgeMessages
  InputValidTicks = 1
  SettingsValidTicks = 3
  LoopTicks = 1
  GapTicks = 1
  FlashPasses = 3
  MaxAge = 19
INVARIANTS
  StaleInputStops
PROPERTIES
  ImplementsDeadMan
  SilenceStops
  CommandTakesEffect
