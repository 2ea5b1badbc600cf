SPECIFICATION Spec
CONSTANTS
  Coord <- MCCoord
  Name <- MCName
  NoName = NoName
  Unset = Unset
  Video <- MCVideo
  RawSetting <- MCRawSetting
  Messages <- MCMessages
  InputValidTicks = 1
  SettingsValidTicks = 3
  LoopTicks = 1
  GapTicks = 1
  FlashPasses = 3
INVARIANTS
  TypeOK
  SendNeverFull
  OneMessageDrives
  CopiesAgree
  AckMeansApplied
  SettingsReachLoop
