SPECIFICATION FairSpec
CONSTANTS
  Commands <- BackendCommands
  RxCapacity = 1
  FirstEeprom = {1}
  IdleTime = 2
  CancelTime = 1
  BootTime = 2
  RunBootTime = 1
  OffTime = 2
  HangTime = 1
  DefaultPowerOnTime = 1
  MaxPowerOnTime = 1
  ByteMod = 6
PROPERTY WaitsForIgnition
