SPECIFICATION FairLink
CONSTANTS
  Commands <- LinkCommands
  RxCapacity = 2
  FirstEeprom = {1}
  IdleTime = 2
  CancelTime = 1
  BootTime = 3
  RunBootTime = 1
  OffTime = 4
  HangTime = 3
  DefaultPowerOnTime = 1
  MaxPowerOnTime = 1
  ByteMod = 256
  BootSeconds = {1, 2, 4}
  HaltSeconds = 1
  MaxFaults = 2
  MaxAlive = 4
INVARIANTS LinkTypeOK HealthyPiKept LatchNotStale
PROPERTIES StopsClean SettlesInRun
