SPECIFICATION FairSpec
CONSTANTS
  Commands <- DelayCommands
  RxCapacity = 1
  FirstEeprom = {3}
  IdleTime = 2
  CancelTime = 1
  BootTime = 2
  RunBootTime = 1
  OffTime = 2
  HangTime = 1
  DefaultPowerOnTime = 3
  MaxPowerOnTime = 3
  ByteMod = 6
PROPERTY PowerOnIsCancelled
