SPECIFICATION Spec
CONSTANTS
  Commands <- AllCommands
  RxCapacity = 1
  FirstEeprom <- SeveralEeproms
  IdleTime = 2
  CancelTime = 1
  BootTime = 2
  RunBootTime = 1
  OffTime = 2
  HangTime = 1
  DefaultPowerOnTime = 2
  MaxPowerOnTime = 2
  ByteMod = 6
INVARIANTS TypeOK ConfigPersistent WindowOnlyWhileStopping
