SPECIFICATION FairSpec
CONSTANTS
  Commands <- DriverCommands
  RxCapacity = 1
  FirstEeprom = {2}
  IdleTime = 2
  CancelTime = 1
  BootTime = 2
  RunBootTime = 1
  OffTime = 2
  HangTime = 1
  DefaultPowerOnTime = 2
  MaxPowerOnTime = 2
  ByteMod = 6
INVARIANTS RelayInterlock HoldWhilePowered
PROPERTIES KeepsPromise IgnitionOffStopsPi IgnitionOnStartsPi SilentPiIsCutOff
