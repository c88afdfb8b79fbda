CONSTANTS
  StickLimit = 0
  LowLimit = 0
  CriticalLimit = 0
  Batteries = {"ok", "critical"}
  Modes = {"MANUAL", "STABILIZED", "AUTO"}
  PublishEvery = 2
  Calibrations <- MCCalibrations
  MaxCommands = 1
SPECIFICATION FairSpec
INVARIANTS TypeOK ControlSourceExclusive HilLocksDown
PROPERTIES EmergencyIsFinal PublicationCatchesUp
