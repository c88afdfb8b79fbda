CONSTANTS
  FMU_INPUT_DROP_LIMIT = 2
  MIXER_INPUT_DROP_LIMIT = 1
  ARM_COUNTER_THRESHOLD = 1
  LinkCapacity = 1
  MaxResets = 1
SPECIFICATION FairSpec
INVARIANTS TypeOK ArmedIsPermitted FailsafeDisarms SecondCommandIsUsed
PROPERTIES FailoverIsDeserved DisarmReachesServos ReportCatchesUp
