CONSTANTS
  PPM_MIN_CHANNELS = 1
  PPM_MAX_CHANNELS = 3
  PPM_CHANNEL_LOCK = 3
  PPM_INPUT_TIMEOUT = 2
SPECIFICATION FairSpec
INVARIANTS TypeOK ExportIsWhole
PROPERTIES LockHolds SteadyIsDecoded
