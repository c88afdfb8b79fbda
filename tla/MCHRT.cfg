CONSTANTS
  Calls = {c1, c2}
  HRT_COUNTER_PERIOD = 8
  HRT_INTERVAL_MIN = 1
  HRT_INTERVAL_MAX = 5
  FirstCapture = 4
  Delays <- MCDelays
  Periods <- MCPeriods
  MaxLatency = 2
  EntryDelay = 1
  Horizon = 18
SPECIFICATION Spec
INVARIANTS TypeOK TimeIsReal QueueConsistent CalledInTime
