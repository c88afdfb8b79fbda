CONSTANTS
  GCS = {1, 2}
  MAVLINK_WPM_MAX_WP_COUNT = 2
  MaxCount = 3
SPECIFICATION FairSpec
INVARIANTS TypeOK ListIsWhole ActiveInList SetpointIsActive
PROPERTIES AckedIsListed TransferEnds
