CONSTANTS
  GCS = {1}
  MAVLINK_WPM_MAX_WP_COUNT = 2
  MaxCount = 3
SPECIFICATION Spec
INVARIANT ItemsFit
