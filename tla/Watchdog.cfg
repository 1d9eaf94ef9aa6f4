SPECIFICATION FairSpec
CONSTANTS
  Chips = {"esp32c3", "esp32s3"}
  TimeoutsMs = {1, 2, 5}
PROPERTIES OnlyGuardedReset Supervised
CHECK_DEADLOCK FALSE
