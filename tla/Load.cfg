SPECIFICATION LoadSpec
CONSTANTS
  Addresses = {0, 1, 2, 3, 4096}
  Lengths = {0, 1, 4, 251, 252, 253, 256, 260, 504, 507, 512, 516}
  Faults = TRUE
  Chips = {"esp32c3", "esp32s3"}
  FlashLens = {1, 65504, 65505, 131072}
  RamLens = {0, 1, 256, 257}
INVARIANTS WindowFits MovedExact LoadedExact BootloaderIntact
CHECK_DEADLOCK FALSE
