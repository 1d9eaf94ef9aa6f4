CONSTANTS
  Ssids = {"home", "cafe"}
  Signals = {1, 2}
  MaxAps = 3
SPECIFICATION FairSpec
INVARIANTS PinStrongest JoinsApart
PROPERTIES FreshLease TeardownEnds
