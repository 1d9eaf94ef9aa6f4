SPECIFICATION IdentitySpec
CONSTANT MaxKeys = 1
INVARIANT FreesInitialised
