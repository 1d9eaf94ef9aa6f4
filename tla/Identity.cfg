SPECIFICATION IdentitySpec
CONSTANT MaxKeys = 2
INVARIANTS KeyDestroyed ContextsSound ValidatedUsable
