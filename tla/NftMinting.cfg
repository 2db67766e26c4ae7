SPECIFICATION MintFairSpec
CONSTANTS
  Mints = {m1, m2}
  NoMint = NoMint
  MintRuns = {r1, r2}
  BatchSize = 1
  MaxRetries = 1
  MaxCrashes = 1
INVARIANTS OwnedIsMinted AcceptedIsFollowed AcceptedOnce
PROPERTIES MintMovesOn QueuedIsRequested
CHECK_DEADLOCK FALSE
