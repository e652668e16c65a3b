SPECIFICATION Spec
CONSTANTS
  Jobs = {j1, j2}
  Feeds <- PoisonFeeds
  RawTypes <- MCRawTypes
  Canonical <- MCCanonical
  Data <- MCData
  Bytes <- MCBytes
  Keys <- MCKeys
  Digest <- MCDigest
  Poison <- MCPoison
  Attempts = 2
  Retryable <- AnyError
  Faults = TRUE
CHECK_DEADLOCK FALSE
INVARIANT
  PoisonIsRouted
