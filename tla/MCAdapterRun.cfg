SPECIFICATION FairSpec
CONSTANTS
  Jobs = {j1, j2}
  Feeds <- SharedFeeds
  RawTypes <- MCRawTypes
  Canonical <- MCCanonical
  Data <- MCData
  Bytes <- MCBytes
  Keys <- MCKeys
  Digest <- MCDigest
  Poison <- MCPoison
  Attempts = 2
  Retryable <- Transient
  Faults = TRUE
CHECK_DEADLOCK FALSE
INVARIANTS
  TypeOK
  ReturnedMeansTaken
  NoGaps
PROPERTIES
  
  AttemptsKeepCustody
  JobEnds
