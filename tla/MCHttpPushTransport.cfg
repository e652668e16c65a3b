SPECIFICATION HttpSpec
CONSTANTS
  Requests = {r1, r2}
  SimTypes <- MCSimTypes
  Payloads <- MCPayloads
  TypeOf <- MCTypeOf
  Hashes <- MCHashes
  Digest <- MCDigest
  BatchIds <- MCBatchIds
  Bodies <- MCBodies
  PresetIds <- MCPresetIds
  Registry <- MCRegistry
  Params <- MCParams
  Raising <- MCRaising
  RecordTypes <- MCRecordTypes
  Contents <- MCContents
  Validated <- MCValidated
  Malformed <- MCMalformed
  Days <- MCDays
  Generate <- MCGenerate
  Settings <- OneSetting
  Poison <- MCPoison
CHECK_DEADLOCK FALSE
INVARIANT FailedEmissionIs502
