SPECIFICATION Spec
CONSTANTS
  Requests = {r1, r2}
  SimTypes <- MCSimTypes
  Payloads <- MCPayloads
  TypeOf <- MCTypeOf
  Hashes <- MCHashes
  Digest <- MCDigest
  BatchIds <- MCBatchIds
  Bodies <- MCBodies
  PresetIds <- MCPresetIds
  Registry <- MCRegistry
  Params <- MCParams
  Raising <- MCRaising
  RecordTypes <- MCRecordTypes
  Contents <- MCContents
  Validated <- MCValidated
  Malformed <- MCMalformed
  Days <- MCDays
  Generate <- MCGenerate
  Settings <- MCSettings
CHECK_DEADLOCK FALSE
INVARIANT SameInputsSameHashes
