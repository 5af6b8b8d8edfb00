CONSTANTS
  SW_BUS_BUF = 4
  BLAKE3_OUT_LEN = 2
  GCM_NONCE_SIZE = 1
  GCM_TAG_SIZE = 1
  NONCE_MAX = 3
  MaxKeys = 2
  OutLens = {0, 1, 2, 5}
  Endpoints <- MCEndpoints
  Inits <- MCInits
  Data <- MCData
SPECIFICATION BusSpec
INVARIANTS
  NonceNeverReused
  PollTruthful
PROPERTY
  BusIsChannel
