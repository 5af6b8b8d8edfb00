CONSTANTS
  SW_BUS_BUF = 3
  BLAKE3_OUT_LEN = 2
  GCM_NONCE_SIZE = 1
  GCM_TAG_SIZE = 1
  NONCE_MAX = 1
  Endpoints <- MCEndpoints
  HSM_MAX_SLOTS = 2
  AUDIT_RING_CAPACITY = 1
  TOTAL_MOD = 2
  WIRE_HEADER_LEN = 2
  CAP_LEN = 1
  STATUS_HEADER_LEN = 1
  EVENT_LEN = 1
  TlsExternal = FALSE
  SlotArgs <- MCSlotArgs
  Masks <- MCMasks
  Attaches <- MCAttaches
  Writes <- MCWrites
  ByteLens = {1, 2}
  OutLens = {2, 4}
  Counts = {}
  GapCalls = FALSE
  Draws <- MCDraws
  MaxDrawn = 5
SPECIFICATION Spec
PROPERTIES
  OnlyAuthorised
  ResponseDelivered
  WireAnswer
  RelayExact
VIEW WithoutCall
