CONSTANTS
  SW_BUS_BUF = 2
  BLAKE3_OUT_LEN = 1
  GCM_NONCE_SIZE = 1
  GCM_TAG_SIZE = 1
  NONCE_MAX = 3
  Endpoints <- MCEndpoints
  HSM_MAX_SLOTS = 2
  AUDIT_RING_CAPACITY = 1
  TOTAL_MOD = 2
  WIRE_HEADER_LEN = 2
  CAP_LEN = 2
  STATUS_HEADER_LEN = 1
  EVENT_LEN = 2
  TlsExternal = TRUE
  SlotArgs <- MCSlotArgs
  Masks <- MCMasks
  Attaches <- MCAttaches
  Writes <- MCWrites
  ByteLens = {}
  OutLens = {2}
  Counts = {1, 3}
  GapCalls = TRUE
  Draws <- MCDraws
  MaxDrawn = 5
SPECIFICATION Spec
INVARIANTS
  SlotConsistency
  AttachedIsAttested
PROPERTIES
  DetachedIsDead
  AttachOutcome
VIEW WithoutCall
