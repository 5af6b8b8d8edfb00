CONSTANTS
  MAX_PSK_SLOTS = 2
  MAX_PSK_LEN = 1
  SEQ_MAX = 2
  MAX_PLAINTEXT_LEN = 1
  MAX_TLS_CONNS = 3
  PskIds = {0, 1}
  PeerIds = {1}
  Materials <- MCMaterials
  Kexes <- MCKexes
  Plaintexts <- MCPlaintexts
  OutLens = {0, 1}
  MaxHandshakes = 2
  MaxRecords = 3
SPECIFICATION Spec
INVARIANTS
  RecordNonceFresh
  StreamPrefix
PROPERTIES
  DestroyTakesEffect
  HandshakeOutcome
  SendOutcome
VIEW WithoutCall
