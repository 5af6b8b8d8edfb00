SPECIFICATION FairSpec
CONSTANTS
  IPC_MAX_PAYLOAD = 256
  IPC_MAX_ENDPOINTS = 16
  SEQ_MOD = 2
  SK_LEN = 2
  PK_LEN = 1
  SIG_LEN = 1
  SEED_LEN = 1
  MSG_BUF_LEN = 1
  CHUNK_SIZE = 2
  BEGIN_LEN = 1
  Client = {"a", "b"}
  Caps <- MCCaps
  Requests <- MCRequests
  ReplyLen = {1, 257}
INVARIANTS
  SessionConsistent
  RendezvousClean
  ReplyAnswersCall
  AeadRoundTrip
PROPERTIES
  SessionForward
  ReplyReachesCaller
