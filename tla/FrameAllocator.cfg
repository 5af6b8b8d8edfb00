CONSTANTS
  FRAME_SIZE = 4
  MAX_FRAMES = 8
  WORD_BITS = 2
  MAX_REGIONS = 4
  LOW_END = 4
  KernelEnds = {4, 6, 9}
  Maps <- MCMaps
  MAX_CAPS_PER_SPACE = 2
  Right = {"CALL", "GRANT"}
  Token = {1, 2}
  HistoryLength = 4
SPECIFICATION Spec
INVARIANTS
  HintAndCountExact
  OnlyUsableMemory
  RightsAttenuate
PROPERTY
  AllocatorIsPool
