SPECIFICATION Spec
CONSTANTS
  FRAME_SIZE = 2
  MAX_FRAMES = 48
  WORD_BITS = 8
  MAX_REGIONS = 2
  TABLE_ENTRIES = 4
  MAX_PROGRAM_HEADERS = 3
  EHDR_SIZE = 2
  PHDR_SIZE = 1
  MAX_PROCESSES = 2
  DEFAULT_USER_ENTRY = 16
  DEFAULT_USER_STACK_SIZE = 4
  DEFAULT_PHYS_MAP_OFFSET = 256
  KERNEL_VMA_BASE = 448
  KERNEL_ADDR_SPACE = 14
  LOW_END = 2
  BootStack <- MCBootStack
  Sections <- MCSections
  IstGuards = {464}
  Kaslr <- MCKaslr
  Maps <- MCMaps
  Files <- MCFiles
  Payloads = {0, 3}
  MAX_SPAWNS = 3
CHECK_DEADLOCK FALSE
INVARIANTS AddressSpaceExact FramesOwned KernelMapped Stage1Exact
PROPERTIES SpawnContained SpawnOutcome
VIEW WithoutCall
