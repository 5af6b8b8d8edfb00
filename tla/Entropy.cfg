SPECIFICATION FairSpec
CONSTANTS
  RCT_CUTOFF = 3
  APT_WINDOW = 3
  APT_CUTOFF = 2
  REENTRY_THRESHOLD = 3
  U32_MAX = 3
  Sample = {0, 1}
  SENTINEL = 1
  SAMPLE_BYTES = 3
  QUORUM_MIN = 2
  RETRY_SPIN_CEILING = 1
  MAX_WAIT = 0
  UPTIME = 1
  TIME_MOD = 4
  RESEED_INTERVAL = 1
  Machines <- MCMachines
  StreamSample = {0, 1}
  StreamLength = 9
INVARIANTS
  HealthAsDefined
  LiveNotDisabled
  SeedHonest
  AttemptAudited
PROPERTIES
  FillEnds
