CONSTANTS
  AUDIT_RING_CAPACITY = 3
  TOTAL_MOD = 6
  MaxLog = 13
  Reports <- MCReports
SPECIFICATION Spec
INVARIANTS
  SnapshotFaithful
  LossIsDetectable
PROPERTY
  RingIsSlidingWindow
