SPECIFICATION JobFairSpec
CONSTANTS
  Instances = {i1, i2, i3}
  LockTtl = 3
  MaxJobFaults = 2
INVARIANTS JobTypeOK AtMostOne
PROPERTIES OnlyOwnerReleases JobKeepsRunning
