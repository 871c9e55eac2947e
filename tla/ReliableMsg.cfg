SPECIFICATION FairSpec
CONSTANTS
  Workers = {w1, w2}
  NumMessages = 2
  MaxAttempts = 2
  BackoffCap = 1
  Lease = 3
  BatchLimit = 2
  MaxFaults = 1
  AllowOverrun = FALSE
INVARIANTS TypeOK PublishedWasAccepted DeadAfterBudget ExclusiveClaim
PROPERTIES SettledIsFinal ImplementsOutbox EventuallySettled
