SPECIFICATION ConsumerFairSpec
CONSTANTS
  Runners = {r1, r2}
  Copies <- MCCopies
  Events <- MCEvents
  Bodies <- MCBodies
  EventOf <- MCEventOf
  BodyOf <- MCBodyOf
  Malformed <- MCMalformed
  MaxDelivery = 2
  NoBody = NoBody
  NoCopy = NoCopy
INVARIANTS ConsumerTypeOK ExactlyOnceEffect AckedWasApplied
PROPERTY EveryCopySettles
CHECK_DEADLOCK FALSE
