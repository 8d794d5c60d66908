SPECIFICATION FairSpec
CHECK_DEADLOCK FALSE
CONSTANTS
  Sends = {s1, s2, s3, s4}
  Resolved = Resolved
INVARIANTS OneAtATime NoOvertaking NonceClashNeedsLostCall
PROPERTIES IsFifoLock QueueDrains
