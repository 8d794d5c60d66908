SPECIFICATION FairSpec
CONSTANTS
  MaxBuffered = 1
  Batch = 2
  MaxEvents = 3
  MaxCrashes = 1
INVARIANTS NothingLost AnomaliesKept CapOrAnomalies OldestGoFirst
PROPERTY EverythingArrives
