SPECIFICATION FairSpec
CONSTANTS
  SendIntents = {send}
  CallIntents = {call}
  FundIntents = {fund}
  OtherLogs <- EveryLog
  MaxBlocks = 2
  MaxCrashes = 1
  NoIntent = NoIntent
  NoAnomaly = NoAnomaly
  send = send
  call = call
  fund = fund
INVARIANTS BehindCursorTold EmissionsCountedOnce OwnEmissionSeen HashIsNoStrangers AnomaliesTold
PROPERTY LandedFirstIsConfirmed
