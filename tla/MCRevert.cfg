SPECIFICATION Spec
CONSTANTS
  MaxCalls = 2
  Ids = {"i1", "i2"}
  Asks <- FourAsks
  Files <- TwoFiles
  KindDefault <- NoRules
  Lookup <- TwoAddresses
  CanonicalOf <- TwoWallets
  MaxFaults = 0
  Tokens = {"play", "gold"}
  Default = "play"
  NoToken = NoToken
  Junk = Junk
  Unlimited = Unlimited
  TooFine = TooFine
  FineWorth = 1
  Tld = "{tld}"
INVARIANT OriginalOutcome
CHECK_DEADLOCK FALSE
