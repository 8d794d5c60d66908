SPECIFICATION Spec
CONSTANTS
  MaxCalls = 2
  Ids = {"i1", "i2"}
  Asks <- FourAsks
  Files <- TwoFiles
  KindDefault <- NoRules
  Lookup <- TwoAddresses
  CanonicalOf <- TwoWallets
  MaxFaults = 2
  Tokens = {"play", "gold"}
  Default = "play"
  NoToken = NoToken
  Junk = Junk
  Unlimited = Unlimited
  TooFine = TooFine
  FineWorth = 1
  Tld = "{tld}"
INVARIANTS PaidOnce OkIsForWhatWasAsked
PROPERTY EveryCallReturns
CHECK_DEADLOCK FALSE
