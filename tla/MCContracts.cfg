SPECIFICATION Spec
CONSTANTS
  Canonical <- ThreeNames
  Aliases = {}
  Peer <- NoPeer
  NoAddr = NoAddr
  NoName = NoName
  Tokens = {"play", "gold"}
  Accounts = {"a1", "a2"}
  Backend = "judge"
  Ids = {"e1"}
  Points <- Pointing
  Moved <- Moving
  MaxFrozen = 1
  Scale = 2
  Rates = {1, 4}
  Amounts = {1, 2}
  Modes = {"ONE_JUDGE", "EACH_OWN_COPY"}
  Deadlines = {1}
  Times = {0, 1, 2}
  Served = {"play"}
  MaxSupply = 2
PROPERTIES OnlyMintMakesValue FrozenPaysNothing
