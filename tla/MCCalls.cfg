SPECIFICATION Spec
CONSTANTS
  Agents = {ann}
  Platform = hub
  Ids = {i1, i2}
  Stages = {s1, s2}
  Tokens = {play}
  Entries = {swap}
  Args = {x, y}
  Requests = {r1, r2, r3}
  Hashes = {r1, r2, r3}
  Inputs <- CallInputs
  Allowlists <- OneLimit
  Cap <- Caps
  Funds = 3
  MaxCrashes = 0
  TreasuryAcct = acct
  ContractAcct = pool
  NoRow = NoRow
  NoTx = NoTx
  NoCall = NoCall
  NoReq = NoReq
  NoLimit = NoLimit
  Unlimited = Unlimited
  NoStageCap = NoStageCap
  ann = ann
  bob = bob
  hub = hub
  i1 = i1
  i2 = i2
  play = play
  gold = gold
  swap = swap
  x = x
  y = y
  acct = acct
  pool = pool
SYMMETRY Symmetry
INVARIANTS CallCountExact CallsWithinLimit FeedFollowsChain
