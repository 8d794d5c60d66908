SPECIFICATION Spec
CONSTANTS
  Canonical = {ann, bob}
  Aliases = {rob}
  Peer <- RobIsBob
  Jobs = {j1, j2}
  Fields = {"caps", "deny"}
  DenyEntry = rob
  Defaults <- AgentsCap
  Asks <- SmallAsks
  MaxRequests = 4
  MaxFaults = 2
  MaxMoves = 1
  NoAddr = NoAddr
  NoName = NoName
  Empty = Empty
  Mixed = Mixed
  NoFile = NoFile
  NoRow = NoRow
  NoDoc = NoDoc
  Idle = Idle
  ann = ann
  bob = bob
  rob = rob
  j1 = j1
  j2 = j2
SYMMETRY Symmetry
CHECK_DEADLOCK FALSE
INVARIANTS SpawnedIsWhole FundedOnce PolicyKept RetiredIsUnnamed
PROPERTIES NeverRedirected
