SPECIFICATION Spec
CONSTANTS
  Agents = {ann}
  Ids = {i1}
  Manifests <- OneManifest
  Flags <- NoFlags
  MaxMade = 1
  MaxSurgery = 0
  NoManifest = NoManifest
  NoRecord = NoRecord
  NoIdentity = NoIdentity
  NoMark = NoMark
  NoCopy = NoCopy
  NoDeploy = NoDeploy
  ann = ann
  i1 = i1
INVARIANT HonestRestartStarts
