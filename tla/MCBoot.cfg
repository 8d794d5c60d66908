SPECIFICATION Spec
CONSTANTS
  Agents = {ann}
  Ids = {i1}
  Manifests <- ThreeManifests
  Flags <- AnyFlags
  MaxMade = 1
  MaxSurgery = 2
  NoManifest = NoManifest
  NoRecord = NoRecord
  NoIdentity = NoIdentity
  NoMark = NoMark
  NoCopy = NoCopy
  NoDeploy = NoDeploy
  ann = ann
  i1 = i1
INVARIANTS WitnessedIdsStay RefusalHasCause SeededOnce LiveIsWhole
