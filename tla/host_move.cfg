\* An exposed builder gets another host.
SPECIFICATION FairSpec
CONSTANTS
  None = None
  h1 = h1  h2 = h2  h3 = h3
  Fields <- MCFields
  Settings <- MCSettings
  PVCSettings <- MCPVCSettings
  Hosts = {h1, h2, h3}
  LabelSets <- LabelMaps
  Manifests <- ExposedManifests
  Exposures <- BothHosts
  OtherNames <- MCNames
  Unfit <- MCUnfit
  MaxEdits = 1
PROPERTIES PodFollowsExposure
CHECK_DEADLOCK FALSE
