\* From manifests of every kind to a pod; exposure is switched twice.
SPECIFICATION FairSpec
CONSTANTS
  None = None
  h1 = h1  h2 = h2  h3 = h3
  Fields <- MCFields
  Settings <- MCSettings
  PVCSettings <- MCPVCSettings
  Hosts = {h1, h2, h3}
  LabelSets <- LabelMaps
  Manifests <- MCManifests
  Exposures <- MCExposures
  OtherNames <- MCNames
  Unfit <- MCUnfit
  MaxEdits = 2
INVARIANTS RolloutTypeOK  DefaultsAgree PvcIsMounted OverrideExact TomlExact MountsExist NamesApart SelectorsApart
PROPERTIES PodFollowsExposure
CHECK_DEADLOCK FALSE
