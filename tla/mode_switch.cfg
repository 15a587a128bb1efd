\* The mode of a running builder is edited: expected violation.
SPECIFICATION FairSpec
CONSTANTS
  None = None
  Fields = {"buildkitdToml", "cacheConfig"}
  cachePvc = cachePvc  cacheNone = cacheNone  toml = toml
  h1 = h1  h2 = h2  blue = blue  ip1 = ip1  ip2 = ip2
  Settings <- MCSettings
  PVCSettings <- MCPVCSettings
  Hosts = {h1, h2}
  LabelSets = {blue}
  Lagging = {}
  Resyncs = FALSE
  Specs <- BothModes
  Templates <- PlainTemplate
  Finalizers = {FALSE}
  IPs = {ip1}
  MaxUids = 1
  MaxEdits = 1
  MaxStamps = 1
  MaxFaults = 0
PROPERTIES ScalesToZero
CHECK_DEADLOCK FALSE
