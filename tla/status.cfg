\* Scaling, the published status and deletion under pod crashes, failed calls
\* and restarts, in both modes.
SPECIFICATION FairSpec
CONSTANTS
  None = None
  Fields = {"buildkitdToml", "cacheConfig"}
  cachePvc = cachePvc  cacheNone = cacheNone  toml = toml
  h1 = h1  h2 = h2  blue = blue  ip1 = ip1  ip2 = ip2
  Settings <- MCSettings
  PVCSettings <- MCPVCSettings
  Hosts = {h1, h2}
  LabelSets = {blue}
  Lagging = {}
  Resyncs = FALSE
  Specs <- BothModes
  Templates <- PvcTemplate
  Finalizers = {TRUE}
  IPs = {ip1, ip2}
  MaxUids = 1
  MaxEdits = 0
  MaxStamps = 2
  MaxFaults = 1
PROPERTIES StatusSettles DeletionCompletes ScalesToZero WakesForBuild
CHECK_DEADLOCK FALSE
