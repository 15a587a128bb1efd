\* A builder is created, edited with its template, deleted and created again.
SPECIFICATION FairSpec
CONSTANTS
  None = None
  Fields = {"buildkitdToml", "cacheConfig"}
  cachePvc = cachePvc  cacheNone = cacheNone  toml = toml
  h1 = h1  h2 = h2  blue = blue  ip1 = ip1  ip2 = ip2
  Settings <- MCSettings
  PVCSettings <- MCPVCSettings
  Hosts = {h1, h2}
  LabelSets = {blue}
  Lagging = {}
  Resyncs = TRUE
  Specs <- LifecycleSpecs
  Templates <- LifecycleTemplates
  Finalizers = {TRUE, FALSE}
  IPs = {ip1}
  MaxUids = 2
  MaxEdits = 1
  MaxStamps = 0
  MaxFaults = 0
INVARIANTS TypeOK
PROPERTIES Converges NothingLeftBehind DeletionCompletes
