\* Exposure switched on and off and moved between hosts while the caches of
\* the builder and of its Secret trail.
SPECIFICATION Spec
CONSTANTS
  None = None
  Fields = {"buildkitdToml", "cacheConfig"}
  cachePvc = cachePvc  cacheNone = cacheNone  toml = toml
  h1 = h1  h2 = h2  blue = blue  ip1 = ip1  ip2 = ip2
  Settings <- MCSettings
  PVCSettings <- MCPVCSettings
  Hosts = {h1, h2}
  LabelSets = {blue}
  Lagging = {"builder", "secret", "pods"}
  Resyncs = FALSE
  Specs <- ExposureSpecs
  Templates <- PvcTemplate
  Finalizers = {FALSE}
  IPs = {ip1}
  MaxUids = 1
  MaxEdits = 2
  MaxStamps = 0
  MaxFaults = 0
INVARIANTS NoLostWakeup CertNoticed
PROPERTIES StatusDescribesCluster MissingCertNoticed
CHECK_DEADLOCK FALSE
