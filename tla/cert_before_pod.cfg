\* The cache of the TLS Secret trails: expected violation.
SPECIFICATION Spec
CONSTANTS
  None = None
  Fields = {"buildkitdToml", "cacheConfig"}
  cachePvc = cachePvc  cacheNone = cacheNone  toml = toml
  h1 = h1  h2 = h2  blue = blue  ip1 = ip1  ip2 = ip2
  Settings <- MCSettings
  PVCSettings <- MCPVCSettings
  Hosts = {h1, h2}
  LabelSets = {blue}
  Lagging = {"secret"}
  Resyncs = FALSE
  Specs <- ExposureSpecs
  Templates <- PvcTemplate
  Finalizers = {FALSE}
  IPs = {ip1}
  MaxUids = 1
  MaxEdits = 2
  MaxStamps = 0
  MaxFaults = 0
PROPERTIES CertBeforePod
CHECK_DEADLOCK FALSE
