\* API calls fail, applied or not, pods crash and the controller restarts at
\* any point of a reconcile.
SPECIFICATION Spec
CONSTANTS
  None = None
  Fields = {"buildkitdToml", "cacheConfig"}
  cachePvc = cachePvc  cacheNone = cacheNone  toml = toml
  h1 = h1  h2 = h2  blue = blue  ip1 = ip1  ip2 = ip2
  Settings <- MCSettings
  PVCSettings <- MCPVCSettings
  Hosts = {h1, h2}
  LabelSets = {blue}
  Lagging = {"sts", "ca"}
  Resyncs = FALSE
  Specs <- HostlessSpecs
  Templates <- PvcTemplate
  Finalizers = {FALSE}
  IPs = {ip1, ip2}
  MaxUids = 1
  MaxEdits = 1
  MaxStamps = 0
  MaxFaults = 2
INVARIANTS IInv ServicesBeforeStatefulSet NoLostWakeup
PROPERTIES CertBeforePod
CHECK_DEADLOCK FALSE
