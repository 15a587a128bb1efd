\* Two builders share a CA for longer than a certificate lives: exposure moves,
\* Secrets are deleted, damaged and replaced, calls fail, caches trail.
SPECIFICATION FairSpec
CONSTANTS
  x = x  y = y  h1 = h1  h2 = h2
  Builders <- MCBuilders
  Hosts = {h1, h2}
  None = None
  Lagging <- MCLagging
  Validity = 4
  RenewBefore = 3
  MaxEdits = 2
  MaxFaults = 1
  MaxMeddling = 1
INVARIANTS TLSTypeOK CertInForce NoCertForgotten OneCA
PROPERTIES CertsFollowCA
