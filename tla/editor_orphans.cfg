SPECIFICATION Spec
CONSTANTS
  t1 = t1
  t2 = t2
  c1 = c1
  c2 = c2
  d1 = d1
  d2 = d2
  d3 = d3
  d4 = d4
  NoDigest = NoDigest
  Tabs = {t1, t2}
  Clients = {c1}
  ClientOf <- LocalTabs
  Proxied = FALSE
  Digests = {d1, d2, d3, d4}
  SizeOf <- MixedSizes
  MaxEntries = 4
  MaxBytes = 4
  BundleMax = 2
  Grace = 1
  MaxPin = 2
  Timeout = 1
  MaxWindows = 4
  ClientPins = 4
  DigestKeys = 2
  MaxWorkers = 2
  MaxPosts = 5
  MaxTime = 0
INVARIANT NoOrphans
CHECK_DEADLOCK FALSE
