SPECIFICATION Spec
CONSTANTS
  t1 = t1
  t2 = t2
  c1 = c1
  c2 = c2
  d1 = d1
  d2 = d2
  d3 = d3
  d4 = d4
  NoDigest = NoDigest
  Tabs = {t1, t2}
  Clients = {c1, c2}
  ClientOf <- TwoTabs
  Proxied = TRUE
  Digests = {d1, d2, d3}
  SizeOf <- Sizes
  MaxEntries = 2
  MaxBytes = 4
  BundleMax = 2
  Grace = 1
  MaxPin = 2
  Timeout = 2
  MaxWindows = 2
  ClientPins = 1
  DigestKeys = 2
  MaxWorkers = 2
  MaxPosts = 4
  MaxTime = 2
INVARIANT CacheCoherent
PROPERTY LeasesHold
SYMMETRY Swap
CHECK_DEADLOCK FALSE
