SPECIFICATION FairCacheSpec
CONSTANTS
  c1 = c1
  c2 = c2
  t1 = t1
  t2 = t2
  t3 = t3
  NoToken = NoToken
  NoCaller = NoCaller
  Unknown = Unknown
  Coroutines = {c1, c2}
  Refreshers = {c2}
  Tokens = {t1, t2, t3}
  TTL = 3
  Margin = 2
  Latency = 1
  Horizon = 4
INVARIANTS
  CacheTypeOK
  ArrivesUnexpired
  FetchesOnlyWhenNeeded
PROPERTY
  ServedAgain
