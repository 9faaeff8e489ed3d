SPECIFICATION FairSpec
CONSTANTS
  r1 = r1
  r2 = r2
  r3 = r3
  tls = tls
  mixed = mixed
  plain = plain
  None = None
  Requests = {r1, r2, r3}
  Hosts = {tls, mixed, plain}
  Targets <- SameOrSplit
  PlainHosts = {plain}
  Offers <- MixedOffers
  Replayables = {r1}
  MAX_CONNECTIONS = 2
  MAX_H1_PER_HOST = 1
  MaxResets = 1
INVARIANTS ConnectionsAccounted SentOnce
PROPERTIES HandedOutAfterReset RequestsEnd
