SPECIFICATION EachSpec
CONSTANTS
  before = before
  validating = validating
  after = after
  site = site
  NoQuery = NoQuery
  Queries = {before, validating, after}
  Name <- SameName
  DnssecOk = {validating}
  Allowlist = {}
  FORWARD_QUEUE = 1
  forward_in_flight = 1
  MaxStarts = 2
  MaxReloads = 1
INVARIANTS
  RepliesFit
  BlocksWhatTheListsSay
  LimitsKept
  FindsWhatMatches
PROPERTY AnsweredUnlessStopped
\* Each query is asked once, a file is written once and an index built once: a
\* run stops when all of that is done.
CHECK_DEADLOCK FALSE
