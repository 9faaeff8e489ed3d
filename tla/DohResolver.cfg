SPECIFICATION EitherSpec
CONSTANTS
  first = first
  misspelt = misspelt
  second = second
  call1 = call1
  call2 = call2
  Calls = {call1, call2}
  Configured <- TwoAndOneInvalid
  Valid = {first, second}
  MAX_IN_FLIGHT = 1
  MaxResets = 1
  lead = lead
  follow = follow
  late = late
  other = other
  numeric = numeric
  shared = shared
  single = single
  literal = literal
INVARIANTS
  FailsOnlyIfAllFail NeverBusy OneLeader
PROPERTIES
  ImplementsService ComesBack LookupsEnd
