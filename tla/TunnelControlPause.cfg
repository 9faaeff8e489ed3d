SPECIFICATION Spec
CONSTANTS
  MaxUser = 3
  MaxKills = 2
  MaxQueued = 2
INVARIANT OnDemandComesBack
