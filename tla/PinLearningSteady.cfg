SPECIFICATION SteadySpec
CONSTANTS
  a = a
  b = b
  c = c
  Hosts <- ThreeHosts
  REJECTION_WINDOW_SECS = 2
  PIN_LIFETIME_SECS = 4
  MAX_RECENT_REJECTIONS = 3
  UPSTREAM_BURST_HOSTS = 2
  UPSTREAM_BURST_SECS = 1
  UPSTREAM_SUPPRESS_SECS = 1
  UPSTREAM_RECENT_SECS = 2
  SILENT_REFUSALS = 2
  SILENT_FLOOD_SECS = 1
  SILENT_FLOOD_SECONDS = 2
  SILENT_FLOOD_RATIO = 2
  SILENT_HELD_BACK_LOG_SECS = 2
  SILENT_RECENT_SECS = 2
  SILENT_BURST_HOSTS = 3
  SILENT_BURST_SECS = 1
  SILENT_SUPPRESS_SECS = 1
  CLOCK_TOLERANCE_SECS = 1
  AlertHosts = {}
  UpstreamHosts <- TwoHosts
  SilentHosts <- ThreeHosts
  HandshakeHosts <- Hosts1
  ForgetHosts = {}
  LoadedPins <- NothingSaved
  ClockSettings = {}
  MaxClock = 4
  MaxPerSecond = 1
INVARIANT ListsMatchPins
INVARIANT NoBurstOfPins
