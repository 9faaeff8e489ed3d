SPECIFICATION Spec
CONSTANTS
  a = a
  b = b
  c = c
  Hosts <- ThreeHosts
  REJECTION_WINDOW_SECS = 2
  PIN_LIFETIME_SECS = 3
  MAX_RECENT_REJECTIONS = 2
  UPSTREAM_BURST_HOSTS = 2
  UPSTREAM_BURST_SECS = 1
  UPSTREAM_SUPPRESS_SECS = 1
  UPSTREAM_RECENT_SECS = 2
  SILENT_REFUSALS = 1
  SILENT_FLOOD_SECS = 1
  SILENT_FLOOD_SECONDS = 1
  SILENT_FLOOD_RATIO = 2
  SILENT_HELD_BACK_LOG_SECS = 2
  SILENT_RECENT_SECS = 2
  SILENT_BURST_HOSTS = 2
  SILENT_BURST_SECS = 1
  SILENT_SUPPRESS_SECS = 1
  CLOCK_TOLERANCE_SECS = 1
  AlertHosts <- ThreeHosts
  UpstreamHosts <- Hosts1
  SilentHosts <- TwoHosts
  HandshakeHosts = {}
  ForgetHosts <- Hosts1
  LoadedPins <- OneSaved
  ClockSettings = {0, 4}
  MaxClock = 1
  MaxPerSecond = 1
INVARIANT PinTables
PROPERTY AlertPinsKept
