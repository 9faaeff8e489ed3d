SPECIFICATION FairSpec
CONSTANTS
    tunnel = tunnel
    socket = socket
    pooled = pooled
    wifi = wifi
    cellular = cellular
    none = none
    off = off
    Tunnels <- OneTunnel
    WebSockets <- OneSocket
    Pooled <- OnePooled
    Addresses <- TwoLinks
    PATH_RECHECK = 2
    tunnel_idle_timeout = 3
    MaxRelays = 2
    MaxResets = 2
INVARIANTS
    CheckAhead
PROPERTIES
    DeadRelaysEnd
    HealthyGoOn
