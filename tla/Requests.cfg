SPECIFICATION EitherSpec
CONSTANTS
    first = first
    second = second
    upgrading = upgrading
    h1 = h1
    h2 = h2
    Requests <- ThreeRequests
    ConnOf <- Connections
    DestsOf <- Dests
    Http2 <- OneHttp2
    permits = 1
INVARIANTS
    AnswersFit
    NothingLost
    RefusalsReal
\* Every request is sent once, and the handshake happens once: the run stops
\* when they have ended.
CHECK_DEADLOCK FALSE
