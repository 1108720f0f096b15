\* Two handlers and the collector share a limiter of one call per unit of time.
\* With a call of two threads within three units each, the two calls of a list fit
\* into the time-out of seven units and the three of the account do not.
CONSTANTS
    h1 = h1
    h2 = h2
    z1 = z1
    Handlers = {h1, h2}
    Zones = {z1}
    Rosters <- SomeRosters
    Requests <- SomeRequests
    ApiEnabled = TRUE
    TokenSet = FALSE
    MinDays = 1
    UpstreamCodes = {0}
    MaxSize = 1
    TTL = 1
    FlightTimeout = 7
    MaxClock = 9
    Words = {}
    Named <- NoText
    Matches <- NoText
    BadRegex = BadRegex
    None = None
    collector = collector
    MinInterval = 1
    MaxLag = 1
    CycleCalls = 2
SYMMETRY Alike
SPECIFICATION ExporterSpec
CHECK_DEADLOCK FALSE
INVARIANTS
    ExporterTypeOK
    EveryoneGetsOn
    TimeOutsAreEarned
