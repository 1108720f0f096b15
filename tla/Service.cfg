\* Two handlers, two zones, two rosters and six requests.
CONSTANTS
    h1 = h1
    h2 = h2
    z1 = z1
    z2 = z2
    both = both
    y = y
    bad = bad
    Handlers = {h1, h2}
    Zones = {z1, z2}
    Rosters <- SomeRosters
    Requests <- SomeRequests
    ApiEnabled = TRUE
    TokenSet = TRUE
    MinDays = 1
    UpstreamCodes = {0}
    MaxSize = 1
    TTL = 1
    FlightTimeout = 1
    MaxClock = 1
    Words <- SomeWords
    Named <- SomeNamed
    Matches <- SomeMatches
    BadRegex = BadRegex
    None = None
SPECIFICATION FairSpec
INVARIANTS
    AnswersTheQuestion
    CoversTheWindow
    ToldOwnFaults
PROPERTIES
    SpendsWithinPlan
    FirstServed
