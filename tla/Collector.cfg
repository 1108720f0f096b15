\* Two zones, one of them filtered out but named by replies, the per-zone lists on.
CONSTANTS
    Zones = {z1, z2}
    Statuses = {"deleted", "unknown", ""}
    Matching = {z1}
    IncludeDisabled = FALSE
    RosterPlans = {z1}
    VipPlans = {z1}
    Collected = {"ip_health", "rosters"}
    InfoTTL = 1
    MaxClock = 2
    None = None
SPECIFICATION Spec
INVARIANTS
    OneRoster
    CountsCover
    UpMeansComplete
    UpIsHonest
    InfoWithinRoster
PROPERTIES
    InfoAskedPerTTL
