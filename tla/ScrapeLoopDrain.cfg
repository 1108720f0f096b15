\* Requests in flight at shutdown.
CONSTANTS
    Zones = {z1}
    Statuses = {"active", "disabled", "deleted", ""}
    Matching = {z1}
    IncludeDisabled = FALSE
    RosterPlans = {z1}
    VipPlans = {}
    Collected = {"rosters"}
    InfoTTL = 0
    MaxClock = 0
    None = None
    Handlers = {h1}
SPECIFICATION LoopSpec
INVARIANTS
    DrainsRequests
CHECK_DEADLOCK FALSE
