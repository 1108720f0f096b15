\* One zone and two requests over any number of cycles, with liveness.
CONSTANTS
    Zones = {z1}
    Statuses = {"active", "disabled", "deleted", ""}
    Matching = {z1}
    IncludeDisabled = FALSE
    RosterPlans = {z1}
    VipPlans = {}
    Collected = {"rosters"}
    InfoTTL = 0
    MaxClock = 1
    None = None
    Handlers = {h1, h2}
CHECK_DEADLOCK FALSE
SPECIFICATION LoopSpec
INVARIANTS
    LoopTypeOK
    UpIsLatest
PROPERTIES
    SignalStops
    KeepsScraping
