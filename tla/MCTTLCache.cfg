\* Three handlers, two keys and room for one entry.
CONSTANTS
    handler1 = handler1
    handler2 = handler2
    handler3 = handler3
    account = account
    zones = zones
    Threads = {handler1, handler2, handler3}
    Keys = {account, zones}
    MaxSize = 1
    TTL = 1
    FlightTimeout = 1
    MaxClock = 2
    None = None
SPECIFICATION Spec
SYMMETRY ThreadAndKeySymmetry
INVARIANTS
    TypeOK
    SingleFlight
    NoOrphans
    NoStaleBesideFlight
    Fresh
PROPERTY
    FlightsSpec
