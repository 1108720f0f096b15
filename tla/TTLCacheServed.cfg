\* One key and three threads that only call get_or_compute; leaders may hang.
CONSTANTS
    handler1 = handler1
    handler2 = handler2
    handler3 = handler3
    account = account
    zones = zones
    Threads = {handler1, handler2, handler3}
    Keys = {account}
    MaxSize = 1
    TTL = 2
    FlightTimeout = 2
    MaxClock = 4
    None = None
SPECIFICATION HangingSpec
INVARIANT
    OncePerTTL
PROPERTY
    FollowersReturn
